--------------------------- MODULE MftScanProofs ---------------------------
(***************************************************************************)
(* Proofs about MftScan for any volume, any number of records, buffers and *)
(* changes of the file system.                                             *)
(*                                                                         *)
(* Three arguments.  What a change of the file system does to its records: *)
(* they stay well formed, sequence values and ids only grow, and one name  *)
(* appears at most.  Where the two threads are: the chunks in the buffers  *)
(* are the next ones, and the parser knows at each stage what is received  *)
(* (ControlInv).  And that what the scan remembers of records read at      *)
(* different moments is consistent (LinkInv): every record kept is true of *)
(* an earlier moment, and as an attribute is never issued twice, a naming  *)
(* of the attributes exists that all of them agree with.                   *)
(***************************************************************************)
EXTENDS MftScan, FiniteSetTheorems, TLAPS

Entry == [at : Refs, id : Nat]

\* The fields of a record.
LEMMA RecordFields ==
  ASSUME NEW r \in FileRecord
  PROVE  /\ r.seq \in 1 .. MaxSeq /\ r.used \in BOOLEAN /\ r.base \in Refs \cup {None}
         /\ r.names \subseteq [id : Nat, name : Names]
         /\ r.list \in {"none", "resident", "stream"} /\ r.entries \subseteq Entry
         /\ r.next \in Nat /\ r # NoRec
  <1>1. /\ r.seq \in 1 .. MaxSeq /\ r.used \in BOOLEAN /\ r.base \in Refs \cup {None}
        /\ r.names \in SUBSET [id : Nat, name : Names]
        /\ r.list \in {"none", "resident", "stream"} /\ r.entries \in SUBSET Entry
        /\ r.next \in Nat
    BY DEF FileRecord, Entry
  <1>2. NoRec.seq = 0
    BY DEF NoRec, Free
  <1>. QED BY <1>1, <1>2, ScanAssumption

New(d, s, n) == [id |-> d[s].next, name |-> n]

\* A name added to a record, field by field.
LEMMA WithIs ==
  ASSUME NEW d \in [Slot -> FileRecord], NEW s \in Slot, NEW n \in Names
  PROVE  LET w == With(d, s, n) IN
         /\ w \in [Slot -> FileRecord]
         /\ \A t \in Slot \ {s} : w[t] = d[t]
         /\ w[s].seq = d[s].seq /\ w[s].used = d[s].used /\ w[s].base = d[s].base
         /\ w[s].list = d[s].list /\ w[s].next = d[s].next + 1
         /\ w[s].names = d[s].names \cup {New(d, s, n)}
  <1>. DEFINE ns == d[s].names \cup {New(d, s, n)}
              r == [d[s] EXCEPT !.names = ns, !.next = @ + 1]
              w == With(d, s, n)
  <1>1. w = [d EXCEPT ![s] = r]
    BY DEF With, New
  <1>2. d[s] \in FileRecord
    OBVIOUS
  <1>3. ns \subseteq [id : Nat, name : Names] /\ d[s].next + 1 \in Nat
    BY <1>2, RecordFields DEF New
  <1>. HIDE DEF ns
  <1>4. \A x \in FileRecord, k \in Nat : ns \subseteq [id : Nat, name : Names] =>
          /\ [x EXCEPT !.names = ns, !.next = k] \in FileRecord
          /\ [x EXCEPT !.names = ns, !.next = k].names = ns
          /\ [x EXCEPT !.names = ns, !.next = k].next = k
    BY DEF FileRecord
  <1>5. r \in FileRecord /\ r.names = ns /\ r.next = d[s].next + 1
    BY <1>2, <1>3, <1>4
  <1>6. r.seq = d[s].seq /\ r.used = d[s].used /\ r.base = d[s].base /\ r.list = d[s].list
    OBVIOUS
  <1>. HIDE DEF r
  <1>7. w \in [Slot -> FileRecord] /\ (\A t \in Slot \ {s} : w[t] = d[t]) /\ w[s] = r
    BY <1>1, <1>5
  <1>. HIDE DEF w
  <1>8. /\ w[s].seq = d[s].seq /\ w[s].used = d[s].used /\ w[s].base = d[s].base
        /\ w[s].list = d[s].list /\ w[s].next = d[s].next + 1 /\ w[s].names = ns
    BY <1>5, <1>6, <1>7
  <1>. QED BY <1>7, <1>8 DEF w, ns

Owner(d, t) == IF d[t].base = None THEN RefOf(d, t) ELSE d[t].base

Apart(d, t, o) == d[t].used /\ Owner(d, t) # o

\* A change touches the records of one object, and free ones.
Touches(d, e, o) == \A t \in Slot : e[t] = d[t] \/ (~Apart(d, t, o) /\ ~Apart(e, t, o))

\* A record that exists before and after a change of another object's records
\* is the same, and so are the records, the list and the links of its object.
LEMMA OthersKept ==
  ASSUME NEW d, NEW e, NEW o,
         Touches(d, e, o),
         NEW x \in Refs, x # o, d[x[1]].base = None, e[x[1]].base = None
  PROVE  Entries(e, x) = Entries(d, x)
  <1>1. ASSUME NEW t \in Slot, NEW b, b[x[1]].base = None, b[t].used, RefOf(b, t) = x \/ b[t].base = x
        PROVE  Apart(b, t, o)
    <2>1. x # None
      BY DEF Refs, None, Slot
    <2>2. CASE RefOf(b, t) = x
      <3>1. x[1] = t
        BY <2>2 DEF RefOf
      <3>. QED BY <1>1, <2>2, <3>1 DEF Apart, Owner
    <2>3. CASE b[t].base = x
      BY <1>1, <2>1, <2>3 DEF Apart, Owner
    <2>. QED BY <1>1, <2>2, <2>3
  <1>2. \A t \in Slot : t \in Parts(e, x) \/ t \in Parts(d, x) => e[t] = d[t]
    BY <1>1 DEF Parts, Touches
  <1>3. Parts(e, x) = Parts(d, x)
    BY <1>2 DEF Parts, RefOf
  <1>4. \A t \in Parts(d, x) : e[t] = d[t]
    BY <1>2 DEF Parts
  <1>. QED BY <1>3, <1>4 DEF Entries, RefOf

BasesSound(d) ==
  \A s \in Slot : d[s].base # None => Exists(d, d[s].base) /\ d[d[s].base[1]].list # "none"

\* A change of one object's records that leaves its own list right.
LEMMA LocalChange ==
  ASSUME NEW d, WellFormed(d), NEW e \in [Slot -> FileRecord], NEW o \in Refs,
         Touches(d, e, o), \A t \in Slot : RecordSound(e[t]), BasesSound(e),
         RefOf(e, o[1]) = o /\ e[o[1]].list = "resident" => e[o[1]].entries = Entries(e, o)
  PROVE  WellFormed(e)
  <1>1. ASSUME NEW s \in Slot, e[s].list = "resident"
        PROVE  e[s].entries = Entries(e, RefOf(e, s))
    <2>1. e[s].used /\ e[s].base = None
      BY <1>1 DEF RecordSound
    <2>2. RefOf(e, s)[1] = s
      BY DEF RefOf
    <2>3. CASE RefOf(e, s) = o
      BY <1>1, <2>2, <2>3
    <2>4. CASE RefOf(e, s) # o
      <3>1. Apart(e, s, o)
        BY <2>1, <2>4 DEF Apart, Owner
      <3>2. e[s] = d[s]
        BY <3>1 DEF Touches
      <3>3. RefOf(e, s) = RefOf(d, s) /\ RefOf(e, s) \in Refs
        <4>1. e[s].seq \in 1 .. MaxSeq
          BY RecordFields
        <4>. QED BY <3>2, <4>1 DEF RefOf, Refs
      <3>4. d[s].entries = Entries(d, RefOf(d, s))
        BY <1>1, <3>2 DEF WellFormed
      <3>5. Entries(e, RefOf(e, s)) = Entries(d, RefOf(e, s))
        <4>1. \A x \in Refs : x # o /\ d[x[1]].base = None /\ e[x[1]].base = None
                              => Entries(e, x) = Entries(d, x)
          BY OthersKept
        <4>2. d[RefOf(e, s)[1]].base = None /\ e[RefOf(e, s)[1]].base = None
          BY <2>1, <2>2, <3>2
        <4>. QED BY <2>4, <3>3, <4>1, <4>2
      <3>. QED BY <3>2, <3>3, <3>4, <3>5
    <2>. QED BY <2>3, <2>4
  <1>. QED BY <1>1 DEF WellFormed, BasesSound

\* Bringing a list up to date changes nothing else.
LEMMA ListedIs ==
  ASSUME NEW d \in [Slot -> FileRecord], NEW o \in Refs
  PROVE  LET e == Listed(d, o) IN
         /\ e \in [Slot -> FileRecord]
         /\ \A t \in Slot : /\ e[t].seq = d[t].seq /\ e[t].used = d[t].used /\ e[t].base = d[t].base
                            /\ e[t].names = d[t].names /\ e[t].list = d[t].list /\ e[t].next = d[t].next
                            /\ t # o[1] => e[t] = d[t]
         /\ e[o[1]].list = "resident" => e[o[1]].entries = Entries(e, o)
  <1>. DEFINE e == Listed(d, o)
              r == [d[o[1]] EXCEPT !.entries = Entries(d, o)]
  <1>1. o[1] \in Slot
    BY DEF Refs
  <1>2. Entries(d, o) \subseteq Entry
    <2>1. \A s \in Slot : d[s].seq \in 1 .. MaxSeq /\ \A a \in d[s].names : a.id \in Nat
      BY RecordFields
    <2>2. Parts(d, o) \subseteq Slot
      BY DEF Parts
    <2>. QED BY <2>1, <2>2 DEF Entries, RefOf, Entry, Refs
  <1>3. r \in FileRecord
    <2>1. \A x \in FileRecord, es \in SUBSET Entry : [x EXCEPT !.entries = es] \in FileRecord
      BY DEF FileRecord, Entry
    <2>. QED BY <1>1, <1>2, <2>1
  <1>4. e = d \/ e = [d EXCEPT ![o[1]] = r]
    BY DEF Listed
  <1>5. d[o[1]].list = "resident" => e = [d EXCEPT ![o[1]] = r]
    BY DEF Listed
  <1>6. e \in [Slot -> FileRecord]
    BY <1>3, <1>4
  <1>7. /\ r.seq = d[o[1]].seq /\ r.used = d[o[1]].used /\ r.base = d[o[1]].base
        /\ r.names = d[o[1]].names /\ r.list = d[o[1]].list /\ r.next = d[o[1]].next
    OBVIOUS
  <1>7a. r.entries = Entries(d, o)
    <2>1. \A x \in FileRecord : "entries" \in DOMAIN x
      BY DEF FileRecord
    <2>. QED BY <1>1, <2>1
  <1>. HIDE DEF e, r
  <1>8. \A t \in Slot : /\ e[t].seq = d[t].seq /\ e[t].used = d[t].used /\ e[t].base = d[t].base
                        /\ e[t].names = d[t].names /\ e[t].list = d[t].list /\ e[t].next = d[t].next
                        /\ t # o[1] => e[t] = d[t]
    BY <1>4, <1>7
  <1>9. Entries(e, o) = Entries(d, o)
    <2>1. Parts(e, o) = Parts(d, o) /\ Parts(d, o) \subseteq Slot
      BY <1>8 DEF Parts, RefOf
    <2>. QED BY <1>8, <2>1 DEF Entries, RefOf
  <1>10. e[o[1]].list = "resident" => e[o[1]].entries = Entries(e, o)
    BY <1>1, <1>5, <1>7a, <1>8, <1>9
  <1>. QED BY <1>6, <1>8, <1>10 DEF e

\* The records move on: a sequence value only grows, and with the same value so
\* does the next id; a new attribute has its record's next id.
Later(d, e) == \A t \in Slot : /\ d[t].seq <= e[t].seq
                               /\ d[t].seq = e[t].seq => d[t].next <= e[t].next

Adds(d, e, s, n) ==
  /\ \A t \in Slot : \A a \in e[t].names :
       e[t].seq = d[t].seq /\ (a \in d[t].names \/ (t = s /\ a = New(d, s, n)))
  /\ \A a \in e[s].names : a \in d[s].names \/ e[s].next = d[s].next + 1

Evolves(d, e) == WellFormed(e) /\ Later(d, e) /\ \E s \in Slot, n \in Names : Adds(d, e, s, n)

\* What a change does before it adds the name.
Prepared(d, b, o) ==
  /\ \A t \in Slot : /\ b[t].seq = d[t].seq /\ b[t].next = d[t].next
                     /\ b[t].names \subseteq d[t].names /\ RecordSound(b[t])
  /\ Touches(d, b, o) /\ BasesSound(b)

\* A name added to a record that is the object's own, or was free.
LEMMA NameAdded ==
  ASSUME NEW d, WellFormed(d), NEW b \in [Slot -> FileRecord], NEW s \in Slot, NEW n \in Names,
         NEW o \in Refs,
         Prepared(d, b, o), b[s].used, Owner(b, s) = o
  PROVE  Evolves(d, Listed(With(b, s, n), o))
  <1>. DEFINE w == With(b, s, n)
              e == Listed(w, o)
  <1>1. /\ w \in [Slot -> FileRecord]
        /\ \A t \in Slot \ {s} : w[t] = b[t]
        /\ w[s].seq = b[s].seq /\ w[s].used = b[s].used /\ w[s].base = b[s].base
        /\ w[s].list = b[s].list /\ w[s].next = b[s].next + 1
        /\ w[s].names = b[s].names \cup {New(b, s, n)}
    BY WithIs
  <1>2. /\ w[s].seq = b[s].seq /\ w[s].used = b[s].used /\ w[s].base = b[s].base /\ w[s].list = b[s].list
        /\ w[s].names = b[s].names \cup {New(b, s, n)} /\ w[s].next = b[s].next + 1
    BY <1>1
  <1>. HIDE DEF w
  <1>3. /\ e \in [Slot -> FileRecord]
        /\ \A t \in Slot : /\ e[t].seq = w[t].seq /\ e[t].used = w[t].used /\ e[t].base = w[t].base
                           /\ e[t].names = w[t].names /\ e[t].list = w[t].list /\ e[t].next = w[t].next
                           /\ t # o[1] => e[t] = w[t]
        /\ e[o[1]].list = "resident" => e[o[1]].entries = Entries(e, o)
    BY <1>1, ListedIs
  <1>. HIDE DEF e
  <1>4. \A t \in Slot : /\ e[t].seq = b[t].seq /\ e[t].used = b[t].used /\ e[t].base = b[t].base
                        /\ e[t].list = b[t].list
                        /\ t # s => e[t].names = b[t].names /\ e[t].next = b[t].next
    <2>1. \A t \in Slot : /\ w[t].seq = b[t].seq /\ w[t].used = b[t].used /\ w[t].base = b[t].base
                          /\ w[t].list = b[t].list
                          /\ t # s => w[t].names = b[t].names /\ w[t].next = b[t].next
      BY <1>1, <1>2
    <2>. QED BY <1>3, <2>1
  <1>5. e[s].names = b[s].names \cup {New(b, s, n)} /\ e[s].next = b[s].next + 1
    BY <1>2, <1>3
  <1>5a. /\ \A t \in Slot : /\ b[t].seq = d[t].seq /\ b[t].next = d[t].next
                            /\ b[t].names \subseteq d[t].names /\ RecordSound(b[t])
                            /\ b[t] = d[t] \/ (~Apart(d, t, o) /\ ~Apart(b, t, o))
         /\ BasesSound(b)
    BY DEF Prepared, Touches
  <1>6. \A t \in Slot : b[t].next \in Nat /\ b[t].names \subseteq [id : Nat, name : Names]
    BY RecordFields
  <1>7. \A t \in Slot : Owner(e, t) = Owner(b, t)
    BY <1>4 DEF Owner, RefOf
  <1>8. ASSUME NEW t \in Slot
        PROVE  e[t] = d[t] \/ (~Apart(d, t, o) /\ ~Apart(e, t, o))
    <2>1. CASE t = s \/ b[t] # d[t]
      <3>1. ~Apart(e, t, o)
        BY <1>4, <1>5a, <1>7, <2>1 DEF Apart
      <3>2. ~Apart(d, t, o)
        <4>1. CASE b[t] = d[t]
          BY <2>1, <4>1 DEF Apart, Owner, RefOf
        <4>. QED BY <1>5a, <4>1
      <3>. QED BY <3>1, <3>2
    <2>2. CASE t # s /\ b[t] = d[t] /\ t # o[1]
      BY <1>1, <1>3, <2>2
    <2>3. CASE t # s /\ b[t] = d[t] /\ t = o[1]
      <3>1. b[t].used /\ Owner(b, t) = o
        <4>1. CASE b[s].base = None
          BY <2>3, <4>1 DEF Owner, RefOf
        <4>2. CASE b[s].base # None
          <5>1. b[s].base = o
            BY <4>2 DEF Owner
          <5>2. Exists(b, o)
            BY <1>5a, <4>2, <5>1 DEF BasesSound
          <5>. QED BY <2>3, <5>2 DEF Exists, Owner, RefOf, Refs
        <4>. QED BY <4>1, <4>2
      <3>2. ~Apart(e, t, o)
        BY <1>7, <3>1 DEF Apart
      <3>3. ~Apart(d, t, o)
        BY <2>3, <3>1 DEF Apart, Owner, RefOf
      <3>. QED BY <3>2, <3>3
    <2>. QED BY <2>1, <2>2, <2>3
  <1>9. ASSUME NEW t \in Slot
        PROVE  RecordSound(e[t])
    <2>1. RecordSound(b[t]) /\ RecordSound(b[s])
      BY <1>5a
    <2>2. CASE t # s
      BY <1>4, <2>1, <2>2 DEF RecordSound
    <2>3. CASE t = s
      <3>1. \A a, c \in b[s].names : a.id < b[s].next /\ (a.id = c.id => a = c)
        BY <2>1 DEF RecordSound
      <3>2. \A a \in b[s].names : a.id \in Nat
        BY <1>6
      <3>3. \A a, c \in e[s].names : a.id < e[s].next /\ (a.id = c.id => a = c)
        BY <1>5, <1>6, <3>1, <3>2 DEF New
      <3>. QED BY <1>4, <2>1, <2>3, <3>3 DEF RecordSound
    <2>. QED BY <2>2, <2>3
  <1>10. BasesSound(e)
    <2>1. \A t \in Slot : b[t].base # None => b[t].base[1] \in Slot
      <3>1. \A t \in Slot : b[t].base \in Refs \cup {None}
        BY RecordFields
      <3>. QED BY <3>1 DEF Refs
    <2>. QED BY <1>4, <1>5a, <2>1 DEF BasesSound, Exists
  <1>11. WellFormed(e)
    BY <1>3, <1>8, <1>9, <1>10, LocalChange DEF Touches
  <1>12. Later(d, e)
    <2>1. \A t \in Slot : d[t].seq \in Nat /\ d[t].next \in Nat
      <3>1. d \in [Slot -> FileRecord]
        BY DEF WellFormed
      <3>. QED BY <3>1, RecordFields
    <2>. QED BY <1>4, <1>5, <1>5a, <1>6, <2>1 DEF Later
  <1>13. Adds(d, e, s, n)
    BY <1>4, <1>5, <1>5a DEF Adds, New
  <1>. QED BY <1>11, <1>12, <1>13 DEF Evolves, e, w

\* A new object: the file system stays well formed and one name appears.
LEMMA CreateEvolves ==
  ASSUME NEW d, WellFormed(d), NEW s \in Slot, NEW n \in Names, ~d[s].used
  PROVE  Evolves(d, With([d EXCEPT ![s].used = TRUE], s, n))
  <1>. DEFINE r == [d[s] EXCEPT !.used = TRUE]
              b == [d EXCEPT ![s] = r]
              o == RefOf(d, s)
  <1>1. d \in [Slot -> FileRecord] /\ d[s] \in FileRecord /\ RecordSound(d[s])
    BY DEF WellFormed
  <1>2. r \in FileRecord /\ r.used = TRUE /\ r.seq = d[s].seq /\ r.base = d[s].base
        /\ r.names = d[s].names /\ r.list = d[s].list /\ r.next = d[s].next
    <2>1. \A x \in FileRecord : [x EXCEPT !.used = TRUE] \in FileRecord /\ [x EXCEPT !.used = TRUE].used = TRUE
      BY DEF FileRecord
    <2>. QED BY <1>1, <2>1
  <1>3. d[s].base = None /\ d[s].list = "none" /\ d[s].names = {}
    BY <1>1 DEF RecordSound
  <1>. HIDE DEF r
  <1>4. b \in [Slot -> FileRecord] /\ b[s] = r /\ \A t \in Slot \ {s} : b[t] = d[t]
    BY <1>1, <1>2
  <1>. HIDE DEF b
  <1>5. o \in Refs /\ o[1] = s
    BY <1>1, RecordFields DEF RefOf, Refs
  <1>6. b[s].used /\ Owner(b, s) = o
    BY <1>2, <1>3, <1>4 DEF Owner, RefOf
  <1>7. Touches(d, b, o)
    BY <1>4, <1>6 DEF Touches, Apart
  <1>8. BasesSound(b)
    <2>1. \A t \in Slot : d[t].base # None => d[t].base[1] # s
      BY DEF WellFormed, Exists
    <2>2. \A t \in Slot : d[t].base # None => d[t].base[1] \in Slot
      <3>1. \A t \in Slot : d[t].base \in Refs \cup {None}
        BY <1>1, RecordFields
      <3>. QED BY <3>1 DEF Refs
    <2>3. \A t \in Slot : b[t].base = d[t].base
      BY <1>2, <1>4
    <2>4. \A t \in Slot : d[t].base # None => b[d[t].base[1]] = d[d[t].base[1]]
      BY <1>4, <2>1, <2>2
    <2>. QED BY <2>3, <2>4 DEF BasesSound, WellFormed, Exists
  <1>9. \A t \in Slot : /\ b[t].seq = d[t].seq /\ b[t].next = d[t].next
                        /\ b[t].names \subseteq d[t].names /\ RecordSound(b[t])
    <2>1. RecordSound(r)
      BY <1>2, <1>3 DEF RecordSound
    <2>2. \A t \in Slot : RecordSound(d[t])
      BY DEF WellFormed
    <2>. QED BY <1>2, <1>4, <2>1, <2>2
  <1>10. Evolves(d, Listed(With(b, s, n), o))
    BY <1>4, <1>5, <1>6, <1>7, <1>8, <1>9, NameAdded DEF Prepared
  <1>11. With(b, s, n)[s].list = "none"
    BY <1>2, <1>3, <1>4, WithIs
  <1>12. Listed(With(b, s, n), o) = With(b, s, n)
    BY <1>5, <1>11 DEF Listed
  <1>. QED BY <1>10, <1>12 DEF b, r

\* The object a record in use belongs to, which exists.
LEMMA OwnerIs ==
  ASSUME NEW d, WellFormed(d), NEW s \in Slot, d[s].used
  PROVE  LET o == Owner(d, s) IN
         /\ o \in Refs /\ Exists(d, o) /\ s \in Parts(d, o)
         /\ d[o[1]].used /\ Owner(d, o[1]) = o /\ o # None
  <1>1. d \in [Slot -> FileRecord] /\ d[s] \in FileRecord
    BY DEF WellFormed
  <1>2. d[s].base \in Refs \cup {None} /\ d[s].seq \in 1 .. MaxSeq
    BY <1>1, RecordFields
  <1>3. \A o \in Refs : o # None /\ o = <<o[1], o[2]>>
    BY DEF Refs, None, Slot
  <1>4. CASE d[s].base = None
    BY <1>2, <1>3, <1>4 DEF Owner, RefOf, Exists, Parts, Refs
  <1>5. CASE d[s].base # None
    <2>1. Owner(d, s) = d[s].base /\ d[s].base \in Refs /\ Exists(d, d[s].base)
      BY <1>2, <1>5 DEF Owner, WellFormed
    <2>. QED BY <1>3, <2>1 DEF Exists, Owner, RefOf, Parts
  <1>. QED BY <1>4, <1>5

\* A record with one field changed.
LEMMA NamesSet ==
  ASSUME NEW r \in FileRecord, NEW m, m \subseteq [id : Nat, name : Names]
  PROVE  LET x == [r EXCEPT !.names = m] IN
         /\ x \in FileRecord /\ x.names = m /\ x.seq = r.seq /\ x.used = r.used /\ x.base = r.base
         /\ x.list = r.list /\ x.entries = r.entries /\ x.next = r.next
  <1>1. \A x \in FileRecord, y \in SUBSET [id : Nat, name : Names] :
          [x EXCEPT !.names = y] \in FileRecord /\ [x EXCEPT !.names = y].names = y
    BY DEF FileRecord
  <1>2. [r EXCEPT !.names = m] \in FileRecord /\ [r EXCEPT !.names = m].names = m
    BY <1>1
  <1>. QED BY <1>2

\* An attribute list appears in a record, field by field.
LEMMA ListSet ==
  ASSUME NEW r \in FileRecord, NEW k \in {"resident", "stream"}
  PROVE  LET x == [r EXCEPT !.list = k] IN
         /\ x \in FileRecord /\ x.list = k /\ x.seq = r.seq /\ x.used = r.used /\ x.base = r.base
         /\ x.names = r.names /\ x.entries = r.entries /\ x.next = r.next
  <1>1. \A x \in FileRecord, y \in {"resident", "stream"} :
          [x EXCEPT !.list = y] \in FileRecord /\ [x EXCEPT !.list = y].list = y
    BY DEF FileRecord
  <1>2. [r EXCEPT !.list = k] \in FileRecord /\ [r EXCEPT !.list = k].list = k
    BY <1>1
  <1>. QED BY <1>2

\* What removing a name does to the records.
Drops(d, e, s) ==
  /\ e \in [Slot -> FileRecord]
  /\ \A t \in Slot : /\ e[t].seq = d[t].seq /\ e[t].used = d[t].used /\ e[t].base = d[t].base
                     /\ e[t].list = d[t].list /\ e[t].next = d[t].next
                     /\ e[t].names \subseteq d[t].names
                     /\ t # s => e[t] = d[t]

\* A name leaves a record, field by field.
LEMMA DropName ==
  ASSUME NEW d \in [Slot -> FileRecord], NEW s \in Slot, NEW a
  PROVE  Drops(d, [d EXCEPT ![s].names = @ \ {a}], s)
  <1>. DEFINE ns == d[s].names \ {a}
              r == [d[s] EXCEPT !.names = ns]
              e == [d EXCEPT ![s] = r]
  <1>1. d[s] \in FileRecord /\ ns \subseteq d[s].names
    OBVIOUS
  <1>2. ns \subseteq [id : Nat, name : Names]
    BY <1>1, RecordFields
  <1>3. /\ r \in FileRecord /\ r.names = ns /\ r.seq = d[s].seq /\ r.used = d[s].used
        /\ r.base = d[s].base /\ r.list = d[s].list /\ r.next = d[s].next
    BY <1>1, <1>2, NamesSet
  <1>. HIDE DEF ns, r
  <1>4. e \in [Slot -> FileRecord] /\ e[s] = r /\ \A t \in Slot \ {s} : e[t] = d[t]
    BY <1>1, <1>3
  <1>5. \A t \in Slot : /\ e[t].seq = d[t].seq /\ e[t].used = d[t].used /\ e[t].base = d[t].base
                        /\ e[t].list = d[t].list /\ e[t].next = d[t].next
                        /\ e[t].names \subseteq d[t].names
                        /\ t # s => e[t] = d[t]
    BY <1>1, <1>3, <1>4
  <1>. QED BY <1>4, <1>5 DEF Drops, r, ns

\* A link renamed, in whichever record of its object it is.
LEMMA RenameEvolves ==
  ASSUME NEW d, WellFormed(d), NEW s \in Slot, NEW b, Drops(d, b, s), NEW n \in Names, d[s].used
  PROVE  Evolves(d, Listed(With(b, s, n), Owner(d, s)))
  <1>. DEFINE o == Owner(d, s)
  <1>1. d \in [Slot -> FileRecord] /\ \A t \in Slot : RecordSound(d[t])
    BY DEF WellFormed
  <1>2. b \in [Slot -> FileRecord] /\ \A t \in Slot \ {s} : b[t] = d[t]
    BY DEF Drops
  <1>3. \A t \in Slot : /\ b[t].seq = d[t].seq /\ b[t].used = d[t].used /\ b[t].base = d[t].base
                        /\ b[t].list = d[t].list /\ b[t].next = d[t].next
                        /\ b[t].names \subseteq d[t].names
    BY DEF Drops
  <1>5. o \in Refs
    BY OwnerIs
  <1>6. b[s].used /\ Owner(b, s) = o
    BY <1>3 DEF Owner, RefOf
  <1>7. Touches(d, b, o)
    BY <1>2, <1>6 DEF Touches, Apart
  <1>8. BasesSound(b)
    <2>2. \A t \in Slot : d[t].base # None => d[t].base[1] \in Slot
      <3>1. \A t \in Slot : d[t].base \in Refs \cup {None}
        BY <1>1, RecordFields
      <3>. QED BY <3>1 DEF Refs
    <2>. QED BY <1>3, <2>2 DEF BasesSound, WellFormed, Exists
  <1>9. \A t \in Slot : RecordSound(b[t])
    <2>1. RecordSound(b[s])
      BY <1>1, <1>3 DEF RecordSound
    <2>. QED BY <1>1, <1>2, <2>1
  <1>. QED BY <1>2, <1>3, <1>5, <1>6, <1>7, <1>8, <1>9, NameAdded DEF Prepared

\* A name that does not fit goes to a new extension record.
LEMMA OverflowEvolves ==
  ASSUME NEW d, WellFormed(d), NEW s \in Slot, NEW x \in Slot, NEW n \in Names, NEW kind \in {"resident", "stream"},
         d[s].used, d[s].base = None, ~d[x].used
  PROVE  Evolves(d, Listed(With([d EXCEPT ![x].used = TRUE, ![x].base = RefOf(d, s),
                                           ![s].list = IF @ = "none" THEN kind ELSE @], x, n), RefOf(d, s)))
  <1>. DEFINE o == RefOf(d, s)
              k == IF d[s].list = "none" THEN kind ELSE d[s].list
              rx == [d[x] EXCEPT !.used = TRUE, !.base = o]
              rs == [d[s] EXCEPT !.list = k]
              b == [d EXCEPT ![x].used = TRUE, ![x].base = o, ![s].list = IF @ = "none" THEN kind ELSE @]
  <1>1. d \in [Slot -> FileRecord] /\ d[s] \in FileRecord /\ d[x] \in FileRecord
        /\ RecordSound(d[s]) /\ RecordSound(d[x]) /\ s # x
    BY DEF WellFormed
  <1>2. o \in Refs /\ o[1] = s /\ o[2] = d[s].seq /\ o # None /\ Owner(d, s) = o
    BY <1>1, RecordFields DEF RefOf, Refs, None, Slot, Owner
  <1>3. k \in {"resident", "stream"}
    <2>1. d[s].list \in {"none", "resident", "stream"}
      BY <1>1, RecordFields
    <2>. QED BY <2>1
  <1>4. b = [d EXCEPT ![x] = rx, ![s] = rs]
    BY <1>1
  <1>. HIDE DEF b, o, k
  <1>5. /\ rx \in FileRecord /\ rx.used = TRUE /\ rx.base = o /\ rx.seq = d[x].seq
        /\ rx.names = d[x].names /\ rx.list = d[x].list /\ rx.next = d[x].next
    <2>1. \A y \in FileRecord, z \in Refs :
            /\ [y EXCEPT !.used = TRUE, !.base = z] \in FileRecord
            /\ [y EXCEPT !.used = TRUE, !.base = z].used = TRUE
            /\ [y EXCEPT !.used = TRUE, !.base = z].base = z
      BY DEF FileRecord
    <2>2. rx \in FileRecord /\ rx.used = TRUE /\ rx.base = o
      BY <1>1, <1>2, <2>1
    <2>. QED BY <2>2
  <1>6. /\ rs \in FileRecord /\ rs.list = k /\ rs.used = d[s].used /\ rs.base = d[s].base /\ rs.seq = d[s].seq
        /\ rs.names = d[s].names /\ rs.next = d[s].next
    <2>1. d[s] \in FileRecord
      BY <1>1
    <2>. QED BY <1>3, <2>1, ListSet
  <1>. HIDE DEF rx, rs
  <1>7. b \in [Slot -> FileRecord] /\ b[x] = rx /\ b[s] = rs /\ \A t \in Slot \ {s, x} : b[t] = d[t]
    BY <1>1, <1>4, <1>5, <1>6
  <1>8. b[x].used /\ Owner(b, x) = o /\ b[s].used /\ Owner(b, s) = o /\ Exists(b, o) /\ b[s].list # "none"
    BY <1>2, <1>3, <1>5, <1>6, <1>7 DEF Owner, RefOf, Exists
  <1>9. Touches(d, b, o)
    BY <1>2, <1>7, <1>8 DEF Touches, Apart
  <1>10. BasesSound(b)
    <2>1. ASSUME NEW t \in Slot, t # x, b[t].base # None
          PROVE  Exists(b, b[t].base) /\ b[b[t].base[1]].list # "none"
      <3>1. b[t].base = d[t].base
        BY <1>6, <1>7, <2>1
      <3>2. d[t].base[1] \in Slot
        <4>1. d[t].base \in Refs \cup {None}
          BY <1>1, RecordFields
        <4>. QED BY <2>1, <3>1, <4>1 DEF Refs
      <3>3. Exists(d, d[t].base) /\ d[d[t].base[1]].list # "none"
        BY <2>1, <3>1 DEF WellFormed
      <3>4. d[t].base[1] # x
        BY <3>3 DEF Exists
      <3>5. CASE d[t].base[1] = s
        BY <1>3, <1>6, <1>7, <3>1, <3>3, <3>5 DEF Exists
      <3>6. CASE d[t].base[1] # s
        BY <1>7, <3>1, <3>2, <3>3, <3>4, <3>6 DEF Exists
      <3>. QED BY <3>5, <3>6
    <2>2. Exists(b, b[x].base) /\ b[b[x].base[1]].list # "none"
      BY <1>2, <1>5, <1>7, <1>8
    <2>. QED BY <2>1, <2>2 DEF BasesSound
  <1>11. \A t \in Slot : /\ b[t].seq = d[t].seq /\ b[t].next = d[t].next
                         /\ b[t].names \subseteq d[t].names /\ RecordSound(b[t])
    <2>1. RecordSound(rx)
      BY <1>1, <1>2, <1>5 DEF RecordSound
    <2>2. RecordSound(rs)
      BY <1>1, <1>6 DEF RecordSound
    <2>3. \A t \in Slot : RecordSound(d[t])
      BY DEF WellFormed
    <2>. QED BY <1>5, <1>6, <1>7, <2>1, <2>2, <2>3
  <1>12. Evolves(d, Listed(With(b, x, n), o))
    BY <1>2, <1>7, <1>8, <1>9, <1>10, <1>11, NameAdded DEF Prepared
  <1>. QED BY <1>12 DEF b, o

\* The records freed when a name of an object goes, and what is left.
Freed(e, o) == IF Links(e, o) = {} THEN Parts(e, o)
               ELSE {t \in Parts(e, o) : t # o[1] /\ e[t].names = {}}

Frees(e, gone) == [t \in Slot |-> IF t \in gone THEN Free(e[t].seq + 1) ELSE e[t]]

\* A link removed, with the extension it empties or the object it was the last of.
LEMMA UnlinkEvolves ==
  ASSUME NEW d, WellFormed(d), NEW s \in Slot, NEW a \in d[s].names, d[s].used,
         NEW o, o = Owner(d, s), NEW e, Drops(d, e, s), NEW gone, gone = Freed(e, o),
         \A t \in gone : d[t].seq < MaxSeq,
         NEW f, f = Frees(e, gone)
  PROVE  Evolves(d, IF o[1] \in gone THEN f ELSE Listed(f, o))
  <1>1. /\ d \in [Slot -> FileRecord] /\ d[s] \in FileRecord
        /\ \A t \in Slot : RecordSound(d[t])
    BY DEF WellFormed
  <1>2. o \in Refs /\ Exists(d, o) /\ d[o[1]].used /\ Owner(d, o[1]) = o /\ o[1] \in Slot
    BY OwnerIs DEF Refs
  <1>3. /\ e \in [Slot -> FileRecord] /\ \A t \in Slot : e[t] \in FileRecord
        /\ \A t \in Slot : /\ e[t].seq = d[t].seq /\ e[t].used = d[t].used /\ e[t].base = d[t].base
                           /\ e[t].list = d[t].list /\ e[t].next = d[t].next
                           /\ e[t].names \subseteq d[t].names
                           /\ t # s => e[t] = d[t]
    BY DEF Drops
  <1>4. \A t \in Slot : Owner(e, t) = Owner(d, t)
    BY <1>3 DEF Owner, RefOf
  <1>5. \A t \in Parts(e, o) : t \in Slot /\ e[t].used /\ Owner(e, t) = o
    <2>1. o # None /\ d[o[1]].base = None
      BY <1>2 DEF Refs, None, Slot, Exists
    <2>2. \A t \in Slot : RefOf(e, t) = o => t = o[1]
      BY DEF RefOf
    <2>3. \A t \in Slot : e[t].base = d[t].base
      BY <1>3
    <2>4. \A t \in Parts(e, o) : t \in Slot /\ e[t].used /\ (RefOf(e, t) = o \/ e[t].base = o)
      BY DEF Parts
    <2>. QED BY <2>1, <2>2, <2>3, <2>4 DEF Owner
  <1>6. gone \subseteq Parts(e, o)
    BY DEF Freed
  <1>7. \A k \in 1 .. MaxSeq : /\ Free(k) \in FileRecord /\ RecordSound(Free(k)) /\ Free(k).seq = k
                               /\ ~Free(k).used /\ Free(k).base = None /\ Free(k).names = {} /\ Free(k).list = "none"
    BY DEF Free, FileRecord, RecordSound
  <1>8. \A t \in gone : t \in Slot /\ e[t].seq + 1 \in 1 .. MaxSeq /\ f[t] = Free(e[t].seq + 1)
    <2>1. \A t \in gone : t \in Slot
      BY <1>5, <1>6
    <2>2. \A t \in Slot : e[t].seq \in 1 .. MaxSeq
      BY <1>3, RecordFields
    <2>3. \A t \in gone : f[t] = Free(e[t].seq + 1)
      BY <2>1 DEF Frees
    <2>. QED BY <1>3, <2>1, <2>2, <2>3, ScanAssumption
  <1>9. \A t \in Slot : t \notin gone => f[t] = e[t]
    BY DEF Frees
  <1>10. f \in [Slot -> FileRecord]
    <2>1. f = [t \in Slot |-> f[t]]
      BY DEF Frees
    <2>2. \A t \in Slot : f[t] \in FileRecord
      BY <1>3, <1>7, <1>8, <1>9
    <2>. QED BY <2>1, <2>2
  <1>11. \A t \in gone : ~f[t].used /\ f[t].base = None /\ f[t].names = {} /\ f[t].seq = d[t].seq + 1
                         /\ RecordSound(f[t]) /\ f[t].list = "none"
    BY <1>3, <1>7, <1>8
  <1>12. Touches(d, f, o)
    <2>1. ASSUME NEW t \in Slot, f[t] # d[t]
          PROVE  ~Apart(d, t, o) /\ ~Apart(f, t, o)
      <3>1. CASE t \in gone
        BY <1>4, <1>5, <1>6, <1>11, <3>1 DEF Apart
      <3>2. CASE t \notin gone
        <4>1. t = s
          BY <1>3, <1>9, <2>1, <3>2
        <4>2. Owner(f, t) = Owner(e, t)
          BY <1>9, <3>2 DEF Owner, RefOf
        <4>. QED BY <1>4, <4>1, <4>2 DEF Apart
      <3>. QED BY <3>1, <3>2
    <2>. QED BY <2>1 DEF Touches
  <1>13. BasesSound(f)
    <2>1. ASSUME NEW t \in Slot, f[t].base # None
          PROVE  Exists(f, f[t].base) /\ f[f[t].base[1]].list # "none"
      <3>1. t \notin gone /\ f[t] = e[t] /\ d[t].base = f[t].base
        BY <1>3, <1>9, <1>11, <2>1
      <3>2. Exists(d, d[t].base) /\ d[d[t].base[1]].list # "none" /\ d[t].used
        BY <1>1, <2>1, <3>1 DEF WellFormed, RecordSound
      <3>. DEFINE x == d[t].base[1]
      <3>3. x \in Slot
        <4>1. d[t].base \in Refs \cup {None}
          BY <1>1, RecordFields
        <4>. QED BY <2>1, <3>1, <4>1 DEF Refs
      <3>4. x \notin gone
        <4>1. SUFFICES ASSUME x \in gone PROVE FALSE
          OBVIOUS
        <4>2. Owner(d, x) = o
          BY <1>4, <1>5, <1>6, <4>1
        <4>3. RefOf(d, x) = d[t].base
          <5>1. d[t].base \in Refs
            <6>1. d[t].base \in Refs \cup {None}
              BY <1>1, RecordFields
            <6>. QED BY <2>1, <3>1, <6>1
          <5>2. d[t].base = <<d[t].base[1], d[t].base[2]>>
            BY <5>1 DEF Refs
          <5>. QED BY <3>2, <5>2 DEF Exists, RefOf
        <4>4. d[t].base = o /\ x = o[1]
          BY <3>2, <4>2, <4>3 DEF Exists, Owner
        <4>5. t \in Parts(e, o)
          BY <1>3, <3>2, <4>4 DEF Parts
        <4>6. gone = Parts(e, o)
          BY <4>1, <4>4 DEF Freed
        <4>. QED BY <3>1, <4>5, <4>6
      <3>. QED BY <1>3, <1>9, <3>1, <3>2, <3>3, <3>4 DEF Exists
    <2>. QED BY <2>1 DEF BasesSound
  <1>14. \A t \in Slot : RecordSound(f[t])
    <2>1. RecordSound(e[s])
      BY <1>1, <1>3 DEF RecordSound
    <2>. QED BY <1>1, <1>3, <1>9, <1>11, <2>1
  <1>15. \A t \in Slot : \A c \in f[t].names : f[t].seq = d[t].seq /\ c \in d[t].names
    BY <1>3, <1>9, <1>11
  <1>16. Later(d, f)
    <2>1. \A t \in Slot : d[t].seq \in Nat /\ d[t].next \in Nat
      BY <1>1, RecordFields
    <2>. QED BY <1>3, <1>9, <1>11, <2>1 DEF Later
  <1>17. a.name \in Names
    BY <1>1, RecordFields
  <1>18. CASE o[1] \in gone
    <2>1. f[o[1]].list = "none"
      BY <1>11, <1>18
    <2>2. WellFormed(f)
      BY <1>2, <1>10, <1>12, <1>13, <1>14, <2>1, LocalChange
    <2>3. Adds(d, f, s, a.name)
      BY <1>15 DEF Adds
    <2>. QED BY <1>16, <1>17, <1>18, <2>2, <2>3 DEF Evolves
  <1>19. CASE o[1] \notin gone
    <2>. DEFINE g == Listed(f, o)
    <2>1. /\ g \in [Slot -> FileRecord]
          /\ \A t \in Slot : /\ g[t].seq = f[t].seq /\ g[t].used = f[t].used /\ g[t].base = f[t].base
                             /\ g[t].names = f[t].names /\ g[t].list = f[t].list /\ g[t].next = f[t].next
                             /\ t # o[1] => g[t] = f[t]
          /\ g[o[1]].list = "resident" => g[o[1]].entries = Entries(g, o)
      BY <1>2, <1>10, ListedIs
    <2>. HIDE DEF g
    <2>2. \A t \in Slot : Owner(g, t) = Owner(f, t)
      BY <2>1 DEF Owner, RefOf
    <2>3. Touches(d, g, o)
      <3>1. f[o[1]].base = d[o[1]].base /\ f[o[1]].seq = d[o[1]].seq
        BY <1>2, <1>3, <1>9, <1>19
      <3>2. Owner(f, o[1]) = Owner(d, o[1])
        BY <3>1 DEF Owner, RefOf
      <3>3. Owner(d, o[1]) = o /\ Owner(g, o[1]) = o
        BY <1>2, <2>2, <3>2
      <3>4. ~Apart(d, o[1], o) /\ ~Apart(g, o[1], o)
        BY <3>3 DEF Apart
      <3>. QED BY <1>12, <2>1, <2>2, <3>4 DEF Touches, Apart
    <2>4. BasesSound(g)
      <3>1. \A t \in Slot : f[t].base # None => f[t].base[1] \in Slot
        <4>1. \A t \in Slot : f[t].base \in Refs \cup {None}
          BY <1>10, RecordFields
        <4>. QED BY <4>1 DEF Refs
      <3>. QED BY <1>13, <2>1, <3>1 DEF BasesSound, Exists
    <2>5. \A t \in Slot : RecordSound(g[t])
      BY <1>14, <2>1 DEF RecordSound
    <2>6. WellFormed(g)
      BY <1>2, <2>1, <2>3, <2>4, <2>5, LocalChange
    <2>7. Later(d, g) /\ Adds(d, g, s, a.name)
      BY <1>15, <1>16, <2>1 DEF Later, Adds
    <2>. QED BY <1>17, <1>19, <2>6, <2>7 DEF Evolves, g
  <1>. QED BY <1>18, <1>19

\* Every change of the file system is one of those.
LEMMA FileSystemSteps ==
  ASSUME WellFormed(disk), FileSystem
  PROVE  /\ Evolves(disk, disk')
         /\ held' = [o \in Refs |-> held[o] \cup {LinksOf(disk', o)}]
         /\ UNCHANGED <<stop, fault, pipeVars, st, got, err, buildVars, work, out>>
         /\ out = "running"
  <1>1. disk \in [Slot -> FileRecord]
    BY DEF WellFormed
  <1>2. ASSUME NEW d, Change(d), Evolves(disk, d)
        PROVE  /\ Evolves(disk, disk')
               /\ held' = [o \in Refs |-> held[o] \cup {LinksOf(disk', o)}]
               /\ UNCHANGED <<stop, fault, pipeVars, st, got, err, buildVars, work, out>>
               /\ out = "running"
    BY <1>2 DEF Change
  <1>3. ASSUME NEW s \in Slot, NEW n \in Names, Create(s, n)
        PROVE  \E d : Change(d) /\ Evolves(disk, d)
    BY <1>3, CreateEvolves DEF Create
  <1>4. ASSUME NEW s \in Slot, NEW a \in disk[s].names, NEW n \in Names, Rename(s, a, n)
        PROVE  \E d : Change(d) /\ Evolves(disk, d)
    <2>. DEFINE b == [disk EXCEPT ![s].names = @ \ {a}]
                d == Listed(With(b, s, n), Owner(disk, s))
    <2>1. disk[s].used /\ Change(d)
      BY <1>4 DEF Rename, Owner
    <2>2. Drops(disk, b, s)
      BY <1>1, DropName
    <2>. HIDE DEF b
    <2>3. Evolves(disk, d)
      BY <2>1, <2>2, RenameEvolves
    <2>. QED BY <2>1, <2>3
  <1>5. ASSUME NEW s \in Slot, NEW x \in Slot, NEW n \in Names, NEW k \in {"resident", "stream"},
               Overflow(s, x, n, k)
        PROVE  \E d : Change(d) /\ Evolves(disk, d)
    <2>. DEFINE b == [disk EXCEPT ![x].used = TRUE, ![x].base = RefOf(disk, s),
                                  ![s].list = IF @ = "none" THEN k ELSE @]
                d == Listed(With(b, x, n), RefOf(disk, s))
    <2>1. disk[s].used /\ disk[s].base = None /\ ~disk[x].used /\ Change(d)
      BY <1>5 DEF Overflow
    <2>2. Evolves(disk, d)
      BY <2>1, OverflowEvolves
    <2>. HIDE DEF d
    <2>. QED BY <2>1, <2>2
  <1>6. ASSUME NEW s \in Slot, NEW a \in disk[s].names, Unlink(s, a)
        PROVE  \E d : Change(d) /\ Evolves(disk, d)
    <2>. DEFINE e == [disk EXCEPT ![s].names = @ \ {a}]
                o == Owner(disk, s)
                gone == Freed(e, o)
                f == Frees(e, gone)
                d == IF o[1] \in gone THEN f ELSE Listed(f, o)
    <2>1. disk[s].used /\ (\A t \in gone : disk[t].seq < MaxSeq) /\ Change(d)
      BY <1>6 DEF Unlink, Owner, Freed, Frees
    <2>2. Drops(disk, e, s)
      BY <1>1, DropName
    <2>. HIDE DEF e, o, gone, f
    <2>3. Evolves(disk, d)
      BY <2>1, <2>2, UnlinkEvolves DEF o, gone, f
    <2>. HIDE DEF d
    <2>. QED BY <2>1, <2>3
  <1>7. \E d : Change(d) /\ Evolves(disk, d)
    BY <1>3, <1>4, <1>5, <1>6 DEF FileSystem
  <1>. QED BY <1>2, <1>7

----------------------------------------------------------------------------
Kinds == FileRecord \cup {NoRec}

Chunk == [slot : 0 .. Slots, rec : Kinds]

Item == [ref : Refs, rec : Kinds]

Resolution == [at : {"idle", "unread", "list", "names", "live"}, rec : Kinds,
               left : SUBSET Entry, ids : SUBSET Entry, names : SUBSET Names]

\* Every value in its range.
Types ==
  /\ WellFormed(disk)
  /\ stop \in BOOLEAN /\ fault \in BOOLEAN /\ err \in BOOLEAN
  /\ st \in {"layout", "read", "join", "deferred", "done"}
  /\ out \in {"running", "complete", "cancelled", "failed"}
  /\ io \in [at : {"off", "read", "inline", "gone"}, next : Nat]
  /\ full \in Seq(Chunk) /\ free \in Nat /\ got \in 0 .. Slots
  /\ rows \subseteq Refs \X Names
  /\ cache \in [Slot -> Kinds] /\ arena \in 0 .. ArenaMax
  /\ todo \in Seq(Item) /\ work \in Resolution

\* An error takes the place of the last chunk and ends the reader.
HasError == full # <<>> /\ full[Len(full)].slot = 0

PipeInv ==
  /\ st = "layout" => io.at = "off" /\ io.next = 1 /\ free = Buffers /\ got = 0
  /\ io.at \in {"off", "inline"} => full = <<>>
  /\ \A i \in DOMAIN full : IF full[i].slot = 0 THEN i = Len(full) /\ io.at = "gone" /\ fault
                            ELSE full[i].slot = got + i /\ full[i].rec \in FileRecord
  /\ io.at = "read" => io.next = got + Len(full) + 1
  /\ io.at = "gone" /\ st = "read" => HasError \/ stop \/ got + Len(full) = Slots
  /\ free + (IF HasError THEN Len(full) - 1 ELSE Len(full)) = Buffers

\* What the parser knows where it is.
StageInv ==
  /\ out = "running" <=> st # "done"
  /\ err => fault \/ stop
  /\ st = "join" => got = Slots \/ stop \/ err
  /\ st = "deferred" => got = Slots /\ ~err
  /\ out = "complete" => got = Slots /\ todo = <<>> /\ ~err
  /\ out = "failed" => fault
  /\ work.at # "idle" => todo # <<>> /\ st \in {"deferred", "done"}

\* Objects are deferred in the order of their records.
OrderInv ==
  /\ \A i \in DOMAIN todo : todo[i].ref[1] <= got
  /\ \A i, j \in DOMAIN todo : i < j => todo[i].ref[1] < todo[j].ref[1]

ArenaInv == Cardinality({s \in Slot : cache[s] # NoRec}) <= arena

ControlInv == Types /\ PipeInv /\ StageInv /\ OrderInv /\ ArenaInv

\* What the file records say is in its range.
LEMMA DiskTypes ==
  ASSUME WellFormed(disk), NEW o \in Refs
  PROVE  /\ disk \in [Slot -> FileRecord]
         /\ Entries(disk, o) \subseteq Entry /\ LinksOf(disk, o) \subseteq Names
  <1>1. disk \in [Slot -> FileRecord]
    BY DEF WellFormed
  <1>2. \A s \in Slot : disk[s].seq \in 1 .. MaxSeq /\ \A a \in disk[s].names : a.id \in Nat /\ a.name \in Names
    BY <1>1, RecordFields
  <1>3. Parts(disk, o) \subseteq Slot
    BY DEF Parts
  <1>4. Entries(disk, o) \subseteq Entry
    BY <1>2, <1>3 DEF Entries, RefOf, Entry, Refs
  <1>5. LinksOf(disk, o) \subseteq Names
    BY <1>2, <1>3 DEF LinksOf, Links
  <1>. QED BY <1>1, <1>4, <1>5

\* A record parsed: what it adds to the index, the cache and the deferred objects.
LEMMA ParseMoves ==
  ASSUME Types, ArenaInv, NEW s \in Slot, NEW r \in FileRecord, TakeRecord(s, r)
  PROVE  /\ rows' \subseteq Refs \X Names /\ cache' \in [Slot -> Kinds] /\ arena' \in 0 .. ArenaMax
         /\ err' \in BOOLEAN /\ fault' \in BOOLEAN
         /\ todo' = todo \/ \E x \in Item : todo' = Append(todo, x) /\ x.ref = <<s, r.seq>>
         /\ err' => err \/ fault'
         /\ fault => fault'
         /\ ArenaInv'
  <1>1. /\ rows \subseteq Refs \X Names /\ cache \in [Slot -> Kinds] /\ arena \in 0 .. ArenaMax
        /\ err \in BOOLEAN /\ fault \in BOOLEAN /\ ArenaMax \in Nat
    BY ScanAssumption DEF Types
  <1>2. r \in Kinds /\ <<s, r.seq>> \in Refs /\ \A a \in r.names : a.name \in Names
    BY RecordFields DEF Kinds, Refs
  <1>3. CASE UNCHANGED buildVars
    <2>1. rows' = rows /\ cache' = cache /\ arena' = arena /\ todo' = todo
      BY <1>3 DEF buildVars
    <2>2. err' \in BOOLEAN /\ fault' \in BOOLEAN /\ (err' => err \/ fault') /\ (fault => fault')
      <3>1. (err' = err /\ fault' = fault) \/ (err' = TRUE /\ fault' = TRUE)
        BY DEF TakeRecord
      <3>2. err \in BOOLEAN /\ fault \in BOOLEAN
        BY <1>1
      <3>3. CASE err' = err /\ fault' = fault
        BY <3>2, <3>3
      <3>4. CASE err' = TRUE /\ fault' = TRUE
        BY <3>4
      <3>. QED BY <3>1, <3>3, <3>4
    <2>3. ArenaInv'
      BY <2>1 DEF ArenaInv
    <2>. QED BY <1>1, <2>1, <2>2, <2>3
  <1>4. CASE Parse(s, r) /\ UNCHANGED <<err, fault>> /\ r.used /\ r.base # None
    <2>1. UNCHANGED <<rows, todo, err, fault>>
      BY <1>3, <1>4 DEF Parse, buildVars
    <2>2. CASE cache' = cache /\ arena' = arena
      BY <1>1, <2>1, <2>2 DEF ArenaInv
    <2>3. CASE arena < ArenaMax /\ cache' = [cache EXCEPT ![s] = r] /\ arena' = arena + 1
      <3>. DEFINE c == {t \in Slot : cache[t] # NoRec}
                  e == {t \in Slot : cache'[t] # NoRec}
      <3>1. e \subseteq c \cup {s}
        BY <1>1, <2>3
      <3>2. IsFiniteSet(Slot)
        BY FS_Interval, ScanAssumption DEF Slot
      <3>3. IsFiniteSet(c) /\ c \subseteq Slot
        BY <3>2, FS_Subset
      <3>4. IsFiniteSet(c \cup {s}) /\ Cardinality(c \cup {s}) <= Cardinality(c) + 1
        <4>1. Cardinality(c) \in Nat
          BY <3>3, FS_CardinalityType
        <4>. QED BY <3>3, <4>1, FS_AddElement
      <3>5. Cardinality(e) <= Cardinality(c \cup {s}) /\ Cardinality(e) \in Nat
        BY <3>1, <3>4, FS_Subset, FS_CardinalityType
      <3>6. Cardinality(c) \in Nat /\ Cardinality(c \cup {s}) \in Nat /\ Cardinality(c) <= arena
        BY <3>3, <3>4, FS_CardinalityType DEF ArenaInv
      <3>. HIDE DEF c, e
      <3>7. Cardinality(e) <= arena'
        BY <1>1, <2>3, <3>4, <3>5, <3>6
      <3>8. ArenaInv'
        BY <3>7 DEF ArenaInv, e
      <3>. QED BY <1>1, <1>2, <2>1, <2>3, <3>8
    <2>. QED BY <1>4, <2>2, <2>3 DEF Parse, Fits, buildVars
  <1>5. CASE Parse(s, r) /\ UNCHANGED <<err, fault>> /\ r.used /\ r.base = None /\ r.list # "none"
    <2>. DEFINE x == [ref |-> <<s, r.seq>>, rec |-> IF Fits THEN r ELSE NoRec]
    <2>1. /\ UNCHANGED <<rows, cache, err, fault>> /\ todo' = Append(todo, x)
          /\ arena' = IF Fits THEN arena + 1 ELSE arena
      BY <1>5 DEF Parse, Defer
    <2>2. x \in Item
      BY <1>2 DEF Item, Kinds
    <2>3. arena' \in 0 .. ArenaMax /\ arena <= arena'
      BY <1>1, <2>1 DEF Fits
    <2>4. Cardinality({t \in Slot : cache[t] # NoRec}) \in Nat
      <3>1. IsFiniteSet(Slot)
        BY FS_Interval, ScanAssumption DEF Slot
      <3>2. IsFiniteSet({t \in Slot : cache[t] # NoRec})
        BY <3>1, FS_Subset
      <3>. QED BY <3>2, FS_CardinalityType
    <2>5. ArenaInv'
      BY <1>1, <2>1, <2>3, <2>4 DEF ArenaInv
    <2>. QED BY <1>1, <2>1, <2>2, <2>3, <2>5
  <1>6. CASE Parse(s, r) /\ UNCHANGED <<err, fault>> /\ r.used /\ r.base = None /\ r.list = "none"
    <2>1. rows' = rows \cup Rows(<<s, r.seq>>, {a.name : a \in r.names}) /\ UNCHANGED <<cache, arena, todo, err, fault>>
      BY <1>6 DEF Parse
    <2>2. Rows(<<s, r.seq>>, {a.name : a \in r.names}) \subseteq Refs \X Names
      BY <1>2 DEF Rows
    <2>3. ArenaInv'
      BY <2>1 DEF ArenaInv
    <2>. QED BY <1>1, <2>1, <2>2, <2>3
  <1>7. r.used \in BOOLEAN
    BY RecordFields
  <1>. QED BY <1>3, <1>4, <1>5, <1>6, <1>7 DEF TakeRecord, Parse

Resolves == TakeBase \/ Unread \/ TakeList \/ TakeName \/ TakeNames \/ AskLive

\* Each step with a deferred object keeps everything but the object and the rows:
\* the scan is given up, the object is looked into, or it is done.
LEMMA ResolvesMoves ==
  ASSUME Types, Resolves
  PROVE  /\ Kept /\ st = "deferred" /\ todo # <<>>
         /\ Quit \/ Fail \/ (\E w \in Resolution : Next1(w)) \/ (\E names \in SUBSET Names : Done(names))
  <1>1. /\ disk \in [Slot -> FileRecord] /\ work \in Resolution /\ cache \in [Slot -> Kinds]
        /\ todo \in Seq(Item) /\ WellFormed(disk)
    BY DEF Types, WellFormed
  <1>2. /\ work.at \in {"idle", "unread", "list", "names", "live"} /\ work.rec \in Kinds
        /\ work.left \subseteq Entry /\ work.ids \subseteq Entry /\ work.names \subseteq Names
    BY <1>1 DEF Resolution
  <1>3. /\ NoWork \in Resolution
        /\ \A r \in Kinds : [NoWork EXCEPT !.at = "list", !.rec = r] \in Resolution
        /\ [NoWork EXCEPT !.at = "unread"] \in Resolution
    BY DEF NoWork, Resolution, Kinds
  <1>4. /\ [work EXCEPT !.at = "live"] \in Resolution
        /\ \A es \in SUBSET Entry : [work EXCEPT !.at = "names", !.left = es, !.ids = es] \in Resolution
        /\ \A es \in SUBSET Entry, ns \in SUBSET Names : [work EXCEPT !.left = es, !.names = ns] \in Resolution
    BY <1>1 DEF Resolution
  <1>5. todo # <<>> => Head(todo) \in Item /\ Object \in Refs /\ Head(todo).rec \in Kinds
    <2>1. todo # <<>> => Head(todo) \in Item
      BY <1>1
    <2>. QED BY <2>1 DEF Item, Object
  <1>6. CASE TakeBase
    <2>1. st = "deferred" /\ todo # <<>> /\ Kept
      BY <1>6 DEF TakeBase, Resolving
    <2>2. disk[Object[1]] \in Kinds
      BY <1>1, <1>5, <2>1 DEF Refs, Kinds
    <2>. QED BY <1>3, <1>5, <1>6, <2>1, <2>2 DEF TakeBase
  <1>7. CASE Unread
    BY <1>7 DEF Unread, Resolving
  <1>8. CASE TakeList
    <2>1. st = "deferred" /\ todo # <<>> /\ Kept
      BY <1>8 DEF TakeList, Resolving
    <2>2. Entries(disk, Object) \in SUBSET Entry
      BY <1>1, <1>5, <2>1, DiskTypes
    <2>3. work.rec.list = "resident" => work.rec.entries \in SUBSET Entry
      <3>1. work.rec.list = "resident" => work.rec \in FileRecord
        BY <1>2 DEF Kinds, NoRec, Free
      <3>. QED BY <3>1, RecordFields
    <2>. QED BY <1>4, <1>8, <2>1, <2>2, <2>3 DEF TakeList
  <1>9. CASE TakeName
    <2>1. st = "deferred" /\ todo # <<>> /\ Kept
      BY <1>9 DEF TakeName, Resolving
    <2>2. ASSUME NEW e \in work.left
          PROVE  work.left \ {e} \in SUBSET Entry /\ work.names \cup NamesOf(e) \in SUBSET Names
      <3>1. \A r \in Kinds : \A a \in r.names : a.name \in Names
        <4>1. NoRec.names = {}
          BY DEF NoRec, Free
        <4>. QED BY <4>1, RecordFields DEF Kinds
      <3>2. e.at[1] \in Slot
        BY <1>2 DEF Entry, Refs
      <3>3. disk[e.at[1]] \in Kinds /\ cache[e.at[1]] \in Kinds /\ work.rec \in Kinds
        BY <1>1, <1>2, <3>2 DEF Kinds
      <3>4. NamesOf(e) \subseteq Names
        BY <3>1, <3>3 DEF NamesOf
      <3>. QED BY <1>2, <3>4
    <2>. QED BY <1>4, <1>9, <2>1, <2>2 DEF TakeName
  <1>10. CASE TakeNames
    BY <1>2, <1>4, <1>10 DEF TakeNames, Resolving
  <1>11. CASE AskLive
    BY <1>1, <1>5, <1>11, DiskTypes DEF AskLive, Resolving
  <1>. QED BY <1>6, <1>7, <1>8, <1>9, <1>10, <1>11 DEF Resolves

ParserVars == <<st, got, err, buildVars, work, out>>

\* What only the file system, a stop or the reader changes.
LEMMA ChangeKeepsControl ==
  ASSUME ControlInv, FileSystem
  PROVE  ControlInv'
  <1>1. /\ Evolves(disk, disk')
        /\ UNCHANGED <<stop, fault, io, full, free, st, got, err, rows, cache, arena, todo, work, out>>
    BY FileSystemSteps DEF ControlInv, Types, pipeVars, buildVars
  <1>2. WellFormed(disk')
    BY <1>1 DEF Evolves
  <1>3. Types'
    BY <1>1, <1>2 DEF ControlInv, Types
  <1>4. HasError' = HasError
    BY <1>1 DEF HasError
  <1>5. PipeInv'
    BY <1>1, <1>4 DEF ControlInv, PipeInv
  <1>6. StageInv' /\ OrderInv' /\ ArenaInv'
    BY <1>1 DEF ControlInv, StageInv, OrderInv, ArenaInv
  <1>. QED BY <1>3, <1>5, <1>6 DEF ControlInv

\* A stop disturbs nothing.
LEMMA StopKeepsControl ==
  ASSUME ControlInv, Stop
  PROVE  ControlInv'
  <1>1. /\ stop' = TRUE
        /\ UNCHANGED <<disk, fault, io, full, free, st, got, err, rows, cache, arena, todo, work, out>>
    BY DEF Stop, fsVars, pipeVars, buildVars
  <1>3. Types'
    BY <1>1 DEF ControlInv, Types
  <1>4. HasError' = HasError
    BY <1>1 DEF HasError
  <1>5. PipeInv'
    BY <1>1, <1>4 DEF ControlInv, PipeInv
  <1>6. StageInv' /\ OrderInv' /\ ArenaInv'
    BY <1>1 DEF ControlInv, StageInv, OrderInv, ArenaInv
  <1>. QED BY <1>3, <1>5, <1>6 DEF ControlInv

\* The reader fills the next buffer, sends its error last, or ends.
LEMMA ReaderKeepsControl ==
  ASSUME ControlInv, Reader
  PROVE  ControlInv'
  <1>1. UNCHANGED <<disk, stop, st, got, err, rows, cache, arena, todo, work, out>>
    BY DEF Reader, Read, ReadError, ReaderEnds, fsVars, buildVars
  <1>2. /\ WellFormed(disk) /\ fault \in BOOLEAN
        /\ io \in [at : {"off", "read", "inline", "gone"}, next : Nat]
        /\ full \in Seq(Chunk) /\ free \in Nat /\ got \in 0 .. Slots
    BY DEF ControlInv, Types
  <1>3. /\ io.at = "read" /\ (fault => fault')
        /\ io' \in [at : {"off", "read", "inline", "gone"}, next : Nat]
    <2>1. [io EXCEPT !.next = @ + 1] \in [at : {"off", "read", "inline", "gone"}, next : Nat]
          /\ [io EXCEPT !.at = "gone"] \in [at : {"off", "read", "inline", "gone"}, next : Nat]
      BY <1>2
    <2>. QED BY <2>1 DEF Reader, Read, ReadError, ReaderEnds
  <1>4. st # "layout"
    BY <1>3 DEF ControlInv, PipeInv
  <1>5. ~HasError
    BY <1>2, <1>3 DEF ControlInv, PipeInv, HasError
  <1>6. io.next = got + Len(full) + 1 /\ free + Len(full) = Buffers
    BY <1>3, <1>5 DEF ControlInv, PipeInv
  <1>7. Len(full) \in Nat /\ io.next \in Nat /\ DOMAIN full = 1 .. Len(full) /\ Slots \in Nat
    BY <1>2, ScanAssumption
  <1>8. \A i \in 1 .. Len(full) : full[i].slot # 0 /\ full[i].slot = got + i /\ full[i].rec \in FileRecord
    BY <1>3, <1>7 DEF ControlInv, PipeInv
  <1>10. CASE Read
    <2>. DEFINE c == [slot |-> io.next, rec |-> disk[io.next]]
    <2>1. /\ io.next <= Slots /\ full' = Append(full, c) /\ free' = free - 1 /\ free > 0
          /\ io'.next = io.next + 1 /\ io'.at = "read" /\ fault' = fault
      BY <1>2, <1>3, <1>10 DEF Read
    <2>2. io.next \in Slot /\ disk[io.next] \in FileRecord
      BY <1>2, <1>6, <1>7, <2>1 DEF Slot, WellFormed
    <2>3. c \in Chunk
      BY <2>2 DEF Chunk, Kinds, Slot
    <2>4. full' \in Seq(Chunk) /\ Len(full') = Len(full) + 1 /\ free' \in Nat
      BY <1>2, <2>1, <2>3
    <2>5. \A i \in 1 .. Len(full') : full'[i].slot # 0 /\ full'[i].slot = got + i /\ full'[i].rec \in FileRecord
      <3>1. full'[Len(full')] = c /\ \A i \in 1 .. Len(full) : full'[i] = full[i]
        BY <1>2, <2>1, <2>3, <2>4
      <3>2. c.slot = got + Len(full') /\ c.slot # 0 /\ c.rec \in FileRecord
        BY <1>2, <1>6, <1>7, <2>2, <2>4
      <3>. QED BY <1>7, <1>8, <2>4, <3>1, <3>2
    <2>6. ~HasError'
      BY <1>7, <2>4, <2>5 DEF HasError
    <2>7. Types'
      BY <1>1, <1>2, <1>3, <2>1, <2>4 DEF ControlInv, Types
    <2>8. PipeInv'
      <3>1. st' # "layout" /\ io'.at = "read" /\ io'.next = got' + Len(full') + 1 /\ free' + Len(full') = Buffers
        BY <1>1, <1>2, <1>4, <1>6, <1>7, <2>1, <2>4
      <3>2. DOMAIN full' = 1 .. Len(full') /\ got' = got
        BY <1>1, <2>4
      <3>. QED BY <2>5, <2>6, <3>1, <3>2 DEF PipeInv
    <2>9. StageInv' /\ OrderInv' /\ ArenaInv'
      BY <1>1, <2>1 DEF ControlInv, StageInv, OrderInv, ArenaInv
    <2>. QED BY <2>7, <2>8, <2>9 DEF ControlInv
  <1>11. CASE ReadError
    <2>. DEFINE c == [slot |-> 0, rec |-> Free(0)]
    <2>1. /\ full' = Append(full, c) /\ free' = free
          /\ io'.at = "gone" /\ fault' = TRUE
      BY <1>2, <1>3, <1>11 DEF ReadError
    <2>3. c \in Chunk
      BY <1>7 DEF Chunk, Kinds, NoRec
    <2>4. full' \in Seq(Chunk) /\ Len(full') = Len(full) + 1
      BY <1>2, <2>1, <2>3
    <2>5. \A i \in 1 .. Len(full') :
             IF full'[i].slot = 0 THEN i = Len(full')
             ELSE full'[i].slot = got + i /\ full'[i].rec \in FileRecord
      <3>1. full'[Len(full')] = c /\ \A i \in 1 .. Len(full) : full'[i] = full[i]
        BY <1>2, <2>1, <2>3, <2>4
      <3>. QED BY <1>7, <1>8, <2>4, <3>1
    <2>6. HasError'
      <3>1. full'[Len(full')].slot = 0 /\ full' # <<>>
        BY <1>2, <1>7, <2>1, <2>3, <2>4
      <3>. QED BY <3>1 DEF HasError
    <2>7. Types'
      BY <1>1, <1>2, <1>3, <2>1, <2>4 DEF ControlInv, Types
    <2>8. PipeInv'
      BY <1>1, <1>2, <1>4, <1>6, <1>7, <2>1, <2>4, <2>5, <2>6 DEF PipeInv
    <2>9. StageInv' /\ OrderInv' /\ ArenaInv'
      BY <1>1, <2>1 DEF ControlInv, StageInv, OrderInv, ArenaInv
    <2>. QED BY <2>7, <2>8, <2>9 DEF ControlInv
  <1>12. CASE ReaderEnds
    <2>1. /\ UNCHANGED <<full, free, fault>> /\ io'.at = "gone"
          /\ io.next > Slots \/ stop \/ st = "join"
      BY <1>2, <1>3, <1>12 DEF ReaderEnds
    <2>2. ~HasError'
      BY <1>5, <2>1 DEF HasError
    <2>3. \A i \in 1 .. Len(full) : full[i].slot \in 0 .. Slots
      <3>1. \A i \in 1 .. Len(full) : full[i] \in Chunk
        BY <1>2
      <3>. QED BY <3>1 DEF Chunk
    <2>4. got + Len(full) <= Slots
      <3>1. CASE Len(full) = 0
        BY <1>2, <3>1
      <3>2. CASE Len(full) # 0
        <4>1. Len(full) \in 1 .. Len(full)
          BY <1>7, <3>2
        <4>. QED BY <1>2, <1>8, <2>3, <4>1
      <3>. QED BY <3>1, <3>2
    <2>7. Types'
      BY <1>1, <1>2, <1>3, <2>1 DEF ControlInv, Types
    <2>8. PipeInv'
      <3>1. stop \/ got + Len(full) = Slots \/ st # "read"
        BY <1>2, <1>6, <1>7, <2>1, <2>4
      <3>2. st' = st /\ st # "layout" /\ io'.at = "gone" /\ got' = got /\ full' = full /\ free' = free /\ stop' = stop
        BY <1>1, <1>4, <2>1
      <3>. QED BY <1>6, <1>7, <1>8, <2>2, <3>1, <3>2 DEF PipeInv
    <2>9. StageInv' /\ OrderInv' /\ ArenaInv'
      BY <1>1, <2>1 DEF ControlInv, StageInv, OrderInv, ArenaInv
    <2>. QED BY <2>7, <2>8, <2>9 DEF ControlInv
  <1>. QED BY <1>10, <1>11, <1>12 DEF Reader

\* A record that is parsed is the next one, and nothing else than it is deferred.
LEMMA ParseKeepsOrder ==
  ASSUME Types, OrderInv, got < Slots, got' = got + 1,
         todo' = todo \/ \E x \in Item : todo' = Append(todo, x) /\ x.ref[1] = got + 1
  PROVE  todo' \in Seq(Item) /\ OrderInv'
  <1>1. got \in Nat /\ todo \in Seq(Item) /\ \A i \in DOMAIN todo : todo[i].ref[1] \in Nat
    <2>1. got \in Nat /\ todo \in Seq(Item)
      BY ScanAssumption DEF Types
    <2>2. \A i \in DOMAIN todo : todo[i] \in Item
      BY <2>1
    <2>. QED BY <2>1, <2>2, ScanAssumption DEF Item, Refs, Slot
  <1>2. CASE todo' = todo
    BY <1>1, <1>2 DEF OrderInv
  <1>3. ASSUME NEW x \in Item, todo' = Append(todo, x), x.ref[1] = got + 1
        PROVE  todo' \in Seq(Item) /\ OrderInv'
    <2>1. todo' \in Seq(Item) /\ Len(todo') = Len(todo) + 1 /\ todo'[Len(todo) + 1] = x /\ Len(todo) \in Nat
          /\ DOMAIN todo' = 1 .. Len(todo) + 1 /\ DOMAIN todo = 1 .. Len(todo)
          /\ \A i \in 1 .. Len(todo) : todo'[i] = todo[i]
      BY <1>1, <1>3
    <2>2. \A i \in 1 .. Len(todo) + 1 : i \in 1 .. Len(todo) \/ i = Len(todo) + 1
      BY <2>1
    <2>3. \A i \in DOMAIN todo' : todo'[i].ref[1] <= got'
      <3>1. \A i \in 1 .. Len(todo) : todo[i].ref[1] <= got + 1
        <4>1. \A i \in 1 .. Len(todo) : todo[i].ref[1] \in Nat /\ todo[i].ref[1] <= got
          BY <1>1, <2>1 DEF OrderInv
        <4>. QED BY <1>1, <4>1
      <3>2. ASSUME NEW i \in 1 .. Len(todo) + 1
            PROVE  todo'[i].ref[1] <= got + 1
        <4>1. CASE i = Len(todo) + 1
          <5>1. todo'[i].ref[1] = got + 1
            BY <1>3, <2>1, <4>1
          <5>. QED BY <1>1, <5>1
        <4>2. CASE i \in 1 .. Len(todo)
          BY <2>1, <3>1, <4>2
        <4>. QED BY <2>2, <4>1, <4>2
      <3>. QED BY <2>1, <3>2
    <2>4. \A i, j \in DOMAIN todo' : i < j => todo'[i].ref[1] < todo'[j].ref[1]
      <3>1. ASSUME NEW i \in DOMAIN todo', NEW j \in DOMAIN todo', i < j
            PROVE  todo'[i].ref[1] < todo'[j].ref[1]
        <4>1. i \in 1 .. Len(todo) /\ todo'[i] = todo[i] /\ todo[i].ref[1] <= got /\ todo[i].ref[1] \in Nat
          BY <1>1, <2>1, <3>1 DEF OrderInv
        <4>2. CASE j = Len(todo) + 1
          <5>1. todo'[j].ref[1] = got + 1
            BY <1>3, <2>1, <4>2
          <5>2. \A k \in Nat : k <= got => k < got + 1
            BY <1>1
          <5>. QED BY <4>1, <5>1, <5>2
        <4>3. CASE j \in 1 .. Len(todo)
          BY <2>1, <3>1, <4>1, <4>3 DEF OrderInv
        <4>. QED BY <2>1, <2>2, <4>2, <4>3
      <3>. QED BY <3>1
    <2>. QED BY <2>1, <2>3, <2>4 DEF OrderInv
  <1>. QED BY <1>2, <1>3

\* The parser takes the first buffer: the chunks left are still the next ones.
LEMMA ReceiveKeepsControl ==
  ASSUME ControlInv, Receive
  PROVE  ControlInv'
  <1>1. /\ Types /\ PipeInv /\ StageInv /\ OrderInv /\ ArenaInv
        /\ full \in Seq(Chunk) /\ got \in 0 .. Slots /\ Slots \in Nat /\ free \in Nat
    BY ScanAssumption DEF ControlInv, Types
  <1>2. /\ st = "read" /\ ~stop /\ got < Slots /\ full # <<>> /\ Head(full).slot # 0
        /\ full' = Tail(full) /\ free' = free + 1 /\ got' = got + 1
        /\ UNCHANGED <<disk, stop, io, st, work, out>>
        /\ TakeRecord(Head(full).slot, Head(full).rec)
    BY DEF Receive, fsVars
  <1>3. /\ Len(full) \in Nat \ {0} /\ DOMAIN full = 1 .. Len(full) /\ Head(full) = full[1]
        /\ full' \in Seq(Chunk) /\ Len(full') = Len(full) - 1 /\ DOMAIN full' = 1 .. Len(full) - 1
        /\ \A i \in 1 .. Len(full) - 1 : full'[i] = full[i + 1]
    BY <1>1, <1>2
  <1>4. \A i \in 1 .. Len(full) : IF full[i].slot = 0 THEN i = Len(full) /\ io.at = "gone" /\ fault
                                   ELSE full[i].slot = got + i /\ full[i].rec \in FileRecord
    BY <1>1, <1>3 DEF PipeInv
  <1>5. full[1].slot = got + 1 /\ full[1].rec \in FileRecord /\ got + 1 \in Slot
    <2>1. full[1].slot # 0 /\ 1 \in 1 .. Len(full)
      BY <1>2, <1>3
    <2>2. full[1].slot = got + 1 /\ full[1].rec \in FileRecord
      BY <1>4, <2>1
    <2>. QED BY <1>1, <1>2, <2>2 DEF Slot
  <1>6. TakeRecord(got + 1, full[1].rec)
    BY <1>2, <1>3, <1>5
  <1>7. /\ rows' \subseteq Refs \X Names /\ cache' \in [Slot -> Kinds] /\ arena' \in 0 .. ArenaMax
        /\ err' \in BOOLEAN /\ fault' \in BOOLEAN
        /\ todo' = todo \/ \E x \in Item : todo' = Append(todo, x) /\ x.ref[1] = got + 1
        /\ err' => err \/ fault'
        /\ fault => fault'
        /\ ArenaInv'
    BY <1>1, <1>5, <1>6, ParseMoves
  <1>8. todo' \in Seq(Item) /\ OrderInv'
    BY <1>1, <1>2, <1>7, ParseKeepsOrder
  <1>9. Types'
    BY <1>1, <1>2, <1>3, <1>7, <1>8 DEF Types
  <1>10. HasError' <=> HasError
    <2>1. CASE Len(full) = 1
      <3>1. full' = <<>> /\ full[Len(full)].slot # 0
        BY <1>2, <1>3, <2>1
      <3>. QED BY <3>1 DEF HasError
    <2>2. CASE Len(full) # 1
      <3>1. full' # <<>> /\ full'[Len(full')] = full[Len(full)]
        BY <1>3, <2>2
      <3>. QED BY <1>2, <3>1 DEF HasError
    <2>. QED BY <2>1, <2>2
  <1>11. PipeInv'
    <2>1. io' = io /\ st' = st /\ st # "layout" /\ stop' = stop
      BY <1>2
    <2>2. io.at \in {"off", "inline"} => FALSE
      BY <1>1, <1>2 DEF PipeInv
    <2>3. \A i \in DOMAIN full' : IF full'[i].slot = 0 THEN i = Len(full') /\ io'.at = "gone" /\ fault'
                                  ELSE full'[i].slot = got' + i /\ full'[i].rec \in FileRecord
      <3>1. ASSUME NEW i \in DOMAIN full'
            PROVE  IF full'[i].slot = 0 THEN i = Len(full') /\ io'.at = "gone" /\ fault'
                   ELSE full'[i].slot = got' + i /\ full'[i].rec \in FileRecord
        <4>1. i \in Nat /\ i + 1 \in 1 .. Len(full) /\ full'[i] = full[i + 1]
          BY <1>3
        <4>1a. IF full[i + 1].slot = 0 THEN i + 1 = Len(full) /\ io.at = "gone" /\ fault
               ELSE full[i + 1].slot = got + (i + 1) /\ full[i + 1].rec \in FileRecord
          BY <1>4, <4>1
        <4>1b. \A k \in Nat, l \in Nat, g \in Nat : /\ k + 1 = l => k = l - 1
                                                  /\ g + (k + 1) = (g + 1) + k
          OBVIOUS
        <4>2. CASE full[i + 1].slot = 0
          <5>1. i + 1 = Len(full) /\ io.at = "gone" /\ fault
            BY <4>1a, <4>2
          <5>2. i = Len(full) - 1
            BY <1>3, <4>1, <4>1b, <5>1
          <5>. QED BY <1>3, <1>7, <2>1, <4>1, <4>2, <5>1, <5>2
        <4>3. CASE full[i + 1].slot # 0
          <5>1. full[i + 1].slot = got + (i + 1) /\ full[i + 1].rec \in FileRecord
            BY <4>1a, <4>3
          <5>2. got + (i + 1) = got' + i
            BY <1>1, <1>2, <4>1, <4>1b
          <5>. QED BY <4>1, <4>3, <5>1, <5>2
        <4>. QED BY <4>2, <4>3
      <3>. QED BY <3>1
    <2>4. io.at = "read" => io'.next = got' + Len(full') + 1
      BY <1>1, <1>2, <1>3 DEF PipeInv
    <2>5. io.at = "gone" => HasError' \/ stop' \/ got' + Len(full') = Slots
      <3>1. io.at = "gone" => HasError \/ stop \/ got + Len(full) = Slots
        BY <1>1, <1>2 DEF PipeInv
      <3>2. got + Len(full) = Slots => got' + Len(full') = Slots
        BY <1>1, <1>2, <1>3
      <3>. QED BY <1>10, <2>1, <3>1, <3>2
    <2>6. free' + (IF HasError' THEN Len(full') - 1 ELSE Len(full')) = Buffers
      <3>1. free + (IF HasError THEN Len(full) - 1 ELSE Len(full)) = Buffers
        BY <1>1 DEF PipeInv
      <3>1a. Len(full) \in Nat /\ Len(full') = Len(full) - 1 /\ free' = free + 1 /\ Buffers \in Nat
        BY <1>2, <1>3, ScanAssumption
      <3>2. CASE HasError
        <4>1. HasError' /\ free + (Len(full) - 1) = Buffers
          BY <1>10, <3>1, <3>2
        <4>2. free' + (Len(full') - 1) = Buffers
          BY <1>1, <3>1a, <4>1
        <4>. QED BY <4>1, <4>2
      <3>3. CASE ~HasError
        <4>1. ~HasError' /\ free + Len(full) = Buffers
          BY <1>10, <3>1, <3>3
        <4>2. free' + Len(full') = Buffers
          BY <1>1, <3>1a, <4>1
        <4>. QED BY <4>1, <4>2
      <3>. QED BY <3>2, <3>3
    <2>. QED BY <2>1, <2>2, <2>3, <2>4, <2>5, <2>6 DEF PipeInv
  <1>12. StageInv'
    <2>1. (err' => fault' \/ stop') /\ work.at = "idle"
      BY <1>1, <1>2, <1>7 DEF StageInv
    <2>2. out = "running"
      BY <1>1, <1>2 DEF StageInv
    <2>. QED BY <1>2, <2>1, <2>2 DEF StageInv
  <1>. QED BY <1>7, <1>8, <1>9, <1>11, <1>12 DEF ControlInv

\* The parser reads for itself when there is no reader.
LEMMA InlineKeepsControl ==
  ASSUME ControlInv, ReadInline
  PROVE  ControlInv'
  <1>1. /\ Types /\ PipeInv /\ StageInv /\ OrderInv /\ ArenaInv /\ WellFormed(disk)
        /\ got \in 0 .. Slots /\ Slots \in Nat /\ out = "running" /\ work.at = "idle"
    BY ScanAssumption DEF ControlInv, Types, StageInv, ReadInline
  <1>2. /\ st = "read" /\ io.at = "inline" /\ full = <<>> /\ ~stop /\ got < Slots
        /\ UNCHANGED <<disk, stop, io, full, free, work>>
    BY <1>1 DEF ReadInline, fsVars, pipeVars, PipeInv
  <1>3. HasError' = HasError /\ ~HasError
    BY <1>2 DEF HasError
  <1>4. CASE TakeRecord(got + 1, disk[got + 1]) /\ got' = got + 1 /\ UNCHANGED <<st, out>>
    <2>1. got + 1 \in Slot /\ disk[got + 1] \in FileRecord
      BY <1>1, <1>2 DEF Slot, WellFormed
    <2>2. /\ rows' \subseteq Refs \X Names /\ cache' \in [Slot -> Kinds] /\ arena' \in 0 .. ArenaMax
          /\ err' \in BOOLEAN /\ fault' \in BOOLEAN
          /\ todo' = todo \/ \E x \in Item : todo' = Append(todo, x) /\ x.ref[1] = got + 1
          /\ err' => err \/ fault'
          /\ fault => fault'
          /\ ArenaInv'
      BY <1>1, <1>4, <2>1, ParseMoves
    <2>3. todo' \in Seq(Item) /\ OrderInv'
      BY <1>1, <1>2, <1>4, <2>2, ParseKeepsOrder
    <2>4. got' \in 0 .. Slots
      BY <1>1, <1>2, <1>4
    <2>5. Types'
      BY <1>1, <1>2, <1>4, <2>2, <2>3, <2>4 DEF Types
    <2>6. PipeInv'
      BY <1>1, <1>2, <1>3, <1>4 DEF PipeInv
    <2>7. StageInv'
      BY <1>1, <1>2, <1>4, <2>2 DEF StageInv
    <2>. QED BY <2>2, <2>3, <2>5, <2>6, <2>7 DEF ControlInv
  <1>5. CASE fault' = TRUE /\ End("failed") /\ UNCHANGED <<got, err, buildVars>>
    <2>1. out' = "failed" /\ st' = "done" /\ fault' = TRUE /\ UNCHANGED <<got, err, rows, cache, arena, todo>>
      BY <1>5 DEF End, buildVars
    <2>2. Types'
      BY <1>1, <1>2, <2>1 DEF Types
    <2>3. PipeInv'
      BY <1>1, <1>2, <1>3, <2>1 DEF PipeInv
    <2>4. StageInv' /\ OrderInv' /\ ArenaInv'
      BY <1>1, <1>2, <2>1 DEF StageInv, OrderInv, ArenaInv
    <2>. QED BY <2>2, <2>3, <2>4 DEF ControlInv
  <1>. QED BY <1>4, <1>5 DEF ReadInline

\* The reader starts with every buffer free.
LEMMA LayoutKeepsControl ==
  ASSUME ControlInv, Layout
  PROVE  ControlInv'
  <1>1. /\ Types /\ PipeInv /\ StageInv /\ OrderInv /\ ArenaInv
        /\ io \in [at : {"off", "read", "inline", "gone"}, next : Nat]
        /\ st = "layout" /\ out = "running" /\ work.at = "idle"
    BY DEF ControlInv, Types, StageInv, Layout
  <1>2. /\ io.at = "off" /\ io.next = 1 /\ full = <<>> /\ free = Buffers /\ got = 0
        /\ UNCHANGED <<disk, stop, full, free, got, err, rows, cache, arena, todo, work>>
    BY <1>1 DEF Layout, PipeInv, fsVars, buildVars
  <1>3. /\ ~HasError /\ ~HasError' /\ Len(full) = 0 /\ DOMAIN full = {}
    BY <1>2 DEF HasError
  <1>3a. Buffers \in Nat
    BY ScanAssumption
  <1>4. CASE /\ ~stop /\ st' = "read" /\ io' \in {[io EXCEPT !.at = "read"], [io EXCEPT !.at = "inline"]}
             /\ UNCHANGED <<out, fault>>
    <2>1. io' \in [at : {"off", "read", "inline", "gone"}, next : Nat] /\ io'.at \in {"read", "inline"} /\ io'.next = 1
      BY <1>1, <1>2, <1>4
    <2>2. Types'
      BY <1>1, <1>2, <1>4, <2>1 DEF Types
    <2>3. PipeInv'
      BY <1>2, <1>3, <1>3a, <1>4, <2>1 DEF PipeInv
    <2>4. StageInv' /\ OrderInv' /\ ArenaInv'
      BY <1>1, <1>2, <1>4 DEF StageInv, OrderInv, ArenaInv
    <2>. QED BY <2>2, <2>3, <2>4 DEF ControlInv
  <1>5. ASSUME NEW r \in {"cancelled", "failed"}, End(r), fault' = fault \/ fault' = TRUE,
               r = "failed" => fault' = TRUE, io' = io
        PROVE  ControlInv'
    <2>1. st' = "done" /\ out' = r /\ r \in {"cancelled", "failed"} /\ r # "running" /\ r # "complete"
      BY <1>5 DEF End
    <2>1a. (fault => fault') /\ fault' \in BOOLEAN /\ (r = "failed" => fault')
      <3>1. fault \in BOOLEAN
        BY <1>1 DEF Types
      <3>2. CASE fault' = fault
        BY <1>5, <3>1, <3>2
      <3>3. CASE fault' = TRUE
        BY <3>3
      <3>. QED BY <1>5, <3>2, <3>3
    <2>2. Types'
      BY <1>1, <1>2, <1>5, <2>1, <2>1a DEF Types
    <2>3. PipeInv'
      BY <1>2, <1>3, <1>3a, <1>5, <2>1 DEF PipeInv
    <2>4. StageInv' /\ OrderInv' /\ ArenaInv'
      BY <1>1, <1>2, <1>5, <2>1, <2>1a DEF StageInv, OrderInv, ArenaInv
    <2>. QED BY <2>2, <2>3, <2>4 DEF ControlInv
  <1>6. CASE End("cancelled") /\ UNCHANGED <<io, fault>>
    <2>1. End("cancelled") /\ fault' = fault /\ io' = io
      BY <1>6
    <2>. QED BY <1>5, <2>1
  <1>7. CASE fault' = TRUE /\ End("failed") /\ UNCHANGED io
    BY <1>5, <1>7
  <1>. QED BY <1>4, <1>6, <1>7 DEF Layout

\* The steps of the parser after its loop leave the pipeline alone; they may end
\* the scan, and a failure is somebody's fault.
LEMMA EndKeepsControl ==
  ASSUME ControlInv, st \in {"join", "deferred"}, NEW r \in {"cancelled", "failed", "complete"}, End(r),
         r = "failed" => fault' = TRUE \/ (err /\ ~stop), fault' = fault \/ fault' = TRUE,
         r = "complete" => st = "deferred" /\ todo = <<>>,
         UNCHANGED <<disk, stop, io, full, free, got, err, rows, cache, arena, todo, work>>
  PROVE  ControlInv'
  <1>1. /\ Types /\ PipeInv /\ StageInv /\ OrderInv /\ ArenaInv
        /\ st' = "done" /\ out' = r /\ fault \in BOOLEAN
    BY DEF ControlInv, End, Types
  <1>2. fault' \in BOOLEAN /\ (fault => fault')
    <2>1. CASE fault' = fault
      BY <1>1, <2>1
    <2>2. CASE fault' = TRUE
      BY <2>2
    <2>. QED BY <2>1, <2>2
  <1>3. HasError' = HasError
    BY DEF HasError
  <1>4. Types'
    BY <1>1, <1>2 DEF Types
  <1>5. PipeInv'
    BY <1>1, <1>2, <1>3 DEF PipeInv
  <1>6. StageInv'
    <2>1. (err => fault \/ stop) /\ (work.at # "idle" => todo # <<>>)
      BY <1>1 DEF StageInv
    <2>2. r = "complete" => got = Slots /\ ~err
      BY <1>1 DEF StageInv
    <2>3. r = "failed" => fault'
      BY <1>2, <2>1
    <2>. QED BY <1>1, <1>2, <2>1, <2>2, <2>3 DEF StageInv
  <1>7. OrderInv' /\ ArenaInv'
    BY <1>1 DEF OrderInv, ArenaInv
  <1>. QED BY <1>4, <1>5, <1>6, <1>7 DEF ControlInv

\* The parser goes on only with all records received and no error.
LEMMA JoinKeepsControl ==
  ASSUME ControlInv, LeaveLoop \/ Joined
  PROVE  ControlInv'
  <1>1. /\ Types /\ PipeInv /\ StageInv /\ OrderInv /\ ArenaInv /\ fault \in BOOLEAN /\ err \in BOOLEAN
        /\ full \in Seq(Chunk) /\ got \in 0 .. Slots /\ Slots \in Nat
    BY ScanAssumption DEF ControlInv, Types
  <1>2. UNCHANGED <<disk, stop, io, full, free, got, rows, cache, arena, todo, work>>
    BY DEF LeaveLoop, Joined, fsVars, pipeVars, buildVars
  <1>3. HasError' = HasError
    BY <1>2 DEF HasError
  <1>4. CASE LeaveLoop
    <2>1. /\ st = "read" /\ st' = "join" /\ UNCHANGED <<fault, out>>
          /\ \/ (got = Slots \/ stop) /\ err' = err
             \/ /\ got < Slots /\ err' = TRUE
                /\ IF full = <<>> THEN io.at = "gone" ELSE Head(full).slot = 0
      BY <1>4 DEF LeaveLoop
    <2>2. err' \in BOOLEAN /\ (err' => fault \/ stop) /\ (got = Slots \/ stop \/ err')
      <3>1. CASE (got = Slots \/ stop) /\ err' = err
        BY <1>1, <3>1 DEF StageInv
      <3>2. CASE /\ got < Slots /\ err' = TRUE
                 /\ IF full = <<>> THEN io.at = "gone" ELSE Head(full).slot = 0
        <4>1. CASE full = <<>>
          <5>1. ~HasError /\ Len(full) = 0
            BY <4>1 DEF HasError
          <5>2. stop \/ got + Len(full) = Slots
            BY <1>1, <2>1, <3>2, <4>1, <5>1 DEF PipeInv
          <5>. QED BY <1>1, <3>2, <5>1, <5>2
        <4>2. CASE full # <<>>
          <5>1. 1 \in DOMAIN full /\ full[1].slot = 0
            BY <1>1, <3>2, <4>2
          <5>2. fault
            BY <1>1, <5>1 DEF PipeInv
          <5>. QED BY <3>2, <5>2
        <4>. QED BY <4>1, <4>2
      <3>. QED BY <2>1, <3>1, <3>2
    <2>3. Types'
      BY <1>1, <1>2, <2>1, <2>2 DEF Types
    <2>4. PipeInv'
      BY <1>1, <1>2, <1>3, <2>1 DEF PipeInv
    <2>5. StageInv' /\ OrderInv' /\ ArenaInv'
      BY <1>1, <1>2, <2>1, <2>2 DEF StageInv, OrderInv, ArenaInv
    <2>. QED BY <2>3, <2>4, <2>5 DEF ControlInv
  <1>5. CASE Joined
    <2>1. st = "join" /\ err' = err
      BY <1>5 DEF Joined
    <2>2. CASE st' = "deferred" /\ ~stop /\ ~err /\ UNCHANGED <<out, fault>>
      <3>1. Types'
        BY <1>1, <1>2, <2>1, <2>2 DEF Types
      <3>2. PipeInv'
        BY <1>1, <1>2, <1>3, <2>1, <2>2 DEF PipeInv
      <3>3. StageInv' /\ OrderInv' /\ ArenaInv'
        BY <1>1, <1>2, <2>1, <2>2 DEF StageInv, OrderInv, ArenaInv
      <3>. QED BY <3>1, <3>2, <3>3 DEF ControlInv
    <2>3. CASE End("cancelled") /\ UNCHANGED fault
      BY <1>2, <2>1, <2>3, EndKeepsControl
    <2>4. CASE End("failed") /\ (fault' = TRUE \/ (err /\ ~stop /\ fault' = fault))
      <3>1. "failed" \in {"cancelled", "failed", "complete"} /\ st \in {"join", "deferred"}
        BY <2>1
      <3>. QED BY <1>2, <2>1, <2>4, <3>1, EndKeepsControl
    <2>. QED BY <1>5, <2>2, <2>3, <2>4 DEF Joined
  <1>. QED BY <1>4, <1>5

\* The deferred objects are resolved from the first on.
LEMMA ResolveKeepsControl ==
  ASSUME ControlInv, Resolves \/ Build
  PROVE  ControlInv'
  <1>1. /\ Types /\ PipeInv /\ StageInv /\ OrderInv /\ ArenaInv /\ st = "deferred"
        /\ todo \in Seq(Item) /\ (Object = todo[1].ref \/ todo = <<>>)
    <2>1. st = "deferred"
      BY ResolvesMoves DEF ControlInv, Build
    <2>2. todo \in Seq(Item)
      BY DEF ControlInv, Types
    <2>. QED BY <2>1, <2>2 DEF ControlInv, Object
  <1>2. /\ UNCHANGED <<disk, stop, io, full, free, got, err, cache, arena>>
    BY ResolvesMoves DEF ControlInv, Build, Kept, fsVars, pipeVars
  <1>3. CASE Build
    <2>1. todo = <<>> /\ UNCHANGED <<rows, todo, work>>
      BY <1>3 DEF Build
    <2>2. CASE End("cancelled") /\ UNCHANGED fault
      BY <1>1, <1>2, <2>1, <2>2, EndKeepsControl
    <2>3. CASE End("complete") /\ UNCHANGED fault
      BY <1>1, <1>2, <2>1, <2>3, EndKeepsControl
    <2>4. CASE End("failed") /\ fault' = TRUE
      BY <1>1, <1>2, <2>1, <2>4, EndKeepsControl
    <2>. QED BY <1>3, <2>2, <2>3, <2>4 DEF Build
  <1>4. CASE Resolves
    <2>1. todo # <<>> /\ (Quit \/ Fail \/ (\E w \in Resolution : Next1(w)) \/ (\E names \in SUBSET Names : Done(names)))
      BY <1>1, <1>4, ResolvesMoves
    <2>2. CASE Quit
      BY <1>1, <1>2, <2>2, EndKeepsControl DEF Quit
    <2>3. CASE Fail
      BY <1>1, <1>2, <2>3, EndKeepsControl DEF Fail
    <2>4. ASSUME NEW w \in Resolution, Next1(w)
          PROVE  ControlInv'
      <3>1. work' = w /\ UNCHANGED <<st, out, fault, rows, todo>>
        BY <2>4 DEF Next1
      <3>2. HasError' = HasError
        BY <1>2 DEF HasError
      <3>3. Types'
        BY <1>1, <1>2, <3>1 DEF Types
      <3>4. PipeInv'
        BY <1>1, <1>2, <3>1, <3>2 DEF PipeInv
      <3>5. StageInv' /\ OrderInv' /\ ArenaInv'
        BY <1>1, <1>2, <2>1, <3>1 DEF StageInv, OrderInv, ArenaInv
      <3>. QED BY <3>3, <3>4, <3>5 DEF ControlInv
    <2>5. ASSUME NEW names \in SUBSET Names, Done(names)
          PROVE  ControlInv'
      <3>1. /\ rows' = rows \cup Rows(Object, names) /\ todo' = Tail(todo) /\ work' = NoWork
            /\ UNCHANGED <<st, out, fault>>
        BY <2>5 DEF Done
      <3>2. HasError' = HasError
        BY <1>2 DEF HasError
      <3>3. /\ todo' \in Seq(Item) /\ Len(todo) \in Nat \ {0} /\ DOMAIN todo = 1 .. Len(todo)
            /\ DOMAIN todo' = 1 .. Len(todo) - 1 /\ \A i \in DOMAIN todo' : todo'[i] = todo[i + 1]
            /\ todo[1] \in Item
        BY <1>1, <2>1, <3>1
      <3>4. Rows(Object, names) \subseteq Refs \X Names
        <4>1. Object \in Refs
          BY <1>1, <2>1, <3>3 DEF Item
        <4>. QED BY <4>1 DEF Rows
      <3>5. NoWork \in Resolution /\ NoWork.at = "idle"
        BY DEF NoWork, Resolution, Kinds
      <3>6. Types'
        BY <1>1, <1>2, <3>1, <3>3, <3>4, <3>5 DEF Types
      <3>7. PipeInv'
        BY <1>1, <1>2, <3>1, <3>2 DEF PipeInv
      <3>8. StageInv'
        BY <1>1, <1>2, <3>1, <3>5 DEF StageInv
      <3>9. OrderInv'
        <4>1. \A i \in DOMAIN todo' : i + 1 \in DOMAIN todo
          BY <3>3
        <4>2. \A i, j \in DOMAIN todo' : i < j => i + 1 < j + 1
          BY <3>3
        <4>. QED BY <1>1, <1>2, <3>3, <4>1, <4>2 DEF OrderInv
      <3>10. ArenaInv'
        BY <1>1, <1>2 DEF ArenaInv
      <3>. QED BY <3>6, <3>7, <3>8, <3>9, <3>10 DEF ControlInv
    <2>. QED BY <2>1, <2>2, <2>3, <2>4, <2>5
  <1>. QED BY <1>3, <1>4

----------------------------------------------------------------------------
\* The initial states satisfy the invariant.
LEMMA InitControl ==
  ASSUME Init
  PROVE  ControlInv
  <1>1. WellFormed(disk)
    BY DisksAssumption DEF Init
  <1>2. NoWork \in Resolution /\ NoWork.at = "idle"
    BY DEF NoWork, Resolution, Kinds
  <1>3. [at |-> "off", next |-> 1] \in [at : {"off", "read", "inline", "gone"}, next : Nat]
    OBVIOUS
  <1>4. full = <<>> /\ todo = <<>> /\ ~HasError /\ Buffers \in Nat /\ ArenaMax \in Nat /\ Slots \in Nat
    BY ScanAssumption DEF Init, HasError
  <1>5. full \in Seq(Chunk) /\ todo \in Seq(Item) /\ DOMAIN full = {} /\ DOMAIN todo = {} /\ Len(full) = 0
    BY <1>4
  <1>6. Types
    <2>1. st = "layout" /\ out = "running" /\ stop = FALSE /\ fault = FALSE /\ err = FALSE
          /\ rows = {} /\ arena = 0 /\ got = 0 /\ free = Buffers /\ io = [at |-> "off", next |-> 1] /\ work = NoWork
      BY DEF Init
    <2>2. cache \in [Slot -> Kinds]
      BY DEF Init, Kinds
    <2>3. arena \in 0 .. ArenaMax /\ got \in 0 .. Slots /\ free \in Nat
      BY <1>4, <2>1
    <2>4. stop \in BOOLEAN /\ fault \in BOOLEAN /\ err \in BOOLEAN
      BY <2>1
    <2>5. /\ st \in {"layout", "read", "join", "deferred", "done"}
          /\ out \in {"running", "complete", "cancelled", "failed"}
          /\ io \in [at : {"off", "read", "inline", "gone"}, next : Nat] /\ work \in Resolution
          /\ rows \subseteq Refs \X Names
      BY <1>2, <1>3, <2>1
    <2>. QED BY <1>1, <1>5, <2>2, <2>3, <2>4, <2>5 DEF Types
  <1>7. PipeInv
    BY <1>4, <1>5 DEF PipeInv, Init
  <1>8. StageInv /\ OrderInv
    BY <1>2, <1>5 DEF StageInv, OrderInv, Init
  <1>9. ArenaInv
    <2>1. {s \in Slot : cache[s] # NoRec} = {}
      BY DEF Init
    <2>2. arena = 0 /\ Cardinality({}) = 0
      BY FS_EmptySet DEF Init
    <2>. QED BY <2>1, <2>2 DEF ArenaInv
  <1>. QED BY <1>6, <1>7, <1>8, <1>9 DEF ControlInv

\* ControlInv is inductive.
LEMMA ControlIsKept ==
  ASSUME ControlInv, [Next]_vars
  PROVE  ControlInv'
  <1>1. CASE FileSystem
    BY <1>1, ChangeKeepsControl
  <1>2. CASE Stop
    BY <1>2, StopKeepsControl
  <1>3. CASE Reader
    BY <1>3, ReaderKeepsControl
  <1>4. CASE Layout
    BY <1>4, LayoutKeepsControl
  <1>5. CASE Receive
    BY <1>5, ReceiveKeepsControl
  <1>6. CASE ReadInline
    BY <1>6, InlineKeepsControl
  <1>7. CASE LeaveLoop \/ Joined
    BY <1>7, JoinKeepsControl
  <1>8. CASE Resolves \/ Build
    BY <1>8, ResolveKeepsControl
  <1>9. CASE UNCHANGED vars
    <2>1. UNCHANGED <<disk, stop, fault, io, full, free, st, got, err, rows, cache, arena, todo, work, out>>
      BY <1>9 DEF vars, fsVars, pipeVars, buildVars
    <2>2. Types'
      BY <2>1 DEF ControlInv, Types
    <2>3. HasError' = HasError
      BY <2>1 DEF HasError
    <2>4. PipeInv' /\ StageInv' /\ OrderInv' /\ ArenaInv'
      BY <2>1, <2>3 DEF ControlInv, PipeInv, StageInv, OrderInv, ArenaInv
    <2>. QED BY <2>2, <2>4 DEF ControlInv
  <1>. QED BY <1>1, <1>2, <1>3, <1>4, <1>5, <1>6, <1>7, <1>8, <1>9 DEF Next, Scanner, Resolves, Finished

\* Buffers in use, plus free ones, are all there are.
LEMMA ControlTypes ==
  ASSUME ControlInv
  PROVE  TypeOK
  <1>1. Types /\ PipeInv /\ ArenaInv
    BY DEF ControlInv
  <1>2. /\ full \in Seq(Chunk) /\ got \in 0 .. Slots /\ free \in Nat /\ arena \in 0 .. ArenaMax /\ ArenaMax \in Nat
        /\ Buffers \in Nat
    BY <1>1, ScanAssumption DEF Types
  <1>. DEFINE filled == {i \in DOMAIN full : full[i].slot # 0}
  <1>3. free + Cardinality(filled) = Buffers
    <2>1. Len(full) \in Nat /\ DOMAIN full = 1 .. Len(full)
      BY <1>2
    <2>2. CASE HasError
      <3>1. Len(full) - 1 \in Nat /\ full[Len(full)].slot = 0
        BY <1>2, <2>1, <2>2 DEF HasError
      <3>2. \A i \in 1 .. Len(full) : full[i].slot = 0 => i = Len(full)
        BY <1>1, <2>1 DEF PipeInv
      <3>2a. \A i \in 1 .. Len(full) : full[i].slot # 0 <=> i # Len(full)
        BY <3>1, <3>2
      <3>2b. filled = {i \in 1 .. Len(full) : i # Len(full)}
        BY <2>1, <3>2a
      <3>3. filled = 1 .. Len(full) - 1
        BY <2>1, <3>2b
      <3>4. Cardinality(1 .. Len(full) - 1) = Len(full) - 1
        BY <3>1, FS_Interval
      <3>. QED BY <1>1, <2>2, <3>3, <3>4 DEF PipeInv
    <2>3. CASE ~HasError
      <3>1. \A i \in 1 .. Len(full) : full[i].slot # 0
        <4>1. \A i \in 1 .. Len(full) : full[i].slot = 0 => i = Len(full)
          BY <1>1, <2>1 DEF PipeInv
        <4>2. full = <<>> \/ full[Len(full)].slot # 0
          BY <2>3 DEF HasError
        <4>3. full = <<>> => 1 .. Len(full) = {}
          BY <1>2
        <4>. QED BY <4>1, <4>2, <4>3
      <3>2. filled = 1 .. Len(full)
        BY <2>1, <3>1
      <3>3. Cardinality(1 .. Len(full)) = Len(full)
        <4>1. \A n \in Nat : Cardinality(1 .. n) = n
          BY FS_Interval
        <4>. QED BY <2>1, <4>1
      <3>. QED BY <1>1, <2>3, <3>2, <3>3 DEF PipeInv
    <2>. QED BY <2>2, <2>3
  <1>4. \A i \in DOMAIN full : full[i].slot \in {0, got + i}
    BY <1>1 DEF PipeInv
  <1>5. Cardinality({s \in Slot : cache[s] # NoRec}) <= arena /\ arena <= ArenaMax
    BY <1>1, <1>2 DEF ArenaInv
  <1>. QED BY <1>1, <1>3, <1>4, <1>5 DEF TypeOK, Types

\* A scan that fails had a reason to: a read, a record or a query went wrong; a
\* stop is not one.
THEOREM FailsForAReason == Spec => [](TypeOK /\ StopIsNoFailure)
  <1>1. ControlInv => TypeOK /\ StopIsNoFailure
    BY ControlTypes DEF ControlInv, StageInv, StopIsNoFailure
  <1>. QED BY InitControl, ControlIsKept, <1>1, PTL DEF Spec

----------------------------------------------------------------------------
\* The deferred objects, as the contract sees them.
Queue(q) == [i \in DOMAIN q |-> q[i].ref]

\* Adding and taking objects, as the contract sees it.
LEMMA QueueMoves ==
  ASSUME NEW S, NEW q \in Seq(S)
  PROVE  /\ \A x \in S : Queue(Append(q, x)) = Append(Queue(q), x.ref)
         /\ q # <<>> => Queue(Tail(q)) = Tail(Queue(q)) /\ Queue(q) # <<>>
         /\ Len(Queue(q)) = Len(q)
  <1>1. Queue(q) = [i \in 1 .. Len(q) |-> q[i].ref] /\ Len(q) \in Nat
    BY DEF Queue
  <1>2. Queue(q) \in Seq({q[i].ref : i \in 1 .. Len(q)}) /\ Len(Queue(q)) = Len(q)
    BY <1>1
  <1>3. ASSUME NEW x \in S
        PROVE  Queue(Append(q, x)) = Append(Queue(q), x.ref)
    <2>. DEFINE a == Append(q, x)
                b == Append(Queue(q), x.ref)
    <2>1. a \in Seq(S) /\ DOMAIN a = 1 .. Len(q) + 1 /\ a[Len(q) + 1] = x /\ \A i \in 1 .. Len(q) : a[i] = q[i]
      OBVIOUS
    <2>2. b = [i \in 1 .. Len(q) + 1 |-> IF i = Len(q) + 1 THEN x.ref ELSE q[i].ref]
      BY <1>1, <1>2
    <2>. HIDE DEF a, b
    <2>3. Queue(a) = [i \in 1 .. Len(q) + 1 |-> IF i = Len(q) + 1 THEN x.ref ELSE q[i].ref]
      BY <2>1, <1>1 DEF Queue
    <2>. QED BY <2>2, <2>3 DEF a, b
  <1>4. ASSUME q # <<>>
        PROVE  Queue(Tail(q)) = Tail(Queue(q)) /\ Queue(q) # <<>>
    <2>. DEFINE T == {q[i].ref : i \in 1 .. Len(q)}
                a == Tail(q)
                b == Tail(Queue(q))
    <2>1. Len(q) # 0 /\ DOMAIN a = 1 .. Len(q) - 1 /\ \A i \in 1 .. Len(q) - 1 : a[i] = q[i + 1]
      BY <1>4
    <2>2. Queue(q) # <<>> /\ Queue(q) \in Seq(T) /\ Len(Queue(q)) = Len(q)
      BY <1>2, <2>1
    <2>3. b \in Seq(T) /\ Len(b) = Len(q) - 1 /\ \A i \in 1 .. Len(q) - 1 : b[i] = Queue(q)[i + 1]
      BY <1>1, <2>2
    <2>4. \A i \in 1 .. Len(q) - 1 : Queue(q)[i + 1] = q[i + 1].ref
      BY <1>1
    <2>. HIDE DEF a, b, T
    <2>5. b = [i \in 1 .. Len(q) - 1 |-> q[i + 1].ref]
      BY <1>1, <2>3, <2>4
    <2>6. Queue(a) = [i \in 1 .. Len(q) - 1 |-> q[i + 1].ref]
      BY <1>1, <2>1 DEF Queue
    <2>. QED BY <2>2, <2>5, <2>6 DEF a, b
  <1>. QED BY <1>2, <1>3, <1>4

\* A record read is the contract's next record, whatever becomes of it.
LEMMA TakeIsInOrder ==
  ASSUME ControlInv, out = "running", out' = out, got < Slots, got' = got + 1,
         todo' = todo \/ \E x \in Item : todo' = Append(todo, x) /\ x.ref[1] = got + 1
  PROVE  Sequential!Take
  <1>1. todo \in Seq(Item) /\ Len(todo) \in Nat
    BY DEF ControlInv, Types
  <1>2. CASE todo' = todo
    BY <1>2 DEF Sequential!Take
  <1>3. ASSUME NEW x \in Item, todo' = Append(todo, x), x.ref[1] = got + 1
        PROVE  Sequential!Take
    <2>1. Queue(todo') = Append(Queue(todo), x.ref)
      BY <1>1, <1>3, QueueMoves
    <2>2. todo' \in Seq(Item) /\ Len(todo') = Len(todo) + 1 /\ todo'[Len(todo) + 1] = x
      BY <1>1, <1>3
    <2>3. Len(Queue(todo')) = Len(todo) + 1 /\ DOMAIN todo' = 1 .. Len(todo) + 1
      BY <2>2, QueueMoves
    <2>4. Queue(todo') # <<>> /\ Queue(todo')[Len(Queue(todo'))] = x.ref
      <3>1. Queue(todo')[Len(todo) + 1] = x.ref
        BY <1>1, <2>2, <2>3 DEF Queue
      <3>2. Queue(todo') # <<>>
        BY <1>1, <2>3
      <3>. QED BY <2>3, <3>1, <3>2
    <2>5. x.ref = <<got + 1, x.ref[2]>>
      <3>1. x.ref \in Refs
        BY DEF Item
      <3>. QED BY <1>3, <3>1 DEF Refs
    <2>. QED BY <2>1, <2>4, <2>5 DEF Sequential!Take, Queue
  <1>. QED BY <1>2, <1>3

\* Every step is a step of the contract or leaves what it sees alone.
LEMMA StepIsInOrder ==
  ASSUME ControlInv, [Next]_vars
  PROVE  [Sequential!Act]_<<got, [i \in DOMAIN todo |-> todo[i].ref], out>>
  <1>. DEFINE same == UNCHANGED <<got, [i \in DOMAIN todo |-> todo[i].ref], out>>
  <1>1. UNCHANGED <<got, todo, out>> => same
    OBVIOUS
  <1>. HIDE DEF same
  <1>2. /\ Types /\ OrderInv /\ ArenaInv /\ StageInv /\ todo \in Seq(Item) /\ got \in 0 .. Slots
        /\ (st # "done" => out = "running")
    BY DEF ControlInv, Types, StageInv
  <1>3. CASE FileSystem
    <2>1. UNCHANGED <<got, todo, out>>
      BY <1>2, <1>3, FileSystemSteps DEF Types, buildVars
    <2>. QED BY <1>1, <2>1 DEF same
  <1>4. CASE Stop \/ Reader
    <2>1. UNCHANGED <<got, todo, out>>
      BY <1>4 DEF Stop, Reader, Read, ReadError, ReaderEnds, buildVars
    <2>. QED BY <1>1, <2>1 DEF same
  <1>5. ASSUME st # "done", NEW r \in {"cancelled", "failed"}, out' = r, UNCHANGED <<got, todo>>
        PROVE  Sequential!GiveUp
    BY <1>2, <1>5 DEF Sequential!GiveUp
  <1>6. CASE Layout
    BY <1>1, <1>5, <1>6 DEF same, Layout, End, buildVars, Sequential!Act
  <1>7. CASE Receive
    <2>1. /\ st = "read" /\ got < Slots /\ got' = got + 1 /\ out' = out
          /\ full # <<>> /\ Head(full).slot # 0 /\ TakeRecord(Head(full).slot, Head(full).rec)
      BY <1>7 DEF Receive
    <2>2. Head(full).slot = got + 1 /\ Head(full).rec \in FileRecord
      <3>1. full \in Seq(Chunk)
        BY <1>2 DEF Types
      <3>2. 1 \in DOMAIN full /\ Head(full) = full[1]
        BY <2>1, <3>1
      <3>. QED BY <2>1, <3>2 DEF ControlInv, PipeInv
    <2>3. got + 1 \in Slot
      BY <1>2, <2>1, ScanAssumption DEF Slot
    <2>4. todo' = todo \/ \E x \in Item : todo' = Append(todo, x) /\ x.ref = <<got + 1, Head(full).rec.seq>>
      BY <1>2, <2>1, <2>2, <2>3, ParseMoves
    <2>5. Sequential!Take
      BY <1>2, <2>1, <2>4, TakeIsInOrder
    <2>. QED BY <2>5 DEF Sequential!Act
  <1>8. CASE ReadInline
    <2>1. st = "read" /\ got < Slots
      BY <1>8 DEF ReadInline
    <2>2. CASE TakeRecord(got + 1, disk[got + 1]) /\ got' = got + 1 /\ UNCHANGED <<st, out>>
      <3>1. got + 1 \in Slot
        BY <1>2, <2>1, ScanAssumption DEF Slot
      <3>1a. disk[got + 1] \in FileRecord
        BY <1>2, <3>1 DEF Types, WellFormed
      <3>2. todo' = todo \/ \E x \in Item : todo' = Append(todo, x) /\ x.ref = <<got + 1, disk[got + 1].seq>>
        BY <1>2, <2>2, <3>1, <3>1a, ParseMoves
      <3>3. Sequential!Take
        BY <1>2, <2>1, <2>2, <3>2, TakeIsInOrder
      <3>. QED BY <3>3 DEF Sequential!Act
    <2>3. CASE End("failed") /\ UNCHANGED <<got, err, buildVars>>
      BY <1>5, <2>1, <2>3 DEF End, buildVars, Sequential!Act
    <2>. QED BY <1>8, <2>2, <2>3 DEF ReadInline
  <1>9. CASE LeaveLoop
    <2>1. UNCHANGED <<got, todo, out>>
      BY <1>9 DEF LeaveLoop, buildVars
    <2>. QED BY <1>1, <2>1 DEF same
  <1>10. CASE Joined
    BY <1>1, <1>5, <1>10 DEF same, Joined, End, buildVars, Sequential!Act
  <1>11. CASE Build
    <2>1. /\ st = "deferred" /\ todo = <<>> /\ UNCHANGED <<todo, got>>
          /\ out' \in {"cancelled", "failed"} \/ out' = "complete"
      BY <1>11 DEF Build, End, Kept
    <2>2. CASE out' = "complete"
      <3>1. got = Slots /\ out = "running" /\ [i \in DOMAIN todo |-> todo[i].ref] = <<>>
        BY <1>2, <2>1 DEF StageInv
      <3>2. Sequential!Deliver
        BY <2>1, <2>2, <3>1 DEF Sequential!Deliver
      <3>. QED BY <3>2 DEF Sequential!Act
    <2>3. CASE out' \in {"cancelled", "failed"}
      BY <1>5, <2>1, <2>3 DEF Sequential!Act
    <2>. QED BY <2>1, <2>2, <2>3
  <1>12. CASE Resolves
    <2>1. /\ Kept /\ st = "deferred" /\ todo # <<>>
          /\ Quit \/ Fail \/ (\E w \in Resolution : Next1(w)) \/ (\E names \in SUBSET Names : Done(names))
      BY <1>2, <1>12, ResolvesMoves
    <2>2. got' = got
      BY <2>1 DEF Kept
    <2>3. CASE Quit \/ Fail
      BY <1>5, <2>1, <2>2, <2>3 DEF Quit, Fail, End, Sequential!Act
    <2>4. ASSUME NEW w, Next1(w)
          PROVE  same
      BY <1>1, <2>2, <2>4 DEF Next1
    <2>5. ASSUME NEW names, Done(names)
          PROVE  Sequential!Settle
      <3>1. todo' = Tail(todo) /\ out' = out /\ out = "running" /\ got = Slots
        BY <1>2, <2>1, <2>5 DEF Done, StageInv
      <3>2. Queue(todo) # <<>> /\ Queue(todo') = Tail(Queue(todo))
        BY <1>2, <2>1, <3>1, QueueMoves
      <3>. QED BY <2>2, <3>1, <3>2 DEF Sequential!Settle, Queue
    <2>. QED BY <2>1, <2>3, <2>4, <2>5 DEF same, Sequential!Act
  <1>13. CASE UNCHANGED vars
    BY <1>1, <1>13 DEF same, vars, buildVars
  <1>. QED BY <1>3, <1>4, <1>6, <1>7, <1>8, <1>9, <1>10, <1>11, <1>12, <1>13
       DEF Next, Scanner, Resolves, Finished

\* The pipeline, with its buffers, its two threads and its second pass, delivers
\* what a sequential scan would, every record once and in order, then every
\* deferred object in order (scan/pipeline.rs, scan/deferred.rs).
THEOREM PipelineIsSequential == Spec => ScansInOrder
  <1>1. ASSUME Init PROVE Sequential!Start
    <2>1. todo = <<>> /\ got = 0 /\ out = "running"
      BY <1>1 DEF Init
    <2>2. [i \in DOMAIN todo |-> todo[i].ref] = <<>>
      BY <2>1
    <2>. QED BY <2>1, <2>2 DEF Sequential!Start
  <1>. QED BY InitControl, ControlIsKept, StepIsInOrder, <1>1, PTL DEF Spec, ScansInOrder, Sequential!Contract

----------------------------------------------------------------------------
(***************************************************************************)
(* A name attribute is known by the record it is in and its id: N says     *)
(* which name it is.  An attribute is never issued twice, so a record read *)
(* long ago and a list read later speak of the same names.                 *)
(***************************************************************************)
Issued(d, x) == x.at[2] < d[x.at[1]].seq \/ (x.at[2] = d[x.at[1]].seq /\ x.id < d[x.at[1]].next)

Image(N, xs) == {N[x] : x \in xs}

Named(N, s, r) == \A a \in r.names : N[[at |-> <<s, r.seq>>, id |-> a.id]] = a.name

\* The records carry the names, and each object's links are one of its sets.
Consistent(d, h, N) ==
  /\ WellFormed(d)
  /\ \A s \in Slot : Named(N, s, d[s])
  /\ \A o \in Refs : LinksOf(d, o) \in h[o]

\* A record read at some moment of the scan: what it says of its objects was
\* true then.
Snapshot(d, h, N, s, r) ==
  /\ RecordSound(r) /\ Named(N, s, r)
  /\ r.seq <= d[s].seq /\ (r.seq = d[s].seq => r.next <= d[s].next)
  /\ \A q \in 1 .. MaxSeq : (q = r.seq /\ r.used /\ r.base = None) \/ {} \in h[<<s, q>>]
  /\ r.used /\ r.base = None /\ r.list = "none" => {a.name : a \in r.names} \in h[<<s, r.seq>>]
  /\ r.list = "resident" => (\A x \in r.entries : Issued(d, x)) /\ Image(N, r.entries) \in h[<<s, r.seq>>]

\* The records moved on, names stayed with their attributes, sets were added.
Grows(d, h, N, e, g, M) ==
  /\ Later(d, e)
  /\ \A x \in Entry : Issued(d, x) => Issued(e, x) /\ M[x] = N[x]
  /\ \A o \in Refs : h[o] \subseteq g[o]

\* An object's entries name its links.
LEMMA ImageOfEntries ==
  ASSUME NEW d, NEW h, NEW N, Consistent(d, h, N), NEW o \in Refs
  PROVE  /\ Image(N, Entries(d, o)) = Links(d, o)
         /\ \A x \in Entries(d, o) : x \in Entry /\ Issued(d, x)
  <1>1. Parts(d, o) \subseteq Slot
    BY DEF Parts
  <1>2. \A s \in Slot : /\ d[s].seq \in 1 .. MaxSeq /\ RecordSound(d[s]) /\ Named(N, s, d[s])
                        /\ \A a \in d[s].names : a.id \in Nat
    <2>1. d \in [Slot -> FileRecord]
      BY DEF Consistent, WellFormed
    <2>. QED BY <2>1, RecordFields DEF Consistent, WellFormed
  <1>3. \A s \in Slot : \A a \in d[s].names :
          LET x == [at |-> RefOf(d, s), id |-> a.id] IN x \in Entry /\ Issued(d, x) /\ N[x] = a.name
    BY <1>2 DEF Entry, Refs, RefOf, Issued, RecordSound, Named
  <1>4. \A x \in Entries(d, o) : x \in Entry /\ Issued(d, x) /\ N[x] \in Links(d, o)
    BY <1>1, <1>3 DEF Entries, Links
  <1>5. \A n \in Links(d, o) : \E x \in Entries(d, o) : N[x] = n
    <2>1. ASSUME NEW n \in Links(d, o)
          PROVE  \E x \in Entries(d, o) : N[x] = n
      <3>1. PICK s \in Parts(d, o) : \E a \in d[s].names : a.name = n
        BY DEF Links
      <3>2. PICK a \in d[s].names : a.name = n
        BY <3>1
      <3>. DEFINE x == [at |-> RefOf(d, s), id |-> a.id]
      <3>3. x \in Entries(d, o)
        BY DEF Entries
      <3>4. N[x] = n
        BY <1>1, <1>3, <3>2
      <3>. QED BY <3>3, <3>4
    <2>. QED BY <2>1
  <1>. QED BY <1>4, <1>5 DEF Image

\* What a raw read of a record gets.
LEMMA ReadIsSnapshot ==
  ASSUME NEW d, NEW h, NEW N, Consistent(d, h, N), NEW s \in Slot
  PROVE  d[s] \in FileRecord /\ Snapshot(d, h, N, s, d[s])
  <1>1. d \in [Slot -> FileRecord] /\ d[s] \in FileRecord /\ RecordSound(d[s]) /\ Named(N, s, d[s])
    BY DEF Consistent, WellFormed
  <1>2. d[s].seq \in 1 .. MaxSeq /\ d[s].next \in Nat
    BY <1>1, RecordFields
  <1>. DEFINE o == <<s, d[s].seq>>
  <1>3. o \in Refs /\ o = RefOf(d, s)
    BY <1>2 DEF Refs, RefOf
  <1>4. ASSUME NEW q \in 1 .. MaxSeq, ~(q = d[s].seq /\ d[s].used /\ d[s].base = None)
        PROVE  {} \in h[<<s, q>>]
    <2>1. <<s, q>> \in Refs /\ ~Exists(d, <<s, q>>)
      BY <1>4 DEF Refs, Exists
    <2>2. LinksOf(d, <<s, q>>) = {}
      BY <2>1 DEF LinksOf
    <2>. QED BY <2>1, <2>2 DEF Consistent
  <1>5. ASSUME d[s].used, d[s].base = None
        PROVE  Links(d, o) \in h[o]
    <2>1. Exists(d, o)
      BY <1>5 DEF Exists
    <2>. QED BY <1>3, <2>1 DEF Consistent, LinksOf
  <1>6. ASSUME d[s].used, d[s].base = None, d[s].list = "none"
        PROVE  {a.name : a \in d[s].names} \in h[o]
    <2>1. \A t \in Slot : d[t].base # o
      BY <1>3, <1>6 DEF Consistent, WellFormed, None, Slot
    <2>2. Parts(d, o) = {s}
      BY <1>3, <1>6, <2>1 DEF Parts, RefOf
    <2>3. Links(d, o) = {a.name : a \in d[s].names}
      BY <2>2 DEF Links
    <2>. QED BY <1>5, <1>6, <2>3
  <1>7. ASSUME d[s].list = "resident"
        PROVE  (\A x \in d[s].entries : Issued(d, x)) /\ Image(N, d[s].entries) \in h[o]
    <2>1. d[s].used /\ d[s].base = None
      BY <1>1, <1>7 DEF RecordSound
    <2>2. d[s].entries = Entries(d, o)
      BY <1>3, <1>7 DEF Consistent, WellFormed
    <2>. QED BY <1>3, <1>5, <2>1, <2>2, ImageOfEntries
  <1>. QED BY <1>1, <1>2, <1>4, <1>6, <1>7 DEF Snapshot

\* A record read stays what it was when the file system moves on.
LEMMA SnapshotStays ==
  ASSUME NEW d \in [Slot -> FileRecord], NEW h, NEW N, NEW e \in [Slot -> FileRecord], NEW g, NEW M,
         Grows(d, h, N, e, g, M),
         NEW s \in Slot, NEW r \in FileRecord, Snapshot(d, h, N, s, r)
  PROVE  Snapshot(e, g, M, s, r)
  <1>1. /\ r.seq \in 1 .. MaxSeq /\ r.next \in Nat /\ r.entries \subseteq Entry
        /\ \A a \in r.names : a.id \in Nat
    BY RecordFields
  <1>2. d[s].seq \in Nat /\ d[s].next \in Nat /\ e[s].seq \in Nat /\ e[s].next \in Nat
    BY RecordFields
  <1>3. /\ RecordSound(r) /\ Named(N, s, r)
        /\ r.seq <= d[s].seq /\ (r.seq = d[s].seq => r.next <= d[s].next)
    BY DEF Snapshot
  <1>4. Named(M, s, r)
    <2>1. ASSUME NEW a \in r.names
          PROVE  M[[at |-> <<s, r.seq>>, id |-> a.id]] = a.name
      <3>. DEFINE x == [at |-> <<s, r.seq>>, id |-> a.id]
      <3>1. x \in Entry
        BY <1>1 DEF Entry, Refs
      <3>2. a.id < r.next
        BY <1>3 DEF RecordSound
      <3>3. Issued(d, x)
        BY <1>1, <1>2, <1>3, <3>2 DEF Issued
      <3>4. M[x] = N[x]
        BY <3>1, <3>3 DEF Grows
      <3>. QED BY <1>3, <3>4 DEF Named
    <2>. QED BY <2>1 DEF Named
  <1>5. r.seq <= e[s].seq /\ (r.seq = e[s].seq => r.next <= e[s].next)
    <2>1. d[s].seq <= e[s].seq /\ (d[s].seq = e[s].seq => d[s].next <= e[s].next)
      BY DEF Grows, Later
    <2>. QED BY <1>1, <1>2, <1>3, <2>1
  <1>6. \A q \in 1 .. MaxSeq : h[<<s, q>>] \subseteq g[<<s, q>>]
    <2>1. \A q \in 1 .. MaxSeq : <<s, q>> \in Refs
      BY DEF Refs
    <2>. QED BY <2>1 DEF Grows
  <1>7. r.list = "resident" => (\A x \in r.entries : Issued(e, x)) /\ Image(M, r.entries) \in g[<<s, r.seq>>]
    <2>1. ASSUME r.list = "resident"
          PROVE  (\A x \in r.entries : Issued(e, x)) /\ Image(M, r.entries) \in g[<<s, r.seq>>]
      <3>1. (\A x \in r.entries : Issued(d, x)) /\ Image(N, r.entries) \in h[<<s, r.seq>>]
        BY <2>1 DEF Snapshot
      <3>2. \A x \in r.entries : Issued(e, x) /\ M[x] = N[x]
        BY <1>1, <3>1 DEF Grows
      <3>3. Image(M, r.entries) = Image(N, r.entries)
        BY <3>2 DEF Image
      <3>. QED BY <1>1, <1>6, <3>1, <3>2, <3>3
    <2>. QED BY <2>1
  <1>. QED BY <1>1, <1>3, <1>4, <1>5, <1>6, <1>7 DEF Snapshot

\* Every change of the file system leaves the records consistent.
LEMMA EvolutionIsConsistent ==
  ASSUME NEW d, NEW h, NEW N, Consistent(d, h, N), NEW e, Evolves(d, e),
         NEW g, g = [o \in Refs |-> h[o] \cup {LinksOf(e, o)}]
  PROVE  \E M : Consistent(e, g, M) /\ Grows(d, h, N, e, g, M)
  <1>1. PICK s \in Slot, n \in Names : Adds(d, e, s, n)
    BY DEF Evolves
  <1>. DEFINE fresh == [at |-> <<s, d[s].seq>>, id |-> d[s].next]
              M == [x \in Entry |-> IF x = fresh THEN n ELSE N[x]]
  <1>2. d \in [Slot -> FileRecord] /\ e \in [Slot -> FileRecord]
    BY DEF Consistent, Evolves, WellFormed
  <1>3. /\ \A t \in Slot : d[t].seq \in 1 .. MaxSeq /\ d[t].next \in Nat /\ e[t].seq \in 1 .. MaxSeq /\ e[t].next \in Nat
        /\ \A t \in Slot : \A a \in d[t].names : a.id \in Nat
    BY <1>2, RecordFields
  <1>4. fresh \in Entry /\ ~Issued(d, fresh)
    BY <1>3 DEF Entry, Refs, Issued
  <1>. HIDE DEF fresh
  <1>5. \A x \in Entry : Issued(d, x) => M[x] = N[x]
    BY <1>4
  <1>6. M[fresh] = n
    BY <1>4
  <1>. HIDE DEF M
  <1>7. \A x \in Entry : Issued(d, x) => Issued(e, x)
    <2>1. ASSUME NEW x \in Entry, Issued(d, x)
          PROVE  Issued(e, x)
      <3>1. x.at \in Refs /\ x.at[1] \in Slot /\ x.at[2] \in 1 .. MaxSeq /\ x.id \in Nat
        BY DEF Entry, Refs
      <3>2. /\ d[x.at[1]].seq <= e[x.at[1]].seq
            /\ d[x.at[1]].seq = e[x.at[1]].seq => d[x.at[1]].next <= e[x.at[1]].next
        BY <3>1 DEF Evolves, Later
      <3>3. /\ d[x.at[1]].seq \in Nat /\ d[x.at[1]].next \in Nat /\ e[x.at[1]].seq \in Nat /\ e[x.at[1]].next \in Nat
        BY <1>3, <3>1
      <3>. QED BY <2>1, <3>1, <3>2, <3>3 DEF Issued
    <2>. QED BY <2>1
  <1>8. \A t \in Slot : Named(M, t, e[t])
    <2>1. ASSUME NEW t \in Slot, NEW a \in e[t].names
          PROVE  M[[at |-> <<t, e[t].seq>>, id |-> a.id]] = a.name
      <3>1. e[t].seq = d[t].seq /\ (a \in d[t].names \/ (t = s /\ a = New(d, s, n)))
        BY <1>1 DEF Adds
      <3>2. CASE a \in d[t].names
        <4>. DEFINE x == [at |-> <<t, d[t].seq>>, id |-> a.id]
        <4>1. a.id \in Nat /\ a.id < d[t].next
          BY <1>3, <3>2 DEF Consistent, WellFormed, RecordSound
        <4>2. x \in Entry /\ Issued(d, x)
          BY <1>3, <4>1 DEF Entry, Refs, Issued
        <4>3. N[x] = a.name
          BY <3>2 DEF Consistent, Named
        <4>. HIDE DEF x
        <4>4. M[x] = a.name
          BY <1>5, <4>2, <4>3
        <4>. QED BY <3>1, <4>4 DEF x
      <3>3. CASE t = s /\ a = New(d, s, n)
        <4>1. a.id = d[s].next /\ a.name = n
          BY <3>3 DEF New
        <4>2. [at |-> <<t, e[t].seq>>, id |-> a.id] = fresh
          BY <3>1, <3>3, <4>1 DEF fresh
        <4>. QED BY <1>6, <4>1, <4>2
      <3>. QED BY <3>1, <3>2, <3>3
    <2>. QED BY <2>1 DEF Named
  <1>9. \A o \in Refs : h[o] \subseteq g[o] /\ LinksOf(e, o) \in g[o]
    OBVIOUS
  <1>10. Consistent(e, g, M)
    BY <1>8, <1>9 DEF Consistent, Evolves
  <1>11. Grows(d, h, N, e, g, M)
    BY <1>5, <1>7, <1>9 DEF Grows, Evolves
  <1>. QED BY <1>10, <1>11

\* A deferred object: its record if it was kept, and no link for its slot's
\* other objects.
Deferred(d, h, N, t) ==
  /\ t.rec # NoRec => Snapshot(d, h, N, t.ref[1], t.rec) /\ t.rec.seq = t.ref[2]
  /\ \A q \in 1 .. MaxSeq : q # t.ref[2] => {} \in h[<<t.ref[1], q>>]

\* The object being resolved: the entries of its list are one set of links it
\* had, and the names found so far are theirs.
Working(d, h, N, o, w) ==
  /\ w.at \in {"list", "names"} =>
       w.rec \in FileRecord /\ Snapshot(d, h, N, o[1], w.rec) /\ w.rec.seq = o[2]
  /\ w.at = "list" => w.names = {}
  /\ w.at = "names" => /\ w.left \subseteq w.ids /\ \A x \in w.ids : Issued(d, x)
                       /\ Image(N, w.ids) \in h[o] /\ w.names = Image(N, w.ids \ w.left)

\* Everything the scan remembers of the records was true.
Remembers(d, h, N) ==
  /\ \A i \in DOMAIN full : full[i].slot # 0 => Snapshot(d, h, N, full[i].slot, full[i].rec)
  /\ \A s \in Slot : cache[s] # NoRec => Snapshot(d, h, N, s, cache[s])
  /\ \A i \in DOMAIN todo : Deferred(d, h, N, todo[i])
  /\ work.at # "idle" => Working(d, h, N, Object, work)

Pending(s) == \E i \in DOMAIN todo : todo[i].ref[1] = s

RowsOf(o) == {r[2] : r \in {x \in rows : x[1] = o}}

\* The index so far: links only of the records that are done, and of every
\* object of those a set it had.
IndexInv ==
  /\ \A x \in rows : x[1][1] <= got /\ ~Pending(x[1][1])
  /\ ~err => \A o \in Refs : o[1] <= got /\ ~Pending(o[1]) => RowsOf(o) \in held[o]

LinkInv == IndexInv /\ \E N : Consistent(disk, held, N) /\ Remembers(disk, held, N)

\* The initial states satisfy LinkInv: the name of an attribute is the one it has.
LEMMA InitLinks ==
  ASSUME Init
  PROVE  LinkInv
  <1>1. ControlInv /\ WellFormed(disk) /\ disk \in [Slot -> FileRecord]
    BY InitControl DEF ControlInv, Types, WellFormed
  <1>2. full = <<>> /\ todo = <<>> /\ rows = {} /\ got = 0 /\ work.at = "idle"
        /\ cache = [s \in Slot |-> NoRec] /\ held = [o \in Refs |-> {LinksOf(disk, o)}]
    BY DEF Init, NoWork
  <1>. DEFINE N == [x \in Entry |-> CHOOSE n : \E a \in disk[x.at[1]].names : a.id = x.id /\ a.name = n]
  <1>3. ASSUME NEW s \in Slot
        PROVE  Named(N, s, disk[s])
    <2>1. ASSUME NEW a \in disk[s].names
          PROVE  N[[at |-> <<s, disk[s].seq>>, id |-> a.id]] = a.name
      <3>. DEFINE x == [at |-> <<s, disk[s].seq>>, id |-> a.id]
      <3>1. x \in Entry
        BY <1>1, RecordFields DEF Entry, Refs
      <3>2. \A b \in disk[s].names : b.id = a.id => b = a
        BY <1>1 DEF WellFormed, RecordSound
      <3>3. N[x] = CHOOSE n : \E b \in disk[s].names : b.id = a.id /\ b.name = n
        BY <3>1
      <3>4. \A n : (\E b \in disk[s].names : b.id = a.id /\ b.name = n) <=> n = a.name
        BY <3>2
      <3>5. (CHOOSE n : \E b \in disk[s].names : b.id = a.id /\ b.name = n) = a.name
        BY <3>4
      <3>. QED BY <3>3, <3>5
    <2>. QED BY <2>1 DEF Named
  <1>. HIDE DEF N
  <1>4. Consistent(disk, held, N)
    BY <1>1, <1>2, <1>3 DEF Consistent
  <1>5. Remembers(disk, held, N)
    BY <1>2 DEF Remembers
  <1>6. IndexInv
    <2>1. \A o \in Refs : ~(o[1] <= got)
      BY <1>2, ScanAssumption DEF Refs, Slot
    <2>. QED BY <1>2, <2>1 DEF IndexInv
  <1>. QED BY <1>4, <1>5, <1>6 DEF LinkInv

\* What is remembered stays true when the file system moves on.
LEMMA ChangeKeepsLinks ==
  ASSUME ControlInv, LinkInv, FileSystem
  PROVE  LinkInv'
  <1>1. /\ WellFormed(disk) /\ Evolves(disk, disk')
        /\ held' = [o \in Refs |-> held[o] \cup {LinksOf(disk', o)}]
        /\ UNCHANGED <<full, got, err, rows, cache, todo, work>>
    BY FileSystemSteps DEF ControlInv, Types, pipeVars, buildVars
  <1>2. PICK N : Consistent(disk, held, N) /\ Remembers(disk, held, N)
    BY DEF LinkInv
  <1>3. PICK M : Consistent(disk', held', M) /\ Grows(disk, held, N, disk', held', M)
    BY <1>1, <1>2, EvolutionIsConsistent
  <1>4. disk \in [Slot -> FileRecord] /\ disk' \in [Slot -> FileRecord]
    BY <1>1 DEF WellFormed, Evolves
  <1>5. \A s \in Slot, r \in FileRecord : Snapshot(disk, held, N, s, r) => Snapshot(disk', held', M, s, r)
    BY <1>3, <1>4, SnapshotStays
  <1>6. \A o \in Refs : held[o] \subseteq held'[o]
    BY <1>3 DEF Grows
  <1>7. /\ full \in Seq(Chunk) /\ cache \in [Slot -> Kinds] /\ todo \in Seq(Item) /\ work \in Resolution
        /\ PipeInv /\ StageInv
    BY DEF ControlInv, Types
  <1>8. \A i \in DOMAIN full : full[i].slot # 0 => full[i].slot \in Slot /\ full[i].rec \in FileRecord
    <2>1. \A i \in DOMAIN full : full[i] \in Chunk
      BY <1>7
    <2>2. \A i \in DOMAIN full : full[i].slot \in 0 .. Slots
      BY <2>1 DEF Chunk
    <2>. QED BY <1>7, <2>2, ScanAssumption DEF PipeInv, Slot
  <1>9. \A i \in DOMAIN full : full[i].slot # 0 => Snapshot(disk', held', M, full[i].slot, full[i].rec)
    BY <1>2, <1>5, <1>8 DEF Remembers
  <1>10. \A s \in Slot : cache[s] # NoRec => Snapshot(disk', held', M, s, cache[s])
    BY <1>2, <1>5, <1>7 DEF Remembers, Kinds
  <1>11. ASSUME NEW t \in Item, Deferred(disk, held, N, t)
         PROVE  Deferred(disk', held', M, t)
    <2>1. t.ref[1] \in Slot /\ t.rec \in Kinds /\ \A q \in 1 .. MaxSeq : <<t.ref[1], q>> \in Refs
      BY DEF Item, Refs
    <2>2. t.rec # NoRec => Snapshot(disk', held', M, t.ref[1], t.rec) /\ t.rec.seq = t.ref[2]
      BY <1>5, <1>11, <2>1 DEF Deferred, Kinds
    <2>3. \A q \in 1 .. MaxSeq : q # t.ref[2] => {} \in held'[<<t.ref[1], q>>]
      BY <1>6, <1>11, <2>1 DEF Deferred
    <2>. QED BY <2>2, <2>3 DEF Deferred
  <1>12. \A i \in DOMAIN todo : Deferred(disk', held', M, todo[i])
    BY <1>2, <1>7, <1>11 DEF Remembers
  <1>13. ASSUME work.at # "idle"
         PROVE  Working(disk', held', M, Object, work)
    <2>1. Working(disk, held, N, Object, work)
      BY <1>2, <1>13 DEF Remembers
    <2>2. Object \in Refs /\ Object[1] \in Slot
      <3>1. todo # <<>>
        BY <1>7, <1>13 DEF StageInv
      <3>2. Head(todo) \in Item
        BY <1>7, <3>1
      <3>. QED BY <3>2 DEF Item, Object, Refs
    <2>3. work.at \in {"list", "names"} =>
            work.rec \in FileRecord /\ Snapshot(disk', held', M, Object[1], work.rec) /\ work.rec.seq = Object[2]
      BY <1>5, <2>1, <2>2 DEF Working
    <2>4. ASSUME work.at = "names"
          PROVE  /\ \A x \in work.ids : Issued(disk', x)
                 /\ Image(M, work.ids) \in held'[Object] /\ work.names = Image(M, work.ids \ work.left)
      <3>1. /\ work.left \subseteq work.ids /\ work.ids \subseteq Entry /\ \A x \in work.ids : Issued(disk, x)
            /\ Image(N, work.ids) \in held[Object] /\ work.names = Image(N, work.ids \ work.left)
        BY <1>7, <2>1, <2>4 DEF Working, Resolution
      <3>2. \A x \in work.ids : Issued(disk', x) /\ M[x] = N[x]
        BY <1>3, <3>1 DEF Grows
      <3>3. Image(M, work.ids) = Image(N, work.ids) /\ Image(M, work.ids \ work.left) = Image(N, work.ids \ work.left)
        BY <3>2 DEF Image
      <3>. QED BY <1>6, <2>2, <3>1, <3>2, <3>3
    <2>. QED BY <2>1, <2>3, <2>4 DEF Working
  <1>14. Remembers(disk, held, M)'
    <2>1. Object' = Object
      BY <1>1 DEF Object
    <2>. QED BY <1>1, <1>9, <1>10, <1>12, <1>13, <2>1 DEF Remembers
  <1>15. IndexInv'
    <2>1. \A s : Pending(s)' <=> Pending(s)
      BY <1>1 DEF Pending
    <2>2. \A o : RowsOf(o)' = RowsOf(o)
      BY <1>1 DEF RowsOf
    <2>. QED BY <1>1, <1>6, <2>1, <2>2 DEF IndexInv, LinkInv
  <1>. QED BY <1>3, <1>14, <1>15 DEF LinkInv

\* A record parsed: its links are in the index, or its object is deferred.
LEMMA ParseKeepsLinks ==
  ASSUME ControlInv, NEW N, Remembers(disk, held, N), IndexInv,
         NEW s \in Slot, s = got + 1, NEW r \in FileRecord, Snapshot(disk, held, N, s, r),
         TakeRecord(s, r), got' = s, held' = held
  PROVE  /\ IndexInv'
         /\ \A t \in Slot : cache'[t] # NoRec => Snapshot(disk, held, N, t, cache'[t])
         /\ \A i \in DOMAIN todo' : Deferred(disk, held, N, todo'[i])
  <1>1. /\ todo \in Seq(Item) /\ cache \in [Slot -> Kinds] /\ got \in Nat /\ OrderInv /\ rows \subseteq Refs \X Names
        /\ err \in BOOLEAN
    BY ScanAssumption DEF ControlInv, Types
  <1>2. r.used \in BOOLEAN /\ r.seq \in 1 .. MaxSeq /\ r # NoRec
    BY RecordFields
  <1>3. /\ \A t \in Slot : cache[t] # NoRec => Snapshot(disk, held, N, t, cache[t])
        /\ \A i \in DOMAIN todo : Deferred(disk, held, N, todo[i])
    BY DEF Remembers
  <1>4. \A i \in DOMAIN todo : todo[i].ref[1] \in Nat /\ todo[i].ref[1] <= got
    <2>1. \A i \in DOMAIN todo : todo[i] \in Item
      BY <1>1
    <2>. QED BY <1>1, <2>1, ScanAssumption DEF Item, Refs, Slot, OrderInv
  <1>5. ~Pending(s)
    BY <1>1, <1>4 DEF Pending
  <1>6. \A x \in rows : x[1][1] \in Nat /\ x[1][1] <= got /\ x[1][1] # s /\ x[1][1] <= s /\ ~Pending(x[1][1])
    <2>1. \A x \in rows : x[1][1] \in Nat
      BY <1>1, ScanAssumption DEF Refs, Slot
    <2>. QED BY <1>1, <2>1 DEF IndexInv
  <1>7. \A q : RowsOf(<<s, q>>) = {}
    BY <1>6 DEF RowsOf
  <1>8. \A o \in Refs : o[1] \in Nat /\ (o[1] <= s => o[1] <= got \/ o[1] = s)
    BY <1>1, ScanAssumption DEF Refs, Slot
  <1>9. \A o \in Refs : o = <<o[1], o[2]>> /\ o[2] \in 1 .. MaxSeq
    BY DEF Refs
  <1>10. \A q \in 1 .. MaxSeq : (q = r.seq /\ r.used /\ r.base = None) \/ {} \in held[<<s, q>>]
    BY DEF Snapshot
  <1>11. ASSUME rows' = rows, todo' = todo,
                err' = TRUE \/ (err' = err /\ \A q \in 1 .. MaxSeq : {} \in held[<<s, q>>])
         PROVE  IndexInv'
    <2>1. (\A t : Pending(t)' <=> Pending(t)) /\ \A o : RowsOf(o)' = RowsOf(o)
      BY <1>11 DEF Pending, RowsOf
    <2>2. \A x \in rows' : x[1][1] <= got' /\ ~Pending(x[1][1])'
      BY <1>6, <1>11, <2>1
    <2>3. CASE err' = TRUE
      BY <2>2, <2>3 DEF IndexInv
    <2>4. CASE err' = err /\ \A q \in 1 .. MaxSeq : {} \in held[<<s, q>>]
      <3>1. ASSUME ~err, NEW o \in Refs, o[1] <= s, ~Pending(o[1])
            PROVE  RowsOf(o) \in held[o]
        <4>1. CASE o[1] <= got
          BY <3>1, <4>1 DEF IndexInv
        <4>2. CASE o[1] = s
          <5>1. o = <<s, o[2]>> /\ o[2] \in 1 .. MaxSeq
            BY <1>9, <4>2
          <5>2. RowsOf(o) = {} /\ {} \in held[o]
            BY <1>7, <2>4, <5>1
          <5>. QED BY <5>2
        <4>. QED BY <1>8, <3>1, <4>1, <4>2
      <3>. QED BY <2>1, <2>2, <2>4, <3>1 DEF IndexInv
    <2>. QED BY <1>11, <2>3, <2>4
  <1>12. CASE err' = TRUE /\ UNCHANGED buildVars
    <2>1. rows' = rows /\ cache' = cache /\ todo' = todo
      BY <1>12 DEF buildVars
    <2>. QED BY <1>3, <1>11, <1>12, <2>1
  <1>13. CASE ~r.used /\ UNCHANGED buildVars /\ err' = err
    <2>1. rows' = rows /\ cache' = cache /\ todo' = todo
      BY <1>13 DEF buildVars
    <2>2. \A q \in 1 .. MaxSeq : {} \in held[<<s, q>>]
      BY <1>10, <1>13
    <2>. QED BY <1>3, <1>11, <1>13, <2>1, <2>2
  <1>14. CASE /\ r.used /\ r.base # None /\ err' = err /\ UNCHANGED <<rows, todo>>
              /\ cache' = cache \/ cache' = [cache EXCEPT ![s] = r]
    <2>1. \A t \in Slot : cache'[t] # NoRec => Snapshot(disk, held, N, t, cache'[t])
      BY <1>1, <1>3, <1>14
    <2>2. \A q \in 1 .. MaxSeq : {} \in held[<<s, q>>]
      BY <1>10, <1>14
    <2>. QED BY <1>3, <1>11, <1>14, <2>1, <2>2
  <1>15. ASSUME r.used, r.base = None, r.list # "none", UNCHANGED <<rows, cache, err>>,
                NEW x \in Item, todo' = Append(todo, x), x.ref = <<s, r.seq>>, x.rec = r \/ x.rec = NoRec
         PROVE  /\ IndexInv'
                /\ \A t \in Slot : cache'[t] # NoRec => Snapshot(disk, held, N, t, cache'[t])
                /\ \A i \in DOMAIN todo' : Deferred(disk, held, N, todo'[i])
    <2>1. /\ Len(todo) \in Nat /\ DOMAIN todo = 1 .. Len(todo) /\ DOMAIN todo' = 1 .. Len(todo) + 1
          /\ todo'[Len(todo) + 1] = x /\ \A i \in 1 .. Len(todo) : todo'[i] = todo[i]
      BY <1>1, <1>15
    <2>2. \A i \in 1 .. Len(todo) + 1 : i = Len(todo) + 1 \/ i \in 1 .. Len(todo)
      BY <2>1
    <2>3. \A t : Pending(t)' <=> Pending(t) \/ t = s
      <3>1. x.ref[1] = s
        BY <1>15
      <3>2. 1 .. Len(todo) \subseteq 1 .. Len(todo) + 1 /\ Len(todo) + 1 \in 1 .. Len(todo) + 1
        BY <2>1
      <3>3. ASSUME NEW t
            PROVE  Pending(t)' <=> Pending(t) \/ t = s
        <4>1. ASSUME NEW i \in DOMAIN todo', todo'[i].ref[1] = t
              PROVE  Pending(t) \/ t = s
          BY <2>1, <2>2, <3>1, <4>1 DEF Pending
        <4>2. ASSUME Pending(t) \/ t = s
              PROVE  \E i \in DOMAIN todo' : todo'[i].ref[1] = t
          BY <2>1, <3>1, <3>2, <4>2 DEF Pending
        <4>. QED BY <4>1, <4>2 DEF Pending
      <3>. QED BY <3>3
    <2>4. Deferred(disk, held, N, x)
      BY <1>10, <1>15 DEF Deferred
    <2>5. \A i \in DOMAIN todo' : Deferred(disk, held, N, todo'[i])
      BY <1>3, <2>1, <2>2, <2>4
    <2>6. \A o : RowsOf(o)' = RowsOf(o)
      BY <1>15 DEF RowsOf
    <2>7. \A y \in rows' : y[1][1] <= got' /\ ~Pending(y[1][1])'
      BY <1>6, <1>15, <2>3
    <2>8. ASSUME ~err, NEW o \in Refs, o[1] <= s, ~Pending(o[1]), o[1] # s
          PROVE  RowsOf(o) \in held[o]
      BY <1>8, <2>8 DEF IndexInv
    <2>9. IndexInv'
      BY <1>15, <2>3, <2>6, <2>7, <2>8 DEF IndexInv
    <2>. QED BY <1>3, <1>15, <2>5, <2>9
  <1>16. CASE /\ r.used /\ r.base = None /\ r.list = "none" /\ UNCHANGED <<cache, todo, err>>
              /\ rows' = rows \cup Rows(<<s, r.seq>>, {a.name : a \in r.names})
    <2>. DEFINE ns == {a.name : a \in r.names}
    <2>0. ns \in held[<<s, r.seq>>]
      BY <1>16 DEF Snapshot
    <2>. HIDE DEF ns
    <2>1. \A t : Pending(t)' <=> Pending(t)
      BY <1>16 DEF Pending
    <2>2. rows' = rows \cup {<<<<s, r.seq>>, n>> : n \in ns}
      BY <1>16 DEF Rows, ns
    <2>3. \A x \in rows' : x \in rows \/ x[1][1] = s
      BY <2>2
    <2>4. \A x \in rows' : x[1][1] <= got' /\ ~Pending(x[1][1])'
      BY <1>1, <1>5, <1>6, <2>1, <2>3
    <2>5. \A o : o # <<s, r.seq>> => RowsOf(o)' = RowsOf(o)
      BY <2>2 DEF RowsOf
    <2>6. RowsOf(<<s, r.seq>>)' = ns
      <3>1. \A x \in rows : x[1] # <<s, r.seq>>
        BY <1>6
      <3>2. {x \in rows' : x[1] = <<s, r.seq>>} = {<<<<s, r.seq>>, n>> : n \in ns}
        BY <2>2, <3>1
      <3>3. \A o, n : <<o, n>>[2] = n
        OBVIOUS
      <3>. DEFINE X == {x \in rows' : x[1] = <<s, r.seq>>}
      <3>4. \A n \in ns : <<<<s, r.seq>>, n>> \in X
        BY <3>2
      <3>5. \A x \in X : \E n \in ns : x = <<<<s, r.seq>>, n>>
        BY <3>2
      <3>. HIDE DEF X
      <3>6. \A x \in X : x[2] \in ns
        BY <3>3, <3>5
      <3>7. \A n \in ns : \E x \in X : n = x[2]
        BY <3>3, <3>4
      <3>8. {x[2] : x \in X} = ns
        BY <3>6, <3>7
      <3>. QED BY <3>8 DEF RowsOf, X
    <2>7. ASSUME ~err, NEW o \in Refs, o[1] <= s, ~Pending(o[1])
          PROVE  RowsOf(o)' \in held[o]
      <3>1. CASE o[1] <= got
        <4>1. o # <<s, r.seq>>
          BY <1>1, <3>1
        <4>. QED BY <2>5, <2>7, <3>1, <4>1 DEF IndexInv
      <3>2. CASE o = <<s, r.seq>>
        BY <2>0, <2>6, <3>2
      <3>3. CASE o[1] = s /\ o # <<s, r.seq>>
        <4>1. o[2] # r.seq /\ o = <<s, o[2]>> /\ o[2] \in 1 .. MaxSeq
          BY <1>9, <3>3
        <4>2. {} \in held[o]
          BY <1>10, <4>1
        <4>. QED BY <1>7, <2>5, <3>3, <4>1, <4>2
      <3>. QED BY <1>8, <2>7, <3>1, <3>2, <3>3
    <2>8. IndexInv'
      BY <1>16, <2>1, <2>4, <2>7 DEF IndexInv
    <2>. QED BY <1>3, <1>16, <2>8
  <1>17. CASE Parse(s, r) /\ UNCHANGED <<err, fault>>
    <2>1. CASE ~r.used
      BY <1>13, <1>17, <2>1 DEF Parse
    <2>2. CASE r.used /\ r.base # None
      BY <1>14, <1>17, <2>2 DEF Parse
    <2>3. CASE r.used /\ r.base = None /\ r.list # "none"
      <3>. DEFINE x == [ref |-> <<s, r.seq>>, rec |-> IF Fits THEN r ELSE NoRec]
      <3>1. todo' = Append(todo, x) /\ UNCHANGED <<rows, cache, err>>
        BY <1>17, <2>3 DEF Parse, Defer
      <3>2. x \in Item /\ x.ref = <<s, r.seq>> /\ (x.rec = r \/ x.rec = NoRec)
        BY <1>2 DEF Item, Kinds, Refs
      <3>. HIDE DEF x
      <3>. QED BY <1>15, <2>3, <3>1, <3>2
    <2>4. CASE r.used /\ r.base = None /\ r.list = "none"
      BY <1>16, <1>17, <2>4 DEF Parse
    <2>. QED BY <1>2, <2>1, <2>2, <2>3, <2>4
  <1>. QED BY <1>12, <1>17 DEF TakeRecord

\* What a step with a deferred object finds out about it is true.
LEMMA ResolvesTruly ==
  ASSUME ControlInv, NEW N, Consistent(disk, held, N), Remembers(disk, held, N), Resolves
  PROVE  \/ Quit \/ Fail
         \/ \E w : Next1(w) /\ Working(disk, held, N, Object, w)
         \/ \E names \in held[Object] : Done(names)
  <1>1. /\ todo \in Seq(Item) /\ todo # <<>> /\ cache \in [Slot -> Kinds] /\ disk \in [Slot -> FileRecord]
        /\ work \in Resolution
    <2>1. todo # <<>>
      BY ResolvesMoves DEF ControlInv
    <2>. QED BY <2>1 DEF ControlInv, Types, WellFormed
  <1>2. /\ Head(todo) \in Item /\ Object \in Refs /\ Object[1] \in Slot /\ Object = <<Object[1], Object[2]>>
        /\ Deferred(disk, held, N, Head(todo))
    <2>1. Head(todo) \in Item /\ Head(todo) = todo[1] /\ 1 \in DOMAIN todo
      BY <1>1
    <2>. QED BY <2>1 DEF Item, Object, Refs, Remembers
  <1>3. /\ work.at \in {"idle", "unread", "list", "names", "live"}
        /\ work.left \subseteq Entry /\ work.ids \subseteq Entry
    BY <1>1 DEF Resolution
  <1>4. LinksOf(disk, Object) \in held[Object]
    BY <1>2 DEF Consistent
  <1>5. ASSUME NEW w, w.at \in {"unread", "live"}
        PROVE  Working(disk, held, N, Object, w)
    BY <1>5 DEF Working
  <1>6. Working(disk, held, N, Object, [work EXCEPT !.at = "live"])
    <2>. DEFINE w == [work EXCEPT !.at = "live"]
    <2>1. w.at = "live"
      BY <1>1 DEF Resolution
    <2>. HIDE DEF w
    <2>2. Working(disk, held, N, Object, w)
      BY <1>5, <2>1
    <2>. QED BY <2>2 DEF w
  <1>6a. Working(disk, held, N, Object, [NoWork EXCEPT !.at = "unread"])
    <2>. DEFINE w == [NoWork EXCEPT !.at = "unread"]
    <2>1. w.at = "unread"
      BY DEF NoWork
    <2>. HIDE DEF w
    <2>2. Working(disk, held, N, Object, w)
      BY <1>5, <2>1
    <2>. QED BY <2>2 DEF w
  <1>7. work.at # "idle" => Working(disk, held, N, Object, work)
    BY DEF Remembers
  <1>8. CASE TakeBase
    <2>. DEFINE r == IF Head(todo).rec # NoRec THEN Head(todo).rec ELSE disk[Object[1]]
                w == [NoWork EXCEPT !.at = "list", !.rec = r]
    <2>1. r \in FileRecord /\ Snapshot(disk, held, N, Object[1], r)
      <3>1. CASE Head(todo).rec # NoRec
        BY <1>2, <3>1 DEF Item, Kinds, Deferred, Object
      <3>2. CASE Head(todo).rec = NoRec
        BY <1>2, <3>2, ReadIsSnapshot
      <3>. QED BY <3>1, <3>2
    <2>. HIDE DEF r
    <2>2. w.at = "list" /\ w.rec = r /\ w.names = {}
      BY DEF NoWork
    <2>. HIDE DEF w
    <2>3. r.seq = Object[2] => Working(disk, held, N, Object, w)
      BY <2>1, <2>2 DEF Working
    <2>4. Quit \/ Fail \/ (r.seq = Object[2] /\ Next1(w)) \/ Next1([NoWork EXCEPT !.at = "unread"])
      BY <1>8 DEF TakeBase, r, w
    <2>. QED BY <1>6a, <2>3, <2>4
  <1>9. CASE Unread
    <2>1. Quit \/ Fail \/ (~Exists(disk, Object) /\ Done({}))
      BY <1>9 DEF Unread
    <2>2. ~Exists(disk, Object) => {} \in held[Object]
      BY <1>4 DEF LinksOf
    <2>. QED BY <2>1, <2>2
  <1>10. CASE TakeList
    <2>1. /\ work.rec \in FileRecord /\ Snapshot(disk, held, N, Object[1], work.rec)
          /\ work.rec.seq = Object[2] /\ work.names = {}
      BY <1>7, <1>10 DEF Working, TakeList, Resolving
    <2>2. ASSUME NEW ids, \A x \in ids : Issued(disk, x), Image(N, ids) \in held[Object]
          PROVE  Working(disk, held, N, Object, [work EXCEPT !.at = "names", !.left = ids, !.ids = ids])
      <3>. DEFINE w == [work EXCEPT !.at = "names", !.left = ids, !.ids = ids]
      <3>1. w.at = "names" /\ w.left = ids /\ w.ids = ids /\ w.names = {} /\ w.rec = work.rec
        BY <1>1, <2>1 DEF Resolution
      <3>. HIDE DEF w
      <3>2. Image(N, w.ids \ w.left) = {}
        BY <3>1 DEF Image
      <3>3. Working(disk, held, N, Object, w)
        BY <2>1, <2>2, <3>1, <3>2 DEF Working
      <3>. QED BY <3>3 DEF w
    <2>3. work.rec.list = "resident" =>
            (\A x \in work.rec.entries : Issued(disk, x)) /\ Image(N, work.rec.entries) \in held[Object]
      BY <1>2, <2>1 DEF Snapshot
    <2>4. Exists(disk, Object) =>
            (\A x \in Entries(disk, Object) : Issued(disk, x)) /\ Image(N, Entries(disk, Object)) \in held[Object]
      BY <1>2, <1>4, ImageOfEntries DEF LinksOf
    <2>. DEFINE w(ids) == [work EXCEPT !.at = "names", !.left = ids, !.ids = ids]
    <2>5. \/ Quit
          \/ Next1([work EXCEPT !.at = "live"])
          \/ work.rec.list = "resident" /\ Next1(w(work.rec.entries))
          \/ Exists(disk, Object) /\ Next1(w(Entries(disk, Object)))
      BY <1>10 DEF TakeList
    <2>6. work.rec.list = "resident" => Working(disk, held, N, Object, w(work.rec.entries))
      BY <2>2, <2>3
    <2>7. Exists(disk, Object) => Working(disk, held, N, Object, w(Entries(disk, Object)))
      BY <2>2, <2>4
    <2>8. Working(disk, held, N, Object, [work EXCEPT !.at = "live"])
      BY <1>6
    <2>. HIDE DEF w
    <2>. QED BY <2>5, <2>6, <2>7, <2>8
  <1>11. CASE TakeName
    <2>1. /\ work.at = "names" /\ work.rec \in FileRecord /\ Snapshot(disk, held, N, Object[1], work.rec)
          /\ work.rec.seq = Object[2] /\ work.left \subseteq work.ids /\ \A x \in work.ids : Issued(disk, x)
          /\ Image(N, work.ids) \in held[Object] /\ work.names = Image(N, work.ids \ work.left)
      BY <1>7, <1>11 DEF Working, TakeName, Resolving
    <2>2. ASSUME NEW x \in work.left, NamesOf(x) # {}
          PROVE  NamesOf(x) = {N[x]}
      <3>1. x \in Entry /\ x.at \in Refs /\ x.at[1] \in Slot /\ x.at = <<x.at[1], x.at[2]>>
            /\ x = [at |-> x.at, id |-> x.id]
        BY <1>3 DEF Entry, Refs
      <3>2. ASSUME NEW r, Named(N, x.at[1], r), r.seq = x.at[2], NEW a \in r.names, a.id = x.id
            PROVE  a.name = N[x]
        <4>1. [at |-> <<x.at[1], r.seq>>, id |-> a.id] = x
          BY <3>1, <3>2
        <4>. QED BY <3>2, <4>1 DEF Named
      <3>. DEFINE r == IF x.at = Object THEN work.rec
                       ELSE IF cache[x.at[1]] # NoRec THEN cache[x.at[1]] ELSE disk[x.at[1]]
      <3>3. Named(N, x.at[1], r)
        <4>1. CASE x.at = Object
          BY <2>1, <4>1 DEF Snapshot
        <4>2. CASE x.at # Object /\ cache[x.at[1]] # NoRec
          BY <3>1, <4>2 DEF Remembers, Snapshot
        <4>3. CASE x.at # Object /\ cache[x.at[1]] = NoRec
          BY <3>1, <4>3 DEF Consistent
        <4>. QED BY <4>1, <4>2, <4>3
      <3>4. NamesOf(x) = IF x.at = Object \/ Belongs(r, x)
                         THEN {a.name : a \in {y \in r.names : y.id = x.id}} ELSE {}
        BY DEF NamesOf
      <3>5. r.seq = x.at[2]
        <4>1. x.at = Object \/ Belongs(r, x)
          BY <2>2, <3>4
        <4>2. x.at = Object => r = work.rec
          OBVIOUS
        <4>. QED BY <2>1, <4>1, <4>2 DEF Belongs
      <3>. HIDE DEF r
      <3>6. \A a \in r.names : a.id = x.id => a.name = N[x]
        BY <3>2, <3>3, <3>5
      <3>. QED BY <2>2, <3>4, <3>6
    <2>3. ASSUME NEW x \in work.left, NamesOf(x) # {}
          PROVE  Working(disk, held, N, Object, [work EXCEPT !.left = @ \ {x}, !.names = @ \cup NamesOf(x)])
      <3>. DEFINE left == work.left \ {x}
                  names == work.names \cup NamesOf(x)
                  w == [work EXCEPT !.left = left, !.names = names]
      <3>1. names = Image(N, work.ids \ left)
        <4>1. work.ids \ left = (work.ids \ work.left) \cup {x}
          BY <2>1
        <4>. QED BY <2>1, <2>2, <2>3, <4>1 DEF Image
      <3>2. left \subseteq work.ids
        BY <2>1
      <3>. HIDE DEF left, names
      <3>3. w.at = "names" /\ w.rec = work.rec /\ w.ids = work.ids /\ w.left = left /\ w.names = names
        BY <1>1, <2>1 DEF Resolution
      <3>. HIDE DEF w
      <3>4. Working(disk, held, N, Object, w)
        BY <2>1, <3>1, <3>2, <3>3 DEF Working
      <3>. QED BY <3>4 DEF w, left, names
    <2>4. \/ Quit \/ Next1([work EXCEPT !.at = "live"])
          \/ \E x \in work.left : NamesOf(x) # {}
               /\ Next1([work EXCEPT !.left = @ \ {x}, !.names = @ \cup NamesOf(x)])
      BY <1>11 DEF TakeName
    <2>5. Working(disk, held, N, Object, [work EXCEPT !.at = "live"])
      BY <1>6
    <2>. QED BY <2>3, <2>4, <2>5
  <1>12. CASE TakeNames
    <2>1. /\ work.at = "names" /\ work.left = {}
          /\ Quit \/ Next1([work EXCEPT !.at = "live"]) \/ Done(work.names)
      BY <1>12 DEF TakeNames, Resolving
    <2>2. Image(N, work.ids) \in held[Object] /\ work.names = Image(N, work.ids \ work.left)
      BY <1>7, <2>1 DEF Working
    <2>3. work.names \in held[Object]
      <3>1. work.ids \ work.left = work.ids
        BY <2>1
      <3>. QED BY <2>2, <3>1
    <2>4. Working(disk, held, N, Object, [work EXCEPT !.at = "live"])
      BY <1>6
    <2>. QED BY <2>1, <2>3, <2>4
  <1>13. CASE AskLive
    <2>1. Quit \/ Fail \/ Done(LinksOf(disk, Object))
      BY <1>13 DEF AskLive
    <2>. QED BY <1>4, <2>1
  <1>. QED BY <1>8, <1>9, <1>10, <1>11, <1>12, <1>13 DEF Resolves

\* The object in work is done: one of its sets of links is in the index.
LEMMA DoneKeepsIndex ==
  ASSUME ControlInv, IndexInv, todo # <<>>, NEW N, Deferred(disk, held, N, Head(todo)),
         NEW names \in held[Object], Done(names), UNCHANGED <<held, got, err>>
  PROVE  IndexInv'
  <1>1. /\ todo \in Seq(Item) /\ OrderInv /\ rows \subseteq Refs \X Names
        /\ rows' = rows \cup Rows(Object, names) /\ todo' = Tail(todo)
    BY DEF ControlInv, Types, Done
  <1>2. /\ Len(todo) \in Nat \ {0} /\ DOMAIN todo = 1 .. Len(todo) /\ DOMAIN todo' = 1 .. Len(todo) - 1
        /\ \A i \in DOMAIN todo' : todo'[i] = todo[i + 1] /\ i + 1 \in DOMAIN todo /\ 1 < i + 1
        /\ \A i \in DOMAIN todo : i = 1 \/ (i - 1 \in DOMAIN todo' /\ todo'[i - 1] = todo[i])
        /\ Head(todo) = todo[1] /\ 1 \in DOMAIN todo /\ todo[1] \in Item
    BY <1>1
  <1>2a. PICK ob : ob = Object
    OBVIOUS
  <1>. DEFINE s == ob[1]
  <1>3. ob = todo[1].ref /\ ob \in Refs /\ s \in Nat /\ names \in held[ob] /\ Deferred(disk, held, N, todo[1])
    BY <1>2, <1>2a, ScanAssumption DEF Object, Item, Refs, Slot
  <1>4. \A t : Pending(t) <=> (t = s \/ Pending(t)')
    <2>1. ASSUME NEW t, NEW i \in DOMAIN todo, todo[i].ref[1] = t
          PROVE  t = s \/ Pending(t)'
      BY <1>2, <1>3, <2>1 DEF Pending
    <2>2. ASSUME NEW t, NEW i \in DOMAIN todo', todo'[i].ref[1] = t
          PROVE  Pending(t)
      BY <1>2, <2>2 DEF Pending
    <2>3. Pending(s)
      BY <1>2, <1>3 DEF Pending
    <2>. QED BY <2>1, <2>2, <2>3 DEF Pending
  <1>5. ~Pending(s)'
    <2>1. \A i \in DOMAIN todo' : todo[1].ref[1] < todo'[i].ref[1]
      BY <1>1, <1>2 DEF OrderInv
    <2>2. \A i \in DOMAIN todo' : todo'[i].ref[1] # s
      BY <1>3, <2>1
    <2>. QED BY <2>2 DEF Pending
  <1>6. s <= got
    BY <1>1, <1>2, <1>3 DEF OrderInv
  <1>7. \A x \in rows : x[1][1] <= got /\ ~Pending(x[1][1]) /\ x[1][1] # s
    BY <1>4 DEF IndexInv
  <1>8. rows' = rows \cup {<<ob, n>> : n \in names}
    BY <1>1, <1>2a DEF Rows
  <1>9. \A x \in rows' : x \in rows \/ x[1] = ob
    BY <1>8
  <1>10. \A x \in rows' : x[1][1] <= got /\ ~Pending(x[1][1])'
    BY <1>4, <1>5, <1>6, <1>7, <1>9
  <1>11. \A o : o # ob => RowsOf(o)' = RowsOf(o)
    BY <1>8 DEF RowsOf
  <1>12. RowsOf(ob)' = names
    <2>1. \A x \in rows : x[1] # ob
      BY <1>7
    <2>2. \A o, n : <<o, n>>[1] = o /\ <<o, n>>[2] = n
      OBVIOUS
    <2>. DEFINE X == {x \in rows' : x[1] = ob}
    <2>4. \A n \in names : <<ob, n>> \in X
      BY <1>8, <2>2
    <2>5. \A x \in X : \E n \in names : x = <<ob, n>>
      BY <1>8, <2>1
    <2>. HIDE DEF X
    <2>6. \A x \in X : x[2] \in names
      BY <2>2, <2>5
    <2>7. \A n \in names : \E x \in X : n = x[2]
      BY <2>2, <2>4
    <2>8. {x[2] : x \in X} = names
      BY <2>6, <2>7
    <2>. QED BY <2>8 DEF RowsOf, X
  <1>13. ASSUME ~err, NEW o \in Refs, o[1] <= got, ~Pending(o[1])'
         PROVE  RowsOf(o)' \in held[o]
    <2>1. CASE o = ob
      BY <1>3, <1>12, <2>1
    <2>2. CASE o # ob /\ o[1] # s
      BY <1>4, <1>11, <1>13, <2>2 DEF IndexInv
    <2>3. CASE o # ob /\ o[1] = s
      <3>1. o = <<s, o[2]>> /\ o[2] \in 1 .. MaxSeq /\ ob = <<s, ob[2]>> /\ o[2] # ob[2]
        BY <1>3, <2>3 DEF Refs
      <3>2. {} \in held[o]
        BY <1>3, <3>1 DEF Deferred
      <3>3. RowsOf(o) = {}
        BY <1>7, <2>3 DEF RowsOf
      <3>. QED BY <1>11, <2>3, <3>2, <3>3
    <2>. QED BY <2>1, <2>2, <2>3
  <1>14. held' = held /\ got' = got /\ err' = err
    OBVIOUS
  <1>. QED BY <1>10, <1>13, <1>14 DEF IndexInv

\* A deferred object looked into, done, or given up.
LEMMA ResolveKeepsLinks ==
  ASSUME ControlInv, LinkInv, Resolves
  PROVE  LinkInv'
  <1>1. PICK N : Consistent(disk, held, N) /\ Remembers(disk, held, N)
    BY DEF LinkInv
  <1>2. /\ st = "deferred" /\ todo # <<>> /\ todo \in Seq(Item)
        /\ UNCHANGED <<disk, held, full, got, err, cache>>
    <2>1. Kept /\ st = "deferred" /\ todo # <<>>
      BY ResolvesMoves DEF ControlInv
    <2>. QED BY <2>1 DEF Kept, fsVars, pipeVars, ControlInv, Types
  <1>3. Consistent(disk, held, N)'
    BY <1>1, <1>2 DEF Consistent
  <1>4. /\ \A i \in DOMAIN full : full[i].slot # 0 => Snapshot(disk, held, N, full[i].slot, full[i].rec)
        /\ \A s \in Slot : cache[s] # NoRec => Snapshot(disk, held, N, s, cache[s])
        /\ \A i \in DOMAIN todo : Deferred(disk, held, N, todo[i])
        /\ work.at # "idle" => Working(disk, held, N, Object, work)
    BY <1>1 DEF Remembers
  <1>5. ASSUME UNCHANGED <<rows, todo>>
        PROVE  IndexInv'
    <2>1. (\A t : Pending(t)' <=> Pending(t)) /\ \A o : RowsOf(o)' = RowsOf(o)
      BY <1>5 DEF Pending, RowsOf
    <2>. QED BY <1>2, <1>5, <2>1 DEF IndexInv, LinkInv
  <1>6. CASE Quit \/ Fail
    <2>1. UNCHANGED <<rows, todo, work>> /\ Object' = Object
      BY <1>6 DEF Quit, Fail, Object
    <2>2. Remembers(disk, held, N)'
      BY <1>2, <1>4, <2>1 DEF Remembers
    <2>. QED BY <1>3, <1>5, <2>1, <2>2 DEF LinkInv
  <1>7. ASSUME NEW w, Next1(w), Working(disk, held, N, Object, w)
        PROVE  LinkInv'
    <2>1. UNCHANGED <<rows, todo>> /\ work' = w /\ Object' = Object
      BY <1>7 DEF Next1, Object
    <2>2. Remembers(disk, held, N)'
      BY <1>2, <1>4, <1>7, <2>1 DEF Remembers
    <2>. QED BY <1>3, <1>5, <2>1, <2>2 DEF LinkInv
  <1>8. ASSUME NEW names \in held[Object], Done(names)
        PROVE  LinkInv'
    <2>1. todo' = Tail(todo) /\ work' = NoWork /\ NoWork.at = "idle"
      BY <1>8 DEF Done, NoWork
    <2>2. /\ Head(todo) = todo[1] /\ 1 \in DOMAIN todo
          /\ \A i \in DOMAIN todo' : i + 1 \in DOMAIN todo /\ todo'[i] = todo[i + 1]
      BY <1>2, <2>1
    <2>3. Deferred(disk, held, N, Head(todo))
      BY <1>4, <2>2
    <2>4. IndexInv'
      BY <1>2, <1>8, <2>3, DoneKeepsIndex DEF LinkInv
    <2>5. \A i \in DOMAIN todo' : Deferred(disk, held, N, todo'[i])
      BY <1>4, <2>2
    <2>6. Remembers(disk, held, N)'
      BY <1>2, <1>4, <2>1, <2>5 DEF Remembers
    <2>. QED BY <1>3, <2>4, <2>6 DEF LinkInv
  <1>. QED BY <1>1, <1>6, <1>7, <1>8, ResolvesTruly

\* The parser's and the reader's own steps leave what is remembered of the records.
LEMMA QuietKeepsLinks ==
  ASSUME ControlInv, LinkInv, UNCHANGED <<disk, held, got, rows, cache, todo, work>>,
         err' = err \/ err' = TRUE,
         \/ full' = full
         \/ \E c \in Chunk : full' = Append(full, c) /\ c.slot = 0
  PROVE  LinkInv'
  <1>1. PICK N : Consistent(disk, held, N) /\ Remembers(disk, held, N)
    BY DEF LinkInv
  <1>2. Consistent(disk, held, N)'
    BY <1>1 DEF Consistent
  <1>3. Object' = Object /\ (\A t : Pending(t)' <=> Pending(t)) /\ \A o : RowsOf(o)' = RowsOf(o)
    BY DEF Object, Pending, RowsOf
  <1>4. IndexInv'
    <2>1. CASE err' = err
      BY <1>3, <2>1 DEF LinkInv, IndexInv
    <2>2. CASE err' = TRUE
      BY <1>3, <2>2 DEF LinkInv, IndexInv
    <2>. QED BY <2>1, <2>2
  <1>5. \A i \in DOMAIN full' : full'[i].slot # 0 => Snapshot(disk, held, N, full'[i].slot, full'[i].rec)
    <2>1. full \in Seq(Chunk)
          /\ \A i \in DOMAIN full : full[i].slot # 0 => Snapshot(disk, held, N, full[i].slot, full[i].rec)
      BY <1>1 DEF ControlInv, Types, Remembers
    <2>2. CASE full' = full
      BY <2>1, <2>2
    <2>3. ASSUME NEW c \in Chunk, full' = Append(full, c), c.slot = 0
          PROVE  \A i \in DOMAIN full' : full'[i].slot # 0 => Snapshot(disk, held, N, full'[i].slot, full'[i].rec)
      <3>1. /\ DOMAIN full' = 1 .. Len(full) + 1 /\ DOMAIN full = 1 .. Len(full) /\ Len(full) \in Nat
            /\ full'[Len(full) + 1] = c /\ \A i \in 1 .. Len(full) : full'[i] = full[i]
        BY <2>1, <2>3
      <3>2. \A i \in DOMAIN full' : i = Len(full) + 1 \/ i \in DOMAIN full
        BY <3>1
      <3>. QED BY <2>1, <2>3, <3>1, <3>2
    <2>. QED BY <2>2, <2>3
  <1>6. Remembers(disk, held, N)'
    BY <1>1, <1>3, <1>5 DEF Remembers
  <1>. QED BY <1>2, <1>4, <1>6 DEF LinkInv

\* The reader sends a record as the disk has it.
LEMMA ReadKeepsLinks ==
  ASSUME ControlInv, LinkInv, Read
  PROVE  LinkInv'
  <1>1. PICK N : Consistent(disk, held, N) /\ Remembers(disk, held, N)
    BY DEF LinkInv
  <1>. DEFINE c == [slot |-> io.next, rec |-> disk[io.next]]
  <1>2. /\ io.next <= Slots /\ io.at = "read" /\ full' = Append(full, c)
        /\ UNCHANGED <<disk, held, got, err, rows, cache, todo, work>>
    BY DEF Read, fsVars, buildVars
  <1>3. io.next \in Slot
    <2>1. io.next = got + Len(full) + 1 /\ got \in Nat /\ full \in Seq(Chunk) /\ Slots \in Nat
      BY <1>2, ScanAssumption DEF ControlInv, Types, PipeInv
    <2>2. Len(full) \in Nat
      BY <2>1
    <2>. QED BY <1>2, <2>1, <2>2 DEF Slot
  <1>4. c.slot = io.next /\ c.rec = disk[io.next] /\ Snapshot(disk, held, N, io.next, disk[io.next])
    BY <1>1, <1>3, ReadIsSnapshot
  <1>. HIDE DEF c
  <1>5. Consistent(disk, held, N)'
    BY <1>1, <1>2 DEF Consistent
  <1>6. Object' = Object /\ (\A t : Pending(t)' <=> Pending(t)) /\ \A o : RowsOf(o)' = RowsOf(o)
    BY <1>2 DEF Object, Pending, RowsOf
  <1>7. IndexInv'
    BY <1>2, <1>6 DEF LinkInv, IndexInv
  <1>8. \A i \in DOMAIN full' : full'[i].slot # 0 => Snapshot(disk, held, N, full'[i].slot, full'[i].rec)
    <2>1. full \in Seq(Chunk)
          /\ \A i \in DOMAIN full : full[i].slot # 0 => Snapshot(disk, held, N, full[i].slot, full[i].rec)
      BY <1>1 DEF ControlInv, Types, Remembers
    <2>2. /\ DOMAIN full' = 1 .. Len(full) + 1 /\ DOMAIN full = 1 .. Len(full) /\ Len(full) \in Nat
          /\ full'[Len(full) + 1] = c /\ \A i \in 1 .. Len(full) : full'[i] = full[i]
      BY <1>2, <2>1
    <2>3. \A i \in DOMAIN full' : i = Len(full) + 1 \/ i \in DOMAIN full
      BY <2>2
    <2>. QED BY <1>4, <2>1, <2>2, <2>3
  <1>9. Remembers(disk, held, N)'
    BY <1>1, <1>2, <1>6, <1>8 DEF Remembers
  <1>. QED BY <1>5, <1>7, <1>9 DEF LinkInv

\* A record is parsed, from a buffer or as the disk has it.
LEMMA TakeKeepsLinks ==
  ASSUME ControlInv, IndexInv, st = "read", NEW N, Consistent(disk, held, N), Remembers(disk, held, N),
         NEW s \in Slot, s = got + 1, NEW r \in FileRecord, Snapshot(disk, held, N, s, r),
         TakeRecord(s, r), got' = s, UNCHANGED <<disk, held, work>>,
         full' = full \/ (full' = Tail(full) /\ full # <<>>)
  PROVE  LinkInv'
  <1>1. /\ IndexInv'
        /\ \A t \in Slot : cache'[t] # NoRec => Snapshot(disk, held, N, t, cache'[t])
        /\ \A i \in DOMAIN todo' : Deferred(disk, held, N, todo'[i])
    BY ParseKeepsLinks
  <1>2. work'.at = "idle"
    BY DEF ControlInv, StageInv, Types, Resolution
  <1>3. \A i \in DOMAIN full' : full'[i].slot # 0 => Snapshot(disk, held, N, full'[i].slot, full'[i].rec)
    <2>1. full \in Seq(Chunk)
          /\ \A i \in DOMAIN full : full[i].slot # 0 => Snapshot(disk, held, N, full[i].slot, full[i].rec)
      BY DEF ControlInv, Types, Remembers
    <2>2. CASE full' = full
      BY <2>1, <2>2
    <2>3. CASE full' = Tail(full) /\ full # <<>>
      <3>1. \A i \in DOMAIN full' : i + 1 \in DOMAIN full /\ full'[i] = full[i + 1]
        BY <2>1, <2>3
      <3>. QED BY <2>1, <3>1
    <2>. QED BY <2>2, <2>3
  <1>4. Consistent(disk, held, N)'
    BY DEF Consistent
  <1>5. Remembers(disk, held, N)'
    BY <1>1, <1>2, <1>3 DEF Remembers
  <1>. QED BY <1>1, <1>4, <1>5 DEF LinkInv

\* The parser's loop, with the thread and without it.
LEMMA LoopKeepsLinks ==
  ASSUME ControlInv, LinkInv, Receive \/ ReadInline
  PROVE  LinkInv'
  <1>1. PICK N : Consistent(disk, held, N) /\ Remembers(disk, held, N)
    BY DEF LinkInv
  <1>2. got \in Nat /\ Slots \in Nat /\ full \in Seq(Chunk) /\ IndexInv
    BY ScanAssumption DEF ControlInv, Types, LinkInv
  <1>3. CASE Receive
    <2>1. /\ st = "read" /\ got < Slots /\ full # <<>> /\ Head(full).slot # 0
          /\ full' = Tail(full) /\ got' = got + 1
          /\ TakeRecord(Head(full).slot, Head(full).rec) /\ UNCHANGED <<disk, held, work>>
      BY <1>3 DEF Receive, fsVars
    <2>2. Head(full) = full[1] /\ 1 \in DOMAIN full
      BY <1>2, <2>1
    <2>3. full[1].slot = got + 1 /\ full[1].rec \in FileRecord /\ Snapshot(disk, held, N, full[1].slot, full[1].rec)
      BY <1>1, <2>1, <2>2 DEF ControlInv, PipeInv, Remembers
    <2>4. got + 1 \in Slot
      BY <1>2, <2>1 DEF Slot
    <2>5. TakeRecord(got + 1, full[1].rec) /\ Snapshot(disk, held, N, got + 1, full[1].rec)
      BY <2>1, <2>2, <2>3
    <2>. QED BY <1>1, <1>2, <2>1, <2>3, <2>4, <2>5, TakeKeepsLinks
  <1>4. CASE ReadInline
    <2>1. /\ st = "read" /\ got < Slots /\ UNCHANGED <<disk, held, full, work>>
          /\ \/ TakeRecord(got + 1, disk[got + 1]) /\ got' = got + 1
             \/ UNCHANGED <<got, err, rows, cache, todo>>
      BY <1>4 DEF ReadInline, fsVars, pipeVars, buildVars
    <2>2. CASE TakeRecord(got + 1, disk[got + 1]) /\ got' = got + 1
      <3>1. got + 1 \in Slot
        BY <1>2, <2>1 DEF Slot
      <3>2. disk[got + 1] \in FileRecord /\ Snapshot(disk, held, N, got + 1, disk[got + 1])
        BY <1>1, <3>1, ReadIsSnapshot
      <3>3. PICK s, r : s = got + 1 /\ r = disk[got + 1]
        OBVIOUS
      <3>4. s \in Slot /\ r \in FileRecord /\ Snapshot(disk, held, N, s, r) /\ TakeRecord(s, r) /\ got' = s
        BY <2>2, <3>1, <3>2, <3>3
      <3>5. /\ st = "read" /\ UNCHANGED <<disk, held, work>>
            /\ full' = full \/ (full' = Tail(full) /\ full # <<>>)
        BY <2>1
      <3>6. s = got + 1
        BY <3>3
      <3>. QED BY <1>1, <1>2, <3>4, <3>5, <3>6, TakeKeepsLinks
    <2>3. CASE UNCHANGED <<got, err, rows, cache, todo>>
      BY <2>1, <2>3, QuietKeepsLinks
    <2>. QED BY <2>1, <2>2, <2>3
  <1>. QED BY <1>3, <1>4

\* LinkInv is inductive relative to ControlInv.
LEMMA LinksAreKept ==
  ASSUME ControlInv, LinkInv, [Next]_vars
  PROVE  LinkInv'
  <1>1. CASE FileSystem
    BY <1>1, ChangeKeepsLinks
  <1>2. CASE Read
    BY <1>2, ReadKeepsLinks
  <1>3. CASE ReadError
    <2>1. [slot |-> 0, rec |-> Free(0)] \in Chunk /\ [slot |-> 0, rec |-> Free(0)].slot = 0
      BY ScanAssumption DEF Chunk, Kinds, NoRec
    <2>2. /\ full' = Append(full, [slot |-> 0, rec |-> Free(0)])
          /\ UNCHANGED <<disk, held, got, err, rows, cache, todo, work>>
      BY <1>3 DEF ReadError, fsVars, buildVars
    <2>. QED BY <2>1, <2>2, QuietKeepsLinks
  <1>4. CASE Stop \/ ReaderEnds \/ Layout \/ Joined \/ UNCHANGED vars
    <2>1. UNCHANGED <<disk, held, full, got, err, rows, cache, todo, work>>
      BY <1>4 DEF Stop, ReaderEnds, Layout, Joined, vars, fsVars, pipeVars, buildVars
    <2>. QED BY <2>1, QuietKeepsLinks
  <1>5. CASE LeaveLoop
    <2>1. UNCHANGED <<disk, held, full, got, rows, cache, todo, work>> /\ (err' = err \/ err' = TRUE)
      BY <1>5 DEF LeaveLoop, fsVars, pipeVars, buildVars
    <2>. QED BY <2>1, QuietKeepsLinks
  <1>6. CASE Build
    <2>1. UNCHANGED <<disk, held, full, got, err, rows, cache, todo, work>>
      BY <1>6 DEF Build, Kept, fsVars, pipeVars
    <2>. QED BY <2>1, QuietKeepsLinks
  <1>7. CASE Receive \/ ReadInline
    BY <1>7, LoopKeepsLinks
  <1>8. CASE Resolves
    BY <1>8, ResolveKeepsLinks
  <1>. QED BY <1>1, <1>2, <1>3, <1>4, <1>5, <1>6, <1>7, <1>8
       DEF Next, Reader, Scanner, Resolves, Finished

\* A complete scan has taken every record and resolved every deferred object.
LEMMA LinksGiveSets ==
  ASSUME ControlInv, LinkInv
  PROVE  LinkSetsHeld
  <1>1. ASSUME out = "complete", NEW o \in Refs
        PROVE  RowsOf(o) \in held[o]
    <2>1. got = Slots /\ todo = <<>> /\ ~err
      BY <1>1 DEF ControlInv, StageInv
    <2>2. o[1] <= got
      BY <2>1, ScanAssumption DEF Refs, Slot
    <2>3. ~Pending(o[1])
      BY <2>1 DEF Pending
    <2>. QED BY <2>1, <2>2, <2>3 DEF LinkInv, IndexInv
  <1>. QED BY <1>1 DEF LinkSetsHeld, RowsOf

\* Whatever the file system does during a scan, however its threads interleave
\* and whichever records were read when: the index a scan returns gives every
\* object a set of links it had at one moment of the scan; a scan fails only
\* for a reason; and no buffer is lost.
THEOREM ScanGivesHeldLinks == Spec => []ScanIsFaithful
  <1>1. Init => ControlInv /\ LinkInv
    BY InitControl, InitLinks
  <1>2. ControlInv /\ LinkInv /\ [Next]_vars => ControlInv' /\ LinkInv'
    BY ControlIsKept, LinksAreKept
  <1>3. ControlInv /\ LinkInv => ScanIsFaithful
    <2>1. ASSUME ControlInv, LinkInv
          PROVE  ScanIsFaithful
      <3>1. TypeOK /\ StopIsNoFailure
        BY <2>1, ControlTypes DEF ControlInv, StageInv, StopIsNoFailure
      <3>. QED BY <2>1, <3>1, LinksGiveSets DEF ScanIsFaithful
    <2>. QED BY <2>1
  <1>. QED BY <1>1, <1>2, <1>3, PTL DEF Spec
=============================================================================
