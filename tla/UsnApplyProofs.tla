--------------------------- MODULE UsnApplyProofs ---------------------------
(***************************************************************************)
(* Proofs about the journal replay (UsnApply), for every volume the        *)
(* settings allow, every cut of its MFT into reads, and any interleaving   *)
(* of its changes with the scan, the link lookups and the batches.         *)
(*                                                                         *)
(* Between batches the index is a forest whose exclusion bits say what the *)
(* directories above say (Served).  Inside a batch neither is true: parents*)
(* die before their children, a cycle may close, and a row below a moved   *)
(* directory is stale.  What every operation keeps is BatchInv: rows refer *)
(* to rows that are directories, an object has rows of one kind, and       *)
(* unless the index is marked dirty, exclusion follows from the parent on  *)
(* every set of live rows that no parent leaves.  The verdict at the end   *)
(* of the batch makes all live rows such a set; there, by induction along  *)
(* the parents, following the parent is inheriting from the whole chain.   *)
(***************************************************************************)
EXTENDS UsnApply, FiniteSetTheorems, SequenceTheorems, WellFoundedInduction, TLAPS

----------------------------------------------------------------------------
(***************************************************************************)
(* Sequences, sets put in order, and induction up to a number.             *)
(***************************************************************************)
\* A function on 1..n is a sequence of length n.
LEMMA FunctionIsSequence ==
  ASSUME NEW S, NEW n \in Nat, NEW f \in [1..n -> S]
  PROVE  f \in Seq(S) /\ Len(f) = n /\ DOMAIN f = 1..n
<1>1. f \in Seq(S)
  BY SeqDef
<1>2. Len(f) \in Nat /\ DOMAIN f = 1..Len(f)
  BY <1>1, LenProperties
<1>3. DOMAIN f = 1..n
  OBVIOUS
<1>. QED BY <1>1, <1>2, <1>3

\* A set of naturals that is not empty has a least element.
LEMMA LeastElement ==
  ASSUME NEW S \in SUBSET Nat, S # {}
  PROVE  \E n \in S : \A m \in S : n <= m
<1>. DEFINE R == {ss \in Nat \X Nat : ss[1] < ss[2]}
<1>1. IsWellFoundedOn(R, Nat)
  BY NatLessThanWellFounded DEF OpToRel
<1>2. PICK x \in S : \A y \in S : ~(<<y, x>> \in R)
  BY <1>1, WFMin
<1>3. ASSUME NEW y \in S PROVE x <= y
  <2>1. ~(<<y, x>> \in R)
    BY <1>2
  <2>2. x \in Nat /\ y \in Nat
    OBVIOUS
  <2>. QED BY <2>1, <2>2
<1>. QED BY <1>3

\* Induction up to n, for a set of naturals.
LEMMA InductUpTo ==
  ASSUME NEW n \in Nat, NEW S, 0 \in S,
         \A k \in 1..n : k - 1 \in S => k \in S
  PROVE  0..n \subseteq S
<1>. SUFFICES ASSUME ~(0..n \subseteq S) PROVE FALSE
  OBVIOUS
<1>. DEFINE B == {k \in 0..n : k \notin S}
<1>1. B \in SUBSET Nat /\ B # {}
  OBVIOUS
<1>2. PICK k \in B : \A m \in B : k <= m
  <2>. HIDE DEF B
  <2>. QED BY <1>1, LeastElement
<1>3. k \in 1..n
  BY <1>2
<1>4. k - 1 \notin B
  BY <1>1, <1>2, <1>3
<1>5. k - 1 \in S
  BY <1>3, <1>4
<1>. QED BY <1>2, <1>3, <1>5

----------------------------------------------------------------------------
(***************************************************************************)
(* What a batch maintains, whatever it is and whatever it meets.           *)
(***************************************************************************)
Frn == Nat \X Nat
RowNames == Names \cup {""}

Row == [frn : Frn, parent : Nat, name : RowNames, dir : BOOLEAN,
        hidden : BOOLEAN, excl : BOOLEAN, live : BOOLEAN]
Index == [rows : Seq(Row), dirty : BOOLEAN]

\* A row hangs from no row or from a directory's row, live or not.
ParentsAreDirs(rows) ==
  \A i \in DOMAIN rows :
    rows[i].parent # NoParent
      => rows[i].parent \in DOMAIN rows /\ rows[rows[i].parent].dir

\* A directory has one live row, and the rows of one object are of one kind.
KindsAgree(ix) ==
  \A i, j \in Live(ix) :
    i # j /\ ix.rows[i].frn = ix.rows[j].frn
      => ~ix.rows[i].dir /\ ~ix.rows[j].dir

\* Live rows from which no walk leaves the live rows.
Closed(ix, S) ==
  /\ S \subseteq Live(ix)
  /\ \A i \in S : ix.rows[i].parent = NoParent \/ ix.rows[i].parent \in S

\* As far as the walks upwards stay on live rows, each row has the exclusion its
\* parent's row says.  Half way through a batch a parent may be a tombstone, whose
\* bit is nobody's concern: either the batch is refused or its rows go too.
ExclusionFollows(ix) ==
  \A S \in SUBSET Live(ix) :
    Closed(ix, S) => \A i \in S : ix.rows[i].excl = Inherits(ix.rows, i)

BatchInv(ix) ==
  /\ ix \in Index
  /\ ParentsAreDirs(ix.rows)
  /\ KindsAgree(ix)
  /\ ~ix.dirty => ExclusionFollows(ix)

\* The shape of an index.
LEMMA IndexShape ==
  ASSUME NEW ix \in Index
  PROVE  /\ Len(ix.rows) \in Nat /\ DOMAIN ix.rows = 1..Len(ix.rows)
         /\ \A i \in 1..Len(ix.rows) : ix.rows[i] \in Row
         /\ ix = [rows |-> ix.rows, dirty |-> ix.dirty]
         /\ ix.dirty \in BOOLEAN /\ ix.rows \in Seq(Row)
         /\ Live(ix) = {i \in 1..Len(ix.rows) : ix.rows[i].live}
<1>1. ix.rows \in Seq(Row) /\ ix.dirty \in BOOLEAN
      /\ ix = [rows |-> ix.rows, dirty |-> ix.dirty]
  BY DEF Index
<1>2. Len(ix.rows) \in Nat /\ DOMAIN ix.rows = 1..Len(ix.rows)
  BY <1>1, LenProperties
<1>3. \A i \in 1..Len(ix.rows) : ix.rows[i] \in Row
  BY <1>1, ElementOfSeq
<1>. QED BY <1>1, <1>2, <1>3 DEF Live

LEMMA RowsReplaced ==
  ASSUME NEW ix \in Index, NEW rows
  PROVE  [ix EXCEPT !.rows = rows] = [rows |-> rows, dirty |-> ix.dirty]
BY DEF Index

\* Rows that differ from those of an index in nothing but their columns.
LEMMA IndexFromRows ==
  ASSUME NEW n \in Nat, NEW rows \in [1..n -> Row], NEW dirty \in BOOLEAN
  PROVE  LET new == [rows |-> rows, dirty |-> dirty]
         IN  /\ new \in Index /\ Len(new.rows) = n /\ DOMAIN new.rows = 1..n
             /\ Live(new) = {i \in 1..n : rows[i].live}
<1>1. rows \in Seq(Row) /\ Len(rows) = n /\ DOMAIN rows = 1..n
  BY FunctionIsSequence
<1>. QED BY <1>1 DEF Index, Live

----------------------------------------------------------------------------
(***************************************************************************)
(* The row operations.                                                     *)
(***************************************************************************)
\* Rows are removed and nothing else changes.
LEMMA TombstoneInv ==
  ASSUME NEW ix, BatchInv(ix), NEW ids
  PROVE  /\ BatchInv(Tombstone(ix, ids))
         /\ Live(Tombstone(ix, ids)) = Live(ix) \ ids
         /\ DOMAIN Tombstone(ix, ids).rows = DOMAIN ix.rows
         /\ \A i \in DOMAIN ix.rows :
              LET new == Tombstone(ix, ids).rows[i] old == ix.rows[i]
              IN  /\ new.frn = old.frn /\ new.parent = old.parent /\ new.name = old.name
                  /\ new.dir = old.dir /\ new.hidden = old.hidden /\ new.excl = old.excl
         /\ Tombstone(ix, ids).dirty = ix.dirty
<1>. DEFINE n == Len(ix.rows)
            new == Tombstone(ix, ids)
            rows == [i \in 1..n |-> IF i \in ids THEN [ix.rows[i] EXCEPT !.live = FALSE]
                                    ELSE ix.rows[i]]
<1>0. /\ ix \in Index /\ ParentsAreDirs(ix.rows) /\ KindsAgree(ix)
      /\ ~ix.dirty => ExclusionFollows(ix)
  BY DEF BatchInv
<1>1. /\ n \in Nat /\ DOMAIN ix.rows = 1..n /\ ix.dirty \in BOOLEAN
      /\ \A i \in 1..n : ix.rows[i] \in Row
      /\ ix = [rows |-> ix.rows, dirty |-> ix.dirty]
      /\ Live(ix) = {i \in 1..n : ix.rows[i].live}
  BY <1>0, IndexShape
<1>2. rows \in [1..n -> Row]
  BY <1>1 DEF Row
<1>3. new = [rows |-> rows, dirty |-> ix.dirty]
  <2>1. new = [ix EXCEPT !.rows = rows]
    BY <1>1 DEF Tombstone
  <2>. HIDE DEF rows, new
  <2>. QED BY <2>1, <1>0, RowsReplaced
<1>. HIDE DEF new
<1>4. /\ new \in Index /\ DOMAIN new.rows = 1..n
      /\ Live(new) = {i \in 1..n : rows[i].live} /\ new.rows = rows /\ new.dirty = ix.dirty
  <2>. HIDE DEF rows
  <2>. QED BY <1>1, <1>2, <1>3, IndexFromRows
<1>5. \A i \in 1..n :
        /\ rows[i].frn = ix.rows[i].frn /\ rows[i].parent = ix.rows[i].parent
        /\ rows[i].name = ix.rows[i].name /\ rows[i].dir = ix.rows[i].dir
        /\ rows[i].hidden = ix.rows[i].hidden /\ rows[i].excl = ix.rows[i].excl
        /\ rows[i].live = (ix.rows[i].live /\ i \notin ids)
  BY <1>1 DEF Row
<1>6. Live(new) = Live(ix) \ ids
  BY <1>4, <1>5, <1>1
<1>. HIDE DEF rows
<1>7. ParentsAreDirs(new.rows)
  BY <1>0, <1>1, <1>4, <1>5 DEF ParentsAreDirs
<1>8. KindsAgree(new)
  BY <1>0, <1>1, <1>4, <1>5, <1>6 DEF KindsAgree
<1>9. ASSUME ~new.dirty PROVE ExclusionFollows(new)
  <2>1. ExclusionFollows(ix)
    BY <1>9, <1>4, <1>0
  <2>2. ASSUME NEW S \in SUBSET Live(new), Closed(new, S), NEW i \in S
        PROVE  new.rows[i].excl = Inherits(new.rows, i)
    <3>1. S \in SUBSET Live(ix) /\ S \subseteq 1..n
      BY <1>6, <1>1
    <3>2. Closed(ix, S)
      BY <2>2, <3>1, <1>4, <1>5 DEF Closed
    <3>3. ix.rows[i].excl = Inherits(ix.rows, i)
      BY <2>1, <3>1, <3>2 DEF ExclusionFollows
    <3>4. ix.rows[i].parent # NoParent => ix.rows[i].parent \in 1..n
      BY <3>1, <3>2 DEF Closed
    <3>. QED BY <3>1, <3>3, <3>4, <1>4, <1>5 DEF Inherits
  <2>. QED BY <2>2 DEF ExclusionFollows
<1>. QED BY <1>1, <1>4, <1>5, <1>6, <1>7, <1>8, <1>9 DEF BatchInv, new

\* Rows that a batch appends: live, below live directories, with their exclusion.
Appendable(ix, new) ==
  /\ new \in Seq(Row)
  /\ \A k \in DOMAIN new :
       /\ new[k].live
       /\ new[k].parent \in Live(ix) /\ ix.rows[new[k].parent].dir
       /\ new[k].excl = (new[k].hidden \/ ix.rows[new[k].parent].excl)
       /\ \A i \in EntriesByFrn(ix, new[k].frn) : ~ix.rows[i].dir /\ ~new[k].dir
       /\ \A j \in DOMAIN new : j # k => ~new[k].dir

LEMMA AppendInv ==
  ASSUME NEW ix, BatchInv(ix), NEW new, Appendable(ix, new)
  PROVE  BatchInv([ix EXCEPT !.rows = @ \o new])
<1>. DEFINE n == Len(ix.rows)
            m == Len(new)
            rows == ix.rows \o new
            nidx == [rows |-> rows, dirty |-> ix.dirty]
<1>0. /\ ix \in Index /\ ParentsAreDirs(ix.rows) /\ KindsAgree(ix)
      /\ ~ix.dirty => ExclusionFollows(ix)
  BY DEF BatchInv
<1>1. /\ n \in Nat /\ DOMAIN ix.rows = 1..n /\ ix.dirty \in BOOLEAN
      /\ \A i \in 1..n : ix.rows[i] \in Row
      /\ ix.rows \in Seq(Row)
      /\ ix = [rows |-> ix.rows, dirty |-> ix.dirty]
      /\ Live(ix) = {i \in 1..n : ix.rows[i].live}
  BY <1>0, IndexShape
<1>2. m \in Nat /\ DOMAIN new = 1..m /\ \A k \in 1..m : new[k] \in Row
  BY LenProperties, ElementOfSeq DEF Appendable
<1>3. /\ rows \in Seq(Row) /\ Len(rows) = n + m /\ DOMAIN rows = 1..(n + m)
      /\ \A i \in 1..n : rows[i] = ix.rows[i]
      /\ \A k \in 1..m : rows[n + k] = new[k]
  <2>1. rows \in Seq(Row) /\ Len(rows) = n + m
    BY <1>1, ConcatProperties DEF Appendable
  <2>2. DOMAIN rows = 1..(n + m)
    BY <2>1, LenProperties
  <2>3. \A i \in 1..(n + m) : rows[i] = IF i <= n THEN ix.rows[i] ELSE new[i - n]
    BY <1>1, ConcatProperties DEF Appendable
  <2>4. ASSUME NEW i \in 1..n PROVE rows[i] = ix.rows[i]
    <3>1. i \in 1..(n + m) /\ i <= n
      BY <1>1, <1>2
    <3>. QED BY <3>1, <2>3
  <2>5. ASSUME NEW k \in 1..m PROVE rows[n + k] = new[k]
    <3>1. n + k \in 1..(n + m) /\ ~(n + k <= n) /\ (n + k) - n = k
      BY <1>1, <1>2
    <3>. QED BY <3>1, <2>3
  <2>. QED BY <2>1, <2>2, <2>4, <2>5
<1>. HIDE DEF rows
<1>4. \A i \in 1..(n + m) : i \in 1..n \/ (\E k \in 1..m : i = n + k)
  <2>1. ASSUME NEW i \in 1..(n + m), i \notin 1..n PROVE i - n \in 1..m /\ i = n + (i - n)
    BY <2>1, <1>1, <1>2
  <2>. QED BY <2>1
<1>5. [ix EXCEPT !.rows = @ \o new] = nidx
  <2>1. [ix EXCEPT !.rows = @ \o new] = [ix EXCEPT !.rows = rows]
    BY DEF rows
  <2>. QED BY <2>1, <1>0, RowsReplaced
<1>6. nidx \in Index /\ nidx.rows = rows /\ nidx.dirty = ix.dirty
  BY <1>1, <1>3 DEF Index
<1>7. /\ Live(nidx) = {i \in 1..(n + m) : rows[i].live}
      /\ \A i \in 1..n : i \in Live(nidx) <=> i \in Live(ix)
  BY <1>1, <1>2, <1>3, <1>6 DEF Live
<1>. HIDE DEF nidx
<1>8. \A k \in 1..m :
        /\ new[k].live
        /\ new[k].parent \in Live(ix) /\ ix.rows[new[k].parent].dir
        /\ new[k].excl = (new[k].hidden \/ ix.rows[new[k].parent].excl)
        /\ \A i \in EntriesByFrn(ix, new[k].frn) : ~ix.rows[i].dir /\ ~new[k].dir
        /\ \A j \in 1..m : j # k => ~new[k].dir
  BY <1>2 DEF Appendable
<1>9. ParentsAreDirs(nidx.rows)
  <2>1. ASSUME NEW i \in 1..n, rows[i].parent # NoParent
        PROVE  rows[i].parent \in 1..n /\ rows[rows[i].parent].dir
    <3>1. ix.rows[i].parent \in 1..n /\ ix.rows[ix.rows[i].parent].dir
      BY <1>0, <1>1, <1>3, <2>1 DEF ParentsAreDirs
    <3>. QED BY <3>1, <1>3
  <2>2. ASSUME NEW k \in 1..m
        PROVE  rows[n + k].parent \in 1..n /\ rows[rows[n + k].parent].dir
    <3>1. new[k].parent \in 1..n /\ ix.rows[new[k].parent].dir
      BY <1>8, <1>1
    <3>. QED BY <3>1, <1>3
  <2>3. 1..n \subseteq 1..(n + m)
    BY <1>1, <1>2
  <2>4. ASSUME NEW i \in 1..(n + m), rows[i].parent # NoParent
        PROVE  rows[i].parent \in 1..(n + m) /\ rows[rows[i].parent].dir
    BY <2>1, <2>2, <2>3, <2>4, <1>4
  <2>. QED BY <2>4, <1>3, <1>6 DEF ParentsAreDirs
<1>10. KindsAgree(nidx)
  <2>1. ASSUME NEW i \in Live(ix), NEW k \in 1..m, ix.rows[i].frn = new[k].frn
        PROVE  ~ix.rows[i].dir /\ ~new[k].dir
    <3>1. i \in EntriesByFrn(ix, new[k].frn)
      BY <2>1 DEF EntriesByFrn
    <3>. QED BY <3>1, <1>8
  <2>2. ASSUME NEW i \in Live(nidx), NEW j \in Live(nidx), i # j, rows[i].frn = rows[j].frn
        PROVE  ~rows[i].dir
    <3>1. CASE i \in 1..n /\ j \in 1..n
      BY <3>1, <2>2, <1>0, <1>3, <1>7 DEF KindsAgree
    <3>2. ASSUME NEW k \in 1..m, j = n + k, i \in 1..n
          PROVE  ~rows[i].dir
      <4>1. i \in Live(ix) /\ rows[i] = ix.rows[i] /\ rows[j] = new[k]
        BY <3>2, <2>2, <1>3, <1>7
      <4>. QED BY <4>1, <2>1, <2>2
    <3>3. ASSUME NEW k \in 1..m, i = n + k, j \in 1..n
          PROVE  ~rows[i].dir
      <4>1. j \in Live(ix) /\ rows[j] = ix.rows[j] /\ rows[i] = new[k]
        BY <3>3, <2>2, <1>3, <1>7
      <4>. QED BY <4>1, <2>1, <2>2
    <3>4. ASSUME NEW k \in 1..m, NEW l \in 1..m, i = n + k, j = n + l
          PROVE  ~rows[i].dir
      <4>1. l # k
        BY <3>4, <2>2
      <4>. QED BY <4>1, <3>4, <1>8, <1>3
    <3>5. i \in 1..(n + m) /\ j \in 1..(n + m)
      BY <1>7
    <3>. QED BY <3>1, <3>2, <3>3, <3>4, <3>5, <1>4
  <2>. QED BY <2>2, <1>6 DEF KindsAgree
<1>11. ASSUME ~nidx.dirty PROVE ExclusionFollows(nidx)
  <2>1. ExclusionFollows(ix)
    BY <1>11, <1>6, <1>0
  <2>2. ASSUME NEW S \in SUBSET Live(nidx), Closed(nidx, S), NEW i \in S
        PROVE  rows[i].excl = Inherits(rows, i)
    <3>. DEFINE T == S \cap 1..n
    <3>1. S \subseteq 1..(n + m) /\ T \in SUBSET Live(ix)
      BY <1>7
    <3>2. \A j \in S : rows[j].parent # NoParent => rows[j].parent \in S
      BY <2>2, <1>6 DEF Closed
    <3>3. ASSUME NEW j \in T, ix.rows[j].parent # NoParent PROVE ix.rows[j].parent \in T
      <4>1. ix.rows[j].parent \in 1..n
        BY <3>3, <1>0, <1>1 DEF ParentsAreDirs
      <4>. QED BY <4>1, <3>2, <3>3, <1>3
    <3>4. Closed(ix, T)
      BY <3>1, <3>3 DEF Closed
    <3>5. CASE i \in 1..n
      <4>1. ix.rows[i].excl = Inherits(ix.rows, i)
        BY <3>5, <3>1, <3>4, <2>1 DEF ExclusionFollows
      <4>2. ix.rows[i].parent # NoParent => ix.rows[i].parent \in 1..n
        BY <3>5, <3>3
      <4>. QED BY <4>1, <4>2, <3>5, <1>3 DEF Inherits
    <3>6. ASSUME NEW k \in 1..m, i = n + k PROVE rows[i].excl = Inherits(rows, i)
      <4>1. /\ new[k].parent \in 1..n /\ new[k].parent # NoParent /\ new[k].parent # i
            /\ new[k].excl = (new[k].hidden \/ ix.rows[new[k].parent].excl)
        BY <3>6, <1>8, <1>1 DEF NoParent
      <4>2. rows[i] = new[k] /\ rows[new[k].parent] = ix.rows[new[k].parent]
        BY <4>1, <3>6, <1>3
      <4>. QED BY <4>1, <4>2 DEF Inherits
    <3>. QED BY <3>1, <3>5, <3>6, <1>4
  <2>. QED BY <2>2, <1>6 DEF ExclusionFollows
<1>. QED BY <1>5, <1>6, <1>9, <1>10, <1>11 DEF BatchInv

----------------------------------------------------------------------------
\* A finite set in some order.
LEMMA SetInOrder ==
  ASSUME NEW S, IsFiniteSet(S)
  PROVE  /\ Cardinality(S) \in Nat
         /\ SetToSeq(S) \in [1..Cardinality(S) -> S]
         /\ \A i, j \in 1..Cardinality(S) : SetToSeq(S)[i] = SetToSeq(S)[j] => i = j
         /\ \A x \in S : \E i \in 1..Cardinality(S) : SetToSeq(S)[i] = x
<1>. DEFINE n == Cardinality(S)
<1>1. n \in Nat /\ ExistsBijection(1..n, S)
  BY FS_CardinalityType
<1>2. PICK g \in Bijection(1..n, S) : TRUE
  BY <1>1 DEF ExistsBijection
<1>3. \E f \in [1..n -> S] : IsInjective(f)
  BY <1>2 DEF Bijection, Injection, IsInjective
<1>4. SetToSeq(S) \in [1..n -> S] /\ IsInjective(SetToSeq(S))
  BY <1>3 DEF SetToSeq
<1>. DEFINE s == SetToSeq(S)
<1>5. s \in Injection(1..n, S)
  BY <1>4 DEF Injection, IsInjective
<1>6. IsFiniteSet(1..n) /\ Cardinality(1..n) = n
  <2>1. 1 \in Int /\ n \in Int /\ (IF 1 > n THEN 0 ELSE n - 1 + 1) = n
    BY <1>1
  <2>. QED BY <2>1, FS_Interval
<1>. HIDE DEF s
<1>7. s \in Surjection(1..n, S)
  BY <1>5, <1>6, FS_Injection
<1>. QED BY <1>1, <1>4, <1>5, <1>7 DEF s, Injection, Surjection, IsInjective

\* A parent that is found is a live directory, of another record than the object.
LEMMA ParentFound ==
  ASSUME NEW ix, NEW object, NEW parent,
         ResolveParent(ix, object, parent) # NoParent
  PROVE  LET p == ResolveParent(ix, object, parent)
         IN  /\ p \in Live(ix) /\ ix.rows[p].dir /\ ix.rows[p].frn = parent
             /\ Record(object) # Record(parent)
<1>. DEFINE dirs == {i \in EntriesByFrn(ix, parent) : ix.rows[i].dir}
            p == CHOOSE i \in dirs : TRUE
<1>1. /\ ResolveParent(ix, object, parent) = p
      /\ Record(object) # Record(parent) /\ Cardinality(dirs) = 1
  BY DEF ResolveParent
<1>2. dirs # {}
  <2>1. Cardinality({}) = 0
    BY FS_EmptySet
  <2>. HIDE DEF dirs
  <2>. QED BY <1>1, <2>1
<1>3. p \in dirs
  BY <1>2
<1>. QED BY <1>1, <1>3 DEF EntriesByFrn

\* The attributes of an object change: unless a directory's did, the bits of all
\* other rows stay right.
LEMMA UpdateObjectAttrsInv ==
  ASSUME NEW ix, BatchInv(ix), NEW frn, NEW hidden \in BOOLEAN
  PROVE  BatchInv(UpdateObjectAttrs(ix, frn, hidden))
<1>. DEFINE n == Len(ix.rows)
            ids == EntriesByFrn(ix, frn)
            raw == [i \in 1..n |-> IF i \in ids THEN [ix.rows[i] EXCEPT !.hidden = hidden]
                                   ELSE ix.rows[i]]
            rows == [i \in 1..n |-> IF i \in ids THEN [raw[i] EXCEPT !.excl = Inherits(raw, i)]
                                    ELSE raw[i]]
            dirty == \/ ix.dirty
                     \/ \E i \in ids : ix.rows[i].dir /\ ix.rows[i].hidden # hidden
            new == [rows |-> rows, dirty |-> dirty]
<1>0. /\ ix \in Index /\ ParentsAreDirs(ix.rows) /\ KindsAgree(ix)
      /\ ~ix.dirty => ExclusionFollows(ix)
  BY DEF BatchInv
<1>1. /\ n \in Nat /\ DOMAIN ix.rows = 1..n /\ ix.dirty \in BOOLEAN
      /\ \A i \in 1..n : ix.rows[i] \in Row
      /\ Live(ix) = {i \in 1..n : ix.rows[i].live}
  BY <1>0, IndexShape
<1>2. UpdateObjectAttrs(ix, frn, hidden) = new
  BY <1>1 DEF UpdateObjectAttrs
<1>3. ids \subseteq 1..n /\ ids \subseteq Live(ix) /\ \A i \in ids : ix.rows[i].frn = frn
  BY <1>1 DEF EntriesByFrn
<1>. HIDE DEF ids
<1>4. \A i \in 1..n :
        /\ raw[i] \in Row /\ raw[i].frn = ix.rows[i].frn /\ raw[i].parent = ix.rows[i].parent
        /\ raw[i].name = ix.rows[i].name /\ raw[i].dir = ix.rows[i].dir
        /\ raw[i].excl = ix.rows[i].excl /\ raw[i].live = ix.rows[i].live
        /\ raw[i].hidden = IF i \in ids THEN hidden ELSE ix.rows[i].hidden
  BY <1>1 DEF Row
<1>. DEFINE Derived(i) == \/ raw[i].hidden
                          \/ ix.rows[i].parent \notin {NoParent, i}
                               /\ ix.rows[ix.rows[i].parent].excl
<1>5. \A i \in 1..n : Inherits(raw, i) = Derived(i) /\ Derived(i) \in BOOLEAN
  <2>1. ASSUME NEW i \in 1..n PROVE Inherits(raw, i) = Derived(i)
    <3>1. ix.rows[i].parent # NoParent => ix.rows[i].parent \in 1..n
      BY <1>0, <1>1 DEF ParentsAreDirs
    <3>. HIDE DEF raw
    <3>. QED BY <3>1, <1>4 DEF Inherits
  <2>. QED BY <2>1
<1>. HIDE DEF Derived
<1>6. \A i \in 1..n :
        /\ rows[i] \in Row /\ rows[i].frn = ix.rows[i].frn
        /\ rows[i].parent = ix.rows[i].parent
        /\ rows[i].name = ix.rows[i].name /\ rows[i].dir = ix.rows[i].dir
        /\ rows[i].live = ix.rows[i].live /\ rows[i].hidden = raw[i].hidden
        /\ rows[i].excl = IF i \in ids THEN Derived(i) ELSE ix.rows[i].excl
  <2>. HIDE DEF raw
  <2>. QED BY <1>4, <1>5 DEF Row
<1>7. rows \in [1..n -> Row] /\ dirty \in BOOLEAN
  <2>1. rows \in [1..n -> Row]
    <3>. HIDE DEF raw
    <3>. QED BY <1>6
  <2>. QED BY <2>1
<1>. HIDE DEF rows, dirty
<1>8. /\ new \in Index /\ DOMAIN new.rows = 1..n /\ new.rows = rows /\ new.dirty = dirty
      /\ Live(new) = Live(ix)
  <2>1. new \in Index /\ DOMAIN new.rows = 1..n /\ Live(new) = {i \in 1..n : rows[i].live}
    BY <1>1, <1>7, IndexFromRows
  <2>2. {i \in 1..n : rows[i].live} = Live(ix)
    BY <1>1, <1>6
  <2>. QED BY <2>1, <2>2
<1>. HIDE DEF new, raw
<1>9. ParentsAreDirs(new.rows)
  BY <1>0, <1>1, <1>8, <1>6 DEF ParentsAreDirs
<1>10. KindsAgree(new)
  BY <1>0, <1>1, <1>8, <1>6 DEF KindsAgree
<1>11. ASSUME ~new.dirty PROVE ExclusionFollows(new)
  <2>1. ExclusionFollows(ix) /\ \A i \in ids : ix.rows[i].dir => ix.rows[i].hidden = hidden
    BY <1>11, <1>8, <1>0, <1>1 DEF dirty
  <2>2. ASSUME NEW S \in SUBSET Live(new), Closed(new, S), NEW i \in S
        PROVE  rows[i].excl = Inherits(rows, i)
    <3>1. S \in SUBSET Live(ix) /\ S \subseteq 1..n
      BY <1>8, <1>1
    <3>2. Closed(ix, S)
      BY <2>2, <3>1, <1>8, <1>6 DEF Closed
    <3>3. \A j \in S : ix.rows[j].excl = Inherits(ix.rows, j)
      BY <2>1, <3>1, <3>2 DEF ExclusionFollows
    <3>. DEFINE p == ix.rows[i].parent
    <3>4. p # NoParent => p \in S /\ p \in 1..n /\ ix.rows[p].dir
      BY <3>1, <3>2, <1>0, <1>1 DEF Closed, ParentsAreDirs
    <3>5. ASSUME p # NoParent, p # i PROVE rows[p].excl = ix.rows[p].excl
      <4>1. CASE p \notin ids
        BY <4>1, <3>4, <3>5, <1>6
      <4>2. CASE p \in ids
        <5>1. raw[p].hidden = ix.rows[p].hidden
          BY <4>2, <2>1, <3>4, <3>5, <1>4
        <5>2. rows[p].excl = Derived(p)
          BY <4>2, <3>4, <3>5, <1>6
        <5>3. Derived(p) = Inherits(ix.rows, p)
          BY <5>1 DEF Derived, Inherits
        <5>4. ix.rows[p].excl = Inherits(ix.rows, p)
          BY <3>3, <3>4, <3>5
        <5>. QED BY <5>2, <5>3, <5>4
      <4>. QED BY <4>1, <4>2
    <3>6. rows[i].parent = p /\ rows[i].hidden = raw[i].hidden
      BY <3>1, <1>6
    <3>7. CASE i \in ids
      <4>1. rows[i].excl = Derived(i)
        BY <3>7, <3>1, <1>6
      <4>. QED BY <4>1, <3>5, <3>6 DEF Derived, Inherits
    <3>8. CASE i \notin ids
      <4>1. rows[i].excl = ix.rows[i].excl /\ raw[i].hidden = ix.rows[i].hidden
        BY <3>8, <3>1, <1>6, <1>4
      <4>. QED BY <4>1, <3>3, <3>5, <3>6 DEF Inherits
    <3>. QED BY <3>7, <3>8
  <2>. QED BY <2>2, <1>8 DEF ExclusionFollows
<1>. QED BY <1>2, <1>8, <1>9, <1>10, <1>11 DEF BatchInv

\* A directory is renamed where it is: only a new parent changes what its row inherits,
\* and then everything is recomputed.
LEMMA RenameDirInv ==
  ASSUME NEW ix, BatchInv(ix), NEW frn, NEW name \in Names, NEW parent,
         EntriesByFrn(ix, frn) # {}
  PROVE  BatchInv(RenameDirInPlace(ix, frn, name, parent).idx)
<1>. DEFINE i == CHOOSE j \in EntriesByFrn(ix, frn) : TRUE
            p == ResolveParent(ix, frn, parent)
            mid == [ix.rows EXCEPT ![i].name = name, ![i].parent = p]
            rows == RecomputeExcluded(mid, i)
            dirty == ix.dirty \/ ix.rows[i].parent # p
            new == [rows |-> rows, dirty |-> dirty]
            n == Len(ix.rows)
<1>0. /\ ix \in Index /\ ParentsAreDirs(ix.rows) /\ KindsAgree(ix)
      /\ ~ix.dirty => ExclusionFollows(ix)
  BY DEF BatchInv
<1>1. /\ n \in Nat /\ DOMAIN ix.rows = 1..n /\ ix.dirty \in BOOLEAN
      /\ \A j \in 1..n : ix.rows[j] \in Row
      /\ ix.rows \in Seq(Row)
      /\ Live(ix) = {j \in 1..n : ix.rows[j].live}
  BY <1>0, IndexShape
<1>2. CASE ~ObjectKindOk(ix, frn, TRUE) \/ p = NoParent
  BY <1>2 DEF RenameDirInPlace, Refused
<1>3. CASE ~(~ObjectKindOk(ix, frn, TRUE) \/ p = NoParent)
  <2>1. RenameDirInPlace(ix, frn, name, parent).idx = new
    BY <1>3 DEF RenameDirInPlace, Accepted
  <2>2. i \in EntriesByFrn(ix, frn)
    OBVIOUS
  <2>3. i \in 1..n /\ i \in Live(ix)
    BY <2>2, <1>1 DEF EntriesByFrn
  <2>4. p \in Live(ix) /\ p \in 1..n /\ ix.rows[p].dir
    BY <1>3, <1>1, ParentFound
  <2>. HIDE DEF i, p
  <2>5. /\ mid \in [1..n -> Row]
        /\ mid[i] = [ix.rows[i] EXCEPT !.name = name, !.parent = p]
        /\ \A j \in 1..n : j # i => mid[j] = ix.rows[j]
    <3>1. ix.rows \in [1..n -> Row]
      BY <1>1, SeqDef
    <3>2. [ix.rows[i] EXCEPT !.name = name, !.parent = p] \in Row
      <4>1. ix.rows[i] \in Row
        BY <2>3, <1>1
      <4>2. p \in Nat
        BY <2>4, <1>1
      <4>3. name \in RowNames
        BY DEF RowNames
      <4>. QED BY <4>1, <4>2, <4>3 DEF Row
    <3>. QED BY <3>1, <3>2, <2>3
  <2>6. /\ mid[i].hidden = ix.rows[i].hidden /\ mid[i].parent = p
        /\ mid[i].frn = ix.rows[i].frn /\ mid[i].dir = ix.rows[i].dir
        /\ mid[i].live = ix.rows[i].live
        /\ mid[i].excl = ix.rows[i].excl
    <3>1. ix.rows[i] \in Row
      BY <2>3, <1>1
    <3>. QED BY <3>1, <2>5 DEF Row
  <2>. HIDE DEF mid
  <2>7. /\ rows \in [1..n -> Row]
        /\ rows[i] = [mid[i] EXCEPT !.excl = Inherits(mid, i)]
        /\ \A j \in 1..n : j # i => rows[j] = ix.rows[j]
    <3>1. Inherits(mid, i) \in BOOLEAN
      BY DEF Inherits
    <3>2. mid[i] \in Row
      BY <2>5, <2>3
    <3>3. [mid[i] EXCEPT !.excl = Inherits(mid, i)] \in Row
      BY <3>1, <3>2 DEF Row
    <3>. QED BY <3>3, <2>5, <2>3 DEF RecomputeExcluded
  <2>8. /\ rows[i].hidden = ix.rows[i].hidden /\ rows[i].parent = p
        /\ rows[i].frn = ix.rows[i].frn /\ rows[i].dir = ix.rows[i].dir
        /\ rows[i].live = ix.rows[i].live /\ rows[i].excl = Inherits(mid, i)
    <3>1. mid[i] \in Row
      BY <2>5, <2>3
    <3>. QED BY <3>1, <2>6, <2>7 DEF Row
  <2>. HIDE DEF rows
  <2>9. /\ new \in Index /\ DOMAIN new.rows = 1..n /\ new.rows = rows /\ new.dirty = dirty
        /\ Live(new) = Live(ix)
    <3>1. Live(new) = {j \in 1..n : rows[j].live} /\ dirty \in BOOLEAN
          /\ new \in Index /\ DOMAIN new.rows = 1..n
      BY <1>1, <2>7, IndexFromRows
    <3>2. new.rows = rows /\ new.dirty = dirty
      OBVIOUS
    <3>3. \A j \in 1..n : rows[j].live = ix.rows[j].live
      BY <2>6, <2>7, <2>8
    <3>. HIDE DEF new
    <3>. QED BY <3>1, <3>2, <3>3, <1>1
  <2>10. \A j \in 1..n : rows[j].dir = ix.rows[j].dir /\ rows[j].frn = ix.rows[j].frn
    BY <2>7, <2>8
  <2>. HIDE DEF new
  <2>11. ParentsAreDirs(new.rows)
    <3>1. ASSUME NEW j \in 1..n, rows[j].parent # NoParent
          PROVE  rows[j].parent \in 1..n /\ rows[rows[j].parent].dir
      <4>1. CASE j = i
        BY <4>1, <2>4, <2>8, <2>10
      <4>2. CASE j # i
        BY <4>2, <3>1, <2>7, <2>10, <1>0, <1>1 DEF ParentsAreDirs
      <4>. QED BY <4>1, <4>2
    <3>. QED BY <3>1, <2>9 DEF ParentsAreDirs
  <2>12. KindsAgree(new)
    BY <1>0, <1>1, <2>9, <2>10 DEF KindsAgree
  <2>13. ASSUME ~new.dirty PROVE ExclusionFollows(new)
    <3>1. ExclusionFollows(ix) /\ ix.rows[i].parent = p
      BY <2>13, <2>9, <1>0
    <3>2. ASSUME NEW S \in SUBSET Live(new), Closed(new, S), NEW j \in S
          PROVE  rows[j].excl = Inherits(rows, j)
      <4>1. S \in SUBSET Live(ix) /\ S \subseteq 1..n
        BY <2>9, <1>1
      <4>2. \A k \in 1..n : rows[k].parent = ix.rows[k].parent /\ rows[k].hidden = ix.rows[k].hidden
        BY <3>1, <2>7, <2>8
      <4>3. Closed(ix, S)
        BY <3>2, <4>1, <4>2, <2>9 DEF Closed
      <4>4. \A k \in S : ix.rows[k].excl = Inherits(ix.rows, k)
        BY <3>1, <4>1, <4>3 DEF ExclusionFollows
      <4>5. ASSUME NEW k \in S PROVE rows[k].excl = ix.rows[k].excl
        <5>1. CASE k # i
          BY <5>1, <4>1, <2>7
        <5>2. CASE k = i
          <6>1. p \notin {NoParent, i} => mid[p].excl = ix.rows[p].excl
            BY <2>4, <2>5
          <6>2. Inherits(mid, i) = Inherits(ix.rows, i)
            BY <6>1, <2>6, <3>1 DEF Inherits
          <6>. QED BY <5>2, <6>2, <2>8, <4>4
        <5>. QED BY <5>1, <5>2
      <4>6. ix.rows[j].parent # NoParent => ix.rows[j].parent \in S
        BY <4>3 DEF Closed
      <4>. QED BY <4>1, <4>2, <4>4, <4>5, <4>6 DEF Inherits
    <3>. QED BY <3>2, <2>9 DEF ExclusionFollows
  <2>. QED BY <2>1, <2>9, <2>11, <2>12, <2>13 DEF BatchInv
<1>. QED BY <1>2, <1>3

----------------------------------------------------------------------------
(***************************************************************************)
(* What one planned change does.                                           *)
(***************************************************************************)
\* The entry of a row to be added.
Entry(e) == e.frn \in Frn /\ e.name \in Names /\ e.dir \in BOOLEAN /\ e.hidden \in BOOLEAN

\* A new row.
LEMMA NewRowIs ==
  ASSUME NEW ix \in Index, NEW e, Entry(e), NEW parent \in Live(ix)
  PROVE  /\ NewRow(ix, e, parent) \in Row
         /\ NewRow(ix, e, parent).live /\ NewRow(ix, e, parent).parent = parent
         /\ NewRow(ix, e, parent).frn = e.frn /\ NewRow(ix, e, parent).dir = e.dir
         /\ NewRow(ix, e, parent).hidden = e.hidden
         /\ NewRow(ix, e, parent).excl = (e.hidden \/ ix.rows[parent].excl)
<1>1. parent \in Nat
  BY IndexShape
<1>2. (e.hidden \/ ix.rows[parent].excl) \in BOOLEAN
  OBVIOUS
<1>3. e.name \in RowNames
  BY DEF Entry, RowNames
<1>. QED BY <1>1, <1>2, <1>3 DEF NewRow, Row, Entry

\* A row is added for an object whose live rows, if any, are a file's, as the new one is.
LEMMA PushInv ==
  ASSUME NEW ix, BatchInv(ix), NEW e, Entry(e),
         NEW parent \in Live(ix), ix.rows[parent].dir,
         \A i \in EntriesByFrn(ix, e.frn) : ~ix.rows[i].dir /\ ~e.dir
  PROVE  BatchInv(PushRaw(ix, e, parent))
<1>. DEFINE row == NewRow(ix, e, parent)
            new == <<row>>
<1>1. ix \in Index /\ ix.rows \in Seq(Row)
  BY IndexShape DEF BatchInv
<1>2. /\ row \in Row /\ row.live /\ row.parent = parent /\ row.frn = e.frn
      /\ row.dir = e.dir /\ row.hidden = e.hidden
      /\ row.excl = (e.hidden \/ ix.rows[parent].excl)
  BY <1>1, NewRowIs
<1>. HIDE DEF row
<1>3. new \in Seq(Row) /\ DOMAIN new = 1..1 /\ new[1] = row
  BY <1>2
<1>4. Appendable(ix, new)
  <2>1. ASSUME NEW k \in 1..1 PROVE new[k] = row /\ \A j \in 1..1 : j = k
    BY <1>3
  <2>. HIDE DEF new
  <2>. QED BY <2>1, <1>2, <1>3 DEF Appendable
<1>5. BatchInv([ix EXCEPT !.rows = @ \o new])
  BY <1>4, AppendInv
<1>6. Append(ix.rows, row) = ix.rows \o new
  BY <1>1, <1>2
<1>7. PushRaw(ix, e, parent) = [ix EXCEPT !.rows = ix.rows \o new]
  BY <1>6 DEF PushRaw, row
<1>. QED BY <1>5, <1>7

\* The rows of an object after some were removed.
LEMMA ByFrnAfterTombstone ==
  ASSUME NEW ix, BatchInv(ix), NEW ids, NEW frn
  PROVE  EntriesByFrn(Tombstone(ix, ids), frn) = EntriesByFrn(ix, frn) \ ids
<1>1. Live(ix) \subseteq DOMAIN ix.rows
  BY DEF Live
<1>. QED BY <1>1, TombstoneInv DEF EntriesByFrn

LEMMA UpsertInv ==
  ASSUME NEW ix, BatchInv(ix), NEW e, Entry(e)
  PROVE  BatchInv(UpsertUsn(ix, e).idx)
<1>. DEFINE parent == ResolveParent(ix, e.frn, e.parent)
            gone == EntriesByRecord(ix, Record(e.frn))
            base == Tombstone(ix, gone)
            refused == \/ parent = NoParent
                       \/ ~ObjectKindOk(ix, e.frn, e.dir)
                       \/ ~e.dir /\ Cardinality(EntriesByFrn(ix, e.frn)) > 1
<1>1. CASE refused
  BY <1>1 DEF UpsertUsn, Refused
<1>2. CASE ~refused
  <2>1. UpsertUsn(ix, e).idx = PushRaw(base, e, parent)
    BY <1>2 DEF UpsertUsn, Accepted
  <2>2. /\ parent \in Live(ix) /\ ix.rows[parent].dir /\ ix.rows[parent].frn = e.parent
        /\ Record(e.frn) # Record(e.parent)
    BY <1>2, ParentFound
  <2>3. parent \notin gone
    BY <2>2 DEF EntriesByRecord
  <2>4. EntriesByFrn(ix, e.frn) \subseteq gone
    BY DEF EntriesByFrn, EntriesByRecord, Record
  <2>5. BatchInv(base) /\ parent \in Live(base) /\ base.rows[parent].dir
    <3>1. parent \in DOMAIN ix.rows
      BY <2>2 DEF Live
    <3>. QED BY <3>1, <2>2, <2>3, TombstoneInv
  <2>6. EntriesByFrn(base, e.frn) = {}
    BY <2>4, ByFrnAfterTombstone
  <2>. QED BY <2>1, <2>5, <2>6, PushInv
<1>. QED BY <1>1, <1>2

LEMMA UpsertLinkInv ==
  ASSUME NEW ix, BatchInv(ix), NEW e, Entry(e)
  PROVE  BatchInv(UpsertLinkUsn(ix, e).idx)
<1>. DEFINE parent == ResolveParent(ix, e.frn, e.parent)
            gone == OtherGenerations(ix, e.frn) \cup EntryByLink(ix, e.frn, e.parent, e.name)
            base == Tombstone(ix, gone)
            refused == e.dir \/ parent = NoParent \/ ~ObjectKindOk(ix, e.frn, FALSE)
<1>1. CASE refused
  BY <1>1 DEF UpsertLinkUsn, Refused
<1>2. CASE ~refused
  <2>1. UpsertLinkUsn(ix, e).idx = PushRaw(base, e, parent)
    BY <1>2 DEF UpsertLinkUsn, Accepted
  <2>2. /\ parent \in Live(ix) /\ ix.rows[parent].dir /\ ix.rows[parent].frn = e.parent
        /\ Record(e.frn) # Record(e.parent)
    <3>1. parent # NoParent
      BY <1>2
    <3>. QED BY <3>1, ParentFound
  <2>3. parent \notin gone
    BY <2>2 DEF EntriesByRecord, OtherGenerations, EntryByLink, EntriesByFrn
  <2>4. \A i \in EntriesByFrn(ix, e.frn) : ~ix.rows[i].dir
    BY <1>2 DEF ObjectKindOk
  <2>5. BatchInv(base) /\ parent \in Live(base) /\ base.rows[parent].dir
    <3>1. parent \in DOMAIN ix.rows
      BY <2>2 DEF Live
    <3>. QED BY <3>1, <2>2, <2>3, TombstoneInv
  <2>6. \A i \in EntriesByFrn(base, e.frn) : ~base.rows[i].dir /\ ~e.dir
    <3>1. \A i \in EntriesByFrn(ix, e.frn) : i \in DOMAIN ix.rows
      BY DEF EntriesByFrn, Live
    <3>2. ~e.dir
      BY <1>2
    <3>3. EntriesByFrn(base, e.frn) \subseteq EntriesByFrn(ix, e.frn)
      BY ByFrnAfterTombstone
    <3>4. \A i \in DOMAIN ix.rows : base.rows[i].dir = ix.rows[i].dir
      BY TombstoneInv
    <3>. HIDE DEF base
    <3>. QED BY <3>1, <3>2, <3>3, <3>4, <2>4
  <2>. QED BY <2>1, <2>5, <2>6, PushInv
<1>. QED BY <1>1, <1>2

FrnLinks == {s \in SUBSET (Frn \X Names) : IsFiniteSet(s)}

LEMMA ReconcileInv ==
  ASSUME NEW ix, BatchInv(ix), NEW frn \in Frn, NEW links \in FrnLinks,
         NEW hidden \in BOOLEAN
  PROVE  BatchInv(ReconcileFileLinks(ix, frn, links, hidden).idx)
<1>. DEFINE at(link) == ResolveParent(ix, frn, link[1])
            is(i, link) == ix.rows[i].parent = at(link) /\ ix.rows[i].name = link[2]
            kept == {i \in EntriesByFrn(ix, frn) : \E link \in links : is(i, link)}
            missing == {link \in links : \A i \in kept : ~is(i, link)}
            dropped == EntriesByRecord(ix, Record(frn)) \ kept
            base == Tombstone(ix, dropped)
            entry(link) == [frn |-> frn, name |-> link[2], dir |-> FALSE, hidden |-> hidden]
            seq == SetToSeq(missing)
            new == [k \in DOMAIN seq |-> NewRow(base, entry(seq[k]), at(seq[k]))]
            refused == \/ links = {}
                       \/ ~ObjectKindOk(ix, frn, FALSE)
                       \/ \E link \in links : at(link) = NoParent
<1>1. CASE refused
  BY <1>1 DEF ReconcileFileLinks, Refused
<1>2. CASE ~refused
  <2>1. ReconcileFileLinks(ix, frn, links, hidden).idx
          = UpdateObjectAttrs([base EXCEPT !.rows = @ \o new], frn, hidden)
    BY <1>2 DEF ReconcileFileLinks, Accepted, PushLinks
  <2>2. /\ missing \subseteq links /\ IsFiniteSet(missing)
        /\ \A link \in missing : link[2] \in Names
    <3>1. missing \subseteq links
      OBVIOUS
    <3>. HIDE DEF missing
    <3>2. IsFiniteSet(missing)
      BY <3>1, FS_Subset DEF FrnLinks
    <3>. QED BY <3>1, <3>2 DEF FrnLinks
  <2>3. ASSUME NEW link \in links
        PROVE  /\ at(link) \in Live(ix) /\ ix.rows[at(link)].dir
               /\ at(link) \notin dropped
    <3>1. at(link) # NoParent
      BY <1>2
    <3>2. /\ at(link) \in Live(ix) /\ ix.rows[at(link)].dir
          /\ ix.rows[at(link)].frn = link[1] /\ Record(frn) # Record(link[1])
      BY <3>1, ParentFound
    <3>. QED BY <3>2 DEF EntriesByRecord
  <2>4. /\ BatchInv(base) /\ base \in Index
        /\ \A link \in links : at(link) \in Live(base) /\ base.rows[at(link)].dir
    <3>1. Live(ix) \subseteq DOMAIN ix.rows
      BY DEF Live
    <3>2. BatchInv(base) /\ Live(base) = Live(ix) \ dropped
          /\ \A i \in DOMAIN ix.rows : base.rows[i].dir = ix.rows[i].dir
      BY TombstoneInv
    <3>. HIDE DEF base, dropped, at
    <3>. QED BY <3>1, <3>2, <2>3 DEF BatchInv
  <2>5. \A i \in EntriesByFrn(base, frn) : ~base.rows[i].dir
    <3>1. \A i \in EntriesByFrn(ix, frn) : i \in DOMAIN ix.rows /\ ~ix.rows[i].dir
      BY <1>2 DEF EntriesByFrn, Live, ObjectKindOk
    <3>2. EntriesByFrn(base, frn) \subseteq EntriesByFrn(ix, frn)
      BY ByFrnAfterTombstone
    <3>3. \A i \in DOMAIN ix.rows : base.rows[i].dir = ix.rows[i].dir
      BY TombstoneInv
    <3>. HIDE DEF base
    <3>. QED BY <3>1, <3>2, <3>3
  <2>. HIDE DEF kept, dropped, base
  <2>6. /\ Cardinality(missing) \in Nat
        /\ seq \in [1..Cardinality(missing) -> missing]
    <3>. HIDE DEF missing
    <3>. QED BY <2>2, SetInOrder
  <2>. DEFINE m == Cardinality(missing)
  <2>. HIDE DEF missing, seq, at
  <2>7. ASSUME NEW k \in 1..m
        PROVE  /\ new[k] \in Row /\ new[k].live /\ new[k].parent = at(seq[k])
               /\ new[k].frn = frn /\ ~new[k].dir /\ new[k].hidden = hidden
               /\ new[k].excl = (hidden \/ base.rows[at(seq[k])].excl)
               /\ new[k].parent \in Live(base) /\ base.rows[new[k].parent].dir
    <3>1. seq[k] \in missing /\ seq[k] \in links /\ DOMAIN seq = 1..m
      BY <2>2, <2>6
    <3>2. new[k] = NewRow(base, entry(seq[k]), at(seq[k]))
      BY <3>1
    <3>3. Entry(entry(seq[k]))
      BY <3>1, <2>2 DEF Entry
    <3>4. at(seq[k]) \in Live(base) /\ base.rows[at(seq[k])].dir
      BY <3>1, <2>4
    <3>5. /\ entry(seq[k]).frn = frn /\ entry(seq[k]).dir = FALSE
          /\ entry(seq[k]).hidden = hidden
      OBVIOUS
    <3>. HIDE DEF entry, new
    <3>. QED BY <3>2, <3>3, <3>4, <3>5, <2>4, NewRowIs
  <2>8. new \in Seq(Row) /\ DOMAIN new = 1..m
    <3>1. DOMAIN new = 1..m
      BY <2>6
    <3>2. new = [k \in 1..m |-> new[k]]
      BY <3>1
    <3>. HIDE DEF new
    <3>3. new \in [1..m -> Row]
      BY <3>2, <2>7
    <3>. QED BY <3>3, <2>6, FunctionIsSequence
  <2>. HIDE DEF new
  <2>9. Appendable(base, new)
    BY <2>5, <2>7, <2>8 DEF Appendable
  <2>10. BatchInv([base EXCEPT !.rows = @ \o new])
    BY <2>4, <2>9, AppendInv
  <2>. QED BY <2>1, <2>10, UpdateObjectAttrsInv
<1>. QED BY <1>1, <1>2

\* The records of the journal, and what a lookup answers.
Reasons == {"create", "delete", "rename_old", "rename_new", "hard_link", "basic_info"}
JournalRecords ==
  [frn : Frn, reasons : SUBSET Reasons, parent : Frn, name : Names, dir : BOOLEAN,
   hidden : BOOLEAN]
Answers == [kind : {"present", "gone", "failed"}, links : FrnLinks]

\* A planned change, with the answer it needs.
Planned(a) ==
  /\ a.frn \in Frn /\ a.last \in JournalRecords
  /\ NeedsLinks(a) => snaps[a.frn] \in Answers

LEMMA SettleIs ==
  ASSUME NEW st, NEW result
  PROVE  Settle(st, result).idx = result.idx
BY DEF Settle

\* The event of a planned change as a row to be added.
LEMMA EventEntryIs ==
  ASSUME NEW a, Planned(a)
  PROVE  Entry(EventEntry(a))
BY DEF Planned, EventEntry, Entry, JournalRecords

\* Any planned change keeps what a batch maintains.
LEMMA ApplyObjectInv ==
  ASSUME NEW st, BatchInv(st.idx), NEW a, Planned(a)
  PROVE  BatchInv(ApplyObject(st, a).idx)
<1>0. a.last.hidden \in BOOLEAN /\ a.last.name \in Names /\ a.frn \in Frn
  BY DEF Planned, JournalRecords
<1>1. BatchInv(DeleteFrn(st.idx, a.frn))
  BY TombstoneInv DEF DeleteFrn
<1>2. BatchInv(UpdateObjectAttrs(st.idx, a.frn, a.last.hidden))
  BY <1>0, UpdateObjectAttrsInv
<1>3. BatchInv(UpsertUsn(st.idx, EventEntry(a)).idx)
  BY EventEntryIs, UpsertInv
<1>4. BatchInv(UpsertLinkUsn(st.idx, EventEntry(a)).idx)
  BY EventEntryIs, UpsertLinkInv
<1>5. BatchInv(ApplyFileRename(st, a).idx)
  <2>1. BatchInv(Tombstone(st.idx, OldLinkRows(st.idx, a)))
    BY TombstoneInv
  <2>2. BatchInv(UpsertLinkUsn(Tombstone(st.idx, OldLinkRows(st.idx, a)), EventEntry(a)).idx)
    BY <2>1, EventEntryIs, UpsertLinkInv
  <2>3. Refused(st.idx).idx = st.idx
    BY DEF Refused
  <2>. QED BY <2>2, <2>3, <1>3, SettleIs DEF ApplyFileRename
<1>6. ASSUME EntriesByFrn(st.idx, a.frn) # {}
      PROVE  BatchInv(ApplyDirRename(st, a).idx)
  <2>. DEFINE moved == RenameDirInPlace(st.idx, a.frn, a.last.name, a.last.parent)
  <2>1. BatchInv(moved.idx)
    BY <1>0, <1>6, RenameDirInv
  <2>. HIDE DEF moved
  <2>2. BatchInv(UpdateObjectAttrs(moved.idx, a.frn, a.last.hidden))
    BY <2>1, <1>0, UpdateObjectAttrsInv
  <2>3. \A ix : Accepted(ix).idx = ix
    BY DEF Accepted
  <2>. QED BY <2>1, <2>2, <2>3, SettleIs DEF ApplyDirRename, moved
<1>7. BatchInv(ApplyUpsert(st, a).idx)
  <2>1. CASE a.last.dir /\ \E i \in EntriesByFrn(st.idx, a.frn) : st.idx.rows[i].dir
    <3>1. EntriesByFrn(st.idx, a.frn) # {}
      BY <2>1
    <3>. QED BY <3>1, <2>1, <1>6 DEF ApplyUpsert
  <2>2. CASE ~(a.last.dir /\ \E i \in EntriesByFrn(st.idx, a.frn) : st.idx.rows[i].dir)
    BY <2>2, <1>3, <1>4, <1>5, SettleIs DEF ApplyUpsert
  <2>. QED BY <2>1, <2>2
<1>8. NeedsLinks(a) => BatchInv(ReconcileFileLinks(st.idx, a.frn, snaps[a.frn].links,
                                                   a.last.hidden).idx)
  <2>1. NeedsLinks(a) => snaps[a.frn].links \in FrnLinks
    BY DEF Planned, Answers
  <2>. QED BY <2>1, <1>0, ReconcileInv
<1>. DEFINE answer == IF NeedsLinks(a) THEN snaps[a.frn].kind ELSE "none"
<1>9. CASE answer = "present"
  <2>1. NeedsLinks(a)
    BY <1>9
  <2>2. ApplyObject(st, a) = Settle(st, ReconcileFileLinks(st.idx, a.frn, snaps[a.frn].links,
                                                           a.last.hidden))
    BY <1>9 DEF ApplyObject
  <2>. QED BY <2>1, <2>2, <1>8, SettleIs
<1>10. CASE answer # "present"
  <2>1. \A ix : Accepted(ix).idx = ix /\ Refused(ix).idx = ix
    BY DEF Accepted, Refused
  <2>. HIDE DEF answer
  <2>2. \/ ApplyObject(st, a) = Settle(st, Accepted(DeleteFrn(st.idx, a.frn)))
        \/ ApplyObject(st, a) = Settle(st, Refused(st.idx))
        \/ ApplyObject(st, a) = ApplyUpsert(st, a)
        \/ ApplyObject(st, a) = Settle(st, Accepted(UpdateObjectAttrs(st.idx, a.frn,
                                                                      a.last.hidden)))
        \/ ApplyObject(st, a) = st
    BY <1>10 DEF ApplyObject, answer
  <2>. QED BY <2>1, <2>2, <1>1, <1>2, <1>7, SettleIs
<1>. QED BY <1>9, <1>10

----------------------------------------------------------------------------
(***************************************************************************)
(* Recursive functions on 0..n: the walks upwards, and a batch applied.    *)
(***************************************************************************)
\* The functions that start at first and go on by step[k] at k.
Iterates(n, S, first, step) ==
  {f \in [0..n -> S] : f[0] = first /\ \A k \in 1..n : f[k] = step[k][f[k - 1]]}

\* A function on 0..n defined from its first value and the step to each next one exists.
LEMMA RecursionExists ==
  ASSUME NEW n \in Nat, NEW S, NEW first \in S, NEW step \in [1..n -> [S -> S]]
  PROVE  Iterates(n, S, first, step) # {}
<1>. DEFINE Good(k, f) == f[0] = first /\ \A j \in 1..k : f[j] = step[j][f[j - 1]]
            B == {k \in 0..n : \E f \in [0..k -> S] : Good(k, f)}
<1>1. 0 \in B
  <2>1. [k \in 0..0 |-> first] \in [0..0 -> S] /\ Good(0, [k \in 0..0 |-> first])
    OBVIOUS
  <2>2. \E f \in [0..0 -> S] : Good(0, f)
    BY <2>1
  <2>. HIDE DEF Good
  <2>. QED BY <2>2
<1>2. ASSUME NEW k \in 1..n, k - 1 \in B PROVE k \in B
  <2>1. PICK f \in [0..(k - 1) -> S] : Good(k - 1, f)
    BY <1>2
  <2>. DEFINE next == step[k][f[k - 1]]
              g == [j \in 0..k |-> IF j = k THEN next ELSE f[j]]
  <2>2. next \in S
    <3>1. step[k] \in [S -> S] /\ f[k - 1] \in S
      OBVIOUS
    <3>. QED BY <3>1
  <2>. HIDE DEF next
  <2>3. g \in [0..k -> S]
    BY <2>2
  <2>4. g[0] = first
    BY <2>1
  <2>5. ASSUME NEW j \in 1..k PROVE g[j] = step[j][g[j - 1]]
    <3>1. CASE j = k
      <4>1. g[j] = next /\ g[j - 1] = f[k - 1]
        BY <3>1
      <4>. QED BY <4>1, <3>1 DEF next
    <3>2. CASE j # k
      <4>1. j \in 1..(k - 1) /\ j - 1 \in 0..(k - 1) /\ j - 1 # k
        BY <3>2
      <4>. QED BY <4>1, <2>1
    <3>. QED BY <3>1, <3>2
  <2>6. \E h \in [0..k -> S] : Good(k, h)
    BY <2>3, <2>4, <2>5
  <2>. HIDE DEF Good
  <2>. QED BY <2>6
<1>3. 0..n \subseteq B
  <2>. HIDE DEF B
  <2>. QED BY <1>1, <1>2, InductUpTo
<1>4. \E f \in [0..n -> S] : Good(n, f)
  BY <1>3
<1>. QED BY <1>4 DEF Iterates

\* One step upwards; from no row it leads nowhere.
Above(rows, j) == IF j = NoParent THEN NoParent ELSE rows[j].parent

\* The rows of an index whose parents are rows.
Tree(rows) == rows \in Seq(Row) /\ ParentsAreDirs(rows)

LEMMA TreeShape ==
  ASSUME NEW rows, Tree(rows)
  PROVE  /\ Len(rows) \in Nat /\ DOMAIN rows = 1..Len(rows)
         /\ \A i \in 1..Len(rows) : rows[i] \in Row
         /\ \A i \in 0..Len(rows) : Above(rows, i) \in 0..Len(rows)
<1>1. Len(rows) \in Nat /\ DOMAIN rows = 1..Len(rows) /\ \A i \in 1..Len(rows) : rows[i] \in Row
  BY LenProperties, ElementOfSeq DEF Tree
<1>2. ASSUME NEW i \in 0..Len(rows) PROVE Above(rows, i) \in 0..Len(rows)
  <2>1. CASE i = NoParent
    BY <2>1, <1>1 DEF Above, NoParent
  <2>2. CASE i # NoParent
    <3>1. i \in 1..Len(rows)
      BY <2>2, <1>1 DEF NoParent
    <3>2. rows[i].parent = NoParent \/ rows[i].parent \in 1..Len(rows)
      BY <3>1, <1>1 DEF Tree, ParentsAreDirs
    <3>. QED BY <2>2, <3>2, <1>1 DEF Above, NoParent
  <2>. QED BY <2>1, <2>2
<1>. QED BY <1>1, <1>2

\* The walk is what its equations say.
LEMMA WalkIs ==
  ASSUME NEW rows, Tree(rows), NEW i \in 0..Len(rows)
  PROVE  /\ Walk(rows, i) \in [0..Len(rows) -> 0..Len(rows)]
         /\ Walk(rows, i)[0] = i
         /\ \A k \in 1..Len(rows) : Walk(rows, i)[k] = Above(rows, Walk(rows, i)[k - 1])
<1>. DEFINE n == Len(rows)
            S == 0..n
            step == [k \in 1..n |-> [j \in S |-> Above(rows, j)]]
            Def(f) == f = [k \in 0..n |-> IF k = 0 THEN i ELSE Above(rows, f[k - 1])]
            up == CHOOSE f : Def(f)
<1>1. n \in Nat /\ \A j \in S : Above(rows, j) \in S
  BY TreeShape
<1>2. step \in [1..n -> [S -> S]]
  BY <1>1
<1>3. PICK f \in [0..n -> S] : f[0] = i /\ \A k \in 1..n : f[k] = step[k][f[k - 1]]
  <2>1. i \in S
    OBVIOUS
  <2>. HIDE DEF S, step, n
  <2>2. Iterates(n, S, i, step) # {}
    BY <1>1, <1>2, <2>1, RecursionExists
  <2>. QED BY <2>2 DEF Iterates
<1>4. \A k \in 1..n : f[k] = Above(rows, f[k - 1])
  <2>. HIDE DEF n
  <2>1. ASSUME NEW k \in 1..n PROVE f[k] = Above(rows, f[k - 1])
    <3>1. k - 1 \in 0..n
      BY <1>1
    <3>. HIDE DEF S
    <3>2. f[k - 1] \in S
      BY <3>1
    <3>3. step[k][f[k - 1]] = Above(rows, f[k - 1])
      BY <3>2
    <3>. QED BY <3>3, <1>3
  <2>. QED BY <2>1
<1>5. Def(f)
  <2>1. \A k \in 0..n : f[k] = IF k = 0 THEN i ELSE Above(rows, f[k - 1])
    <3>1. \A k \in 0..n : k = 0 \/ k \in 1..n
      BY <1>1
    <3>. HIDE DEF n
    <3>. QED BY <3>1, <1>3, <1>4
  <2>2. f = [k \in 0..n |-> f[k]]
    BY <1>3
  <2>. HIDE DEF n
  <2>. QED BY <2>1, <2>2
<1>6. Def(up)
  <2>. HIDE DEF Def
  <2>. QED BY <1>5
<1>7. Walk(rows, i) = up
  BY DEF Walk, Above
<1>. HIDE DEF up
<1>8. /\ up = [k \in 0..n |-> up[k]]
      /\ \A k \in 0..n : up[k] = IF k = 0 THEN i ELSE Above(rows, up[k - 1])
  BY <1>6
<1>9. up[0] = i /\ \A k \in 1..n : up[k] = Above(rows, up[k - 1])
  <2>1. 0 \in 0..n /\ \A k \in 1..n : k \in 0..n /\ k # 0
    BY <1>1
  <2>. HIDE DEF n
  <2>. QED BY <2>1, <1>8
<1>10. \A k \in 0..n : up[k] \in S
  <2>. DEFINE A == {k \in 0..n : up[k] \in S}
  <2>1. 0 \in A
    BY <1>1, <1>9
  <2>2. ASSUME NEW k \in 1..n, k - 1 \in A PROVE k \in A
    <3>1. k \in 0..n /\ up[k] = Above(rows, up[k - 1]) /\ up[k - 1] \in S
      BY <2>2, <1>1, <1>9
    <3>2. Above(rows, up[k - 1]) \in S
      BY <3>1, <1>1
    <3>. QED BY <3>1, <3>2
  <2>3. 0..n \subseteq A
    <3>. HIDE DEF A, n
    <3>. QED BY <1>1, <2>1, <2>2, InductUpTo
  <2>. QED BY <2>3
<1>. QED BY <1>7, <1>8, <1>9, <1>10

\* Walks over the same parents are the same.
LEMMA SameWalks ==
  ASSUME NEW rows, Tree(rows), NEW other, Tree(other), Len(other) = Len(rows),
         \A j \in 1..Len(rows) : other[j].parent = rows[j].parent,
         NEW i \in 0..Len(rows)
  PROVE  Walk(other, i) = Walk(rows, i) /\ Chain(other, i) = Chain(rows, i)
<1>. DEFINE n == Len(rows)
            up == Walk(rows, i)
            o == Walk(other, i)
<1>1. n \in Nat
  BY TreeShape
<1>2. /\ up \in [0..n -> 0..n] /\ up[0] = i
      /\ \A k \in 1..n : up[k] = Above(rows, up[k - 1])
  BY WalkIs
<1>3. /\ o \in [0..n -> 0..n] /\ o[0] = i
      /\ \A k \in 1..n : o[k] = Above(other, o[k - 1])
  BY WalkIs
<1>4. \A j \in 0..n : Above(other, j) = Above(rows, j)
  BY <1>1 DEF Above, NoParent
<1>. HIDE DEF up, o
<1>5. \A k \in 0..n : o[k] = up[k]
  <2>. DEFINE A == {k \in 0..n : o[k] = up[k]}
  <2>1. 0 \in A
    BY <1>1, <1>2, <1>3
  <2>2. ASSUME NEW k \in 1..n, k - 1 \in A PROVE k \in A
    <3>1. k - 1 \in 0..n /\ k \in 0..n
      BY <1>1
    <3>2. o[k - 1] = up[k - 1] /\ up[k - 1] \in 0..n
      BY <2>2, <3>1, <1>2
    <3>. QED BY <3>1, <3>2, <1>2, <1>3, <1>4
  <2>3. 0..n \subseteq A
    <3>. HIDE DEF A, n
    <3>. QED BY <1>1, <2>1, <2>2, InductUpTo
  <2>. QED BY <2>3
<1>6. o = up
  BY <1>2, <1>3, <1>5
<1>. QED BY <1>6 DEF up, o, Chain

\* The walk from a row goes on as the walk from its parent.
LEMMA WalkShifts ==
  ASSUME NEW rows, Tree(rows), NEW i \in 1..Len(rows)
  PROVE  /\ rows[i].parent \in 0..Len(rows)
         /\ \A k \in 1..Len(rows) : Walk(rows, i)[k] = Walk(rows, rows[i].parent)[k - 1]
<1>. DEFINE n == Len(rows)
            p == rows[i].parent
            up == Walk(rows, i)
            o == Walk(rows, p)
<1>1. n \in Nat /\ i \in 0..n /\ Above(rows, i) = p /\ p \in 0..n
  <2>1. n \in Nat /\ \A j \in 0..n : Above(rows, j) \in 0..n
    BY TreeShape
  <2>2. i \in 0..n /\ Above(rows, i) = p
    BY <2>1 DEF Above, NoParent
  <2>. QED BY <2>1, <2>2
<1>2. /\ up \in [0..n -> 0..n] /\ up[0] = i
      /\ \A k \in 1..n : up[k] = Above(rows, up[k - 1])
  BY <1>1, WalkIs
<1>3. /\ o \in [0..n -> 0..n] /\ o[0] = p
      /\ \A k \in 1..n : o[k] = Above(rows, o[k - 1])
  BY <1>1, WalkIs
<1>. HIDE DEF up, o, p
<1>4. 0..n \subseteq {k \in 0..n : k = 0 \/ up[k] = o[k - 1]}
  <2>. DEFINE A == {k \in 0..n : k = 0 \/ up[k] = o[k - 1]}
  <2>1. 0 \in A
    BY <1>1
  <2>2. ASSUME NEW k \in 1..n, k - 1 \in A PROVE k \in A
    <3>1. CASE k = 1
      <4>1. up[1] = Above(rows, up[0])
        BY <3>1, <1>2
      <4>. QED BY <4>1, <3>1, <1>1, <1>2, <1>3
    <3>2. CASE k # 1
      <4>1. k - 1 \in 1..n /\ k \in 0..n
        BY <3>2, <1>1
      <4>2. up[k - 1] = o[(k - 1) - 1]
        BY <4>1, <2>2
      <4>3. up[k] = Above(rows, up[k - 1]) /\ o[k - 1] = Above(rows, o[(k - 1) - 1])
        BY <4>1, <1>2, <1>3
      <4>. QED BY <4>1, <4>2, <4>3
    <3>. QED BY <3>1, <3>2
  <2>. HIDE DEF A, n
  <2>3. 0..n \subseteq A
    BY <1>1, <2>1, <2>2, InductUpTo
  <2>. QED BY <2>3 DEF A
<1>. QED BY <1>1, <1>4 DEF up, o, p

\* A walk that reached the root, or nothing, stays at nothing.
LEMMA WalkEnds ==
  ASSUME NEW rows, Tree(rows), NEW i \in 0..Len(rows), NEW m \in 0..Len(rows),
         \/ Walk(rows, i)[m] = NoParent
         \/ Walk(rows, i)[m] = Root /\ rows[Root].parent = NoParent
  PROVE  \A k \in (m + 1)..Len(rows) : Walk(rows, i)[k] = NoParent
<1>. DEFINE n == Len(rows)
            up == Walk(rows, i)
            A == {k \in 0..n : k > m => up[k] = NoParent}
<1>1. n \in Nat /\ m \in Nat /\ m <= n
  BY TreeShape
<1>2. /\ up \in [0..n -> 0..n] /\ up[0] = i
      /\ \A k \in 1..n : up[k] = Above(rows, up[k - 1])
  BY WalkIs
<1>. HIDE DEF up, n
<1>3. up[m] = NoParent \/ (up[m] = Root /\ rows[Root].parent = NoParent)
  BY DEF up
<1>4. 0 \in A
  BY <1>1
<1>5. ASSUME NEW k \in 1..n, k - 1 \in A PROVE k \in A
  <2>1. k \in 0..n /\ up[k] = Above(rows, up[k - 1])
    BY <1>1, <1>2
  <2>2. CASE k = m + 1
    <3>1. k - 1 = m
      BY <2>2, <1>1
    <3>. QED BY <3>1, <2>1, <1>3 DEF Above
  <2>3. CASE k > m + 1
    <3>1. up[k - 1] = NoParent
      BY <2>3, <1>1, <1>5
    <3>. QED BY <3>1, <2>1 DEF Above
  <2>4. CASE k <= m
    BY <2>4, <2>1, <1>1
  <2>. QED BY <2>2, <2>3, <2>4, <1>1
<1>6. 0..n \subseteq A
  <2>. HIDE DEF A
  <2>. QED BY <1>1, <1>4, <1>5, InductUpTo
<1>. QED BY <1>6, <1>1 DEF up, n

\* What hangs from the root below its parent: the row, and what its parent hangs from.
LEMMA ChainIs ==
  ASSUME NEW rows, Tree(rows), NEW i \in 1..Len(rows), Root \in Chain(rows, i),
         rows[Root].parent = NoParent
  PROVE  LET p == rows[i].parent
         IN  /\ i = Root => Chain(rows, i) = {i}
             /\ i # Root => /\ p \in 1..Len(rows) /\ p # i
                            /\ Chain(rows, i) = {i} \cup Chain(rows, p)
                            /\ \A m \in 1..Len(rows) :
                                 Walk(rows, i)[m] = Root => Walk(rows, p)[m - 1] = Root
                            /\ Root \in Chain(rows, p)
<1>. DEFINE n == Len(rows)
            p == rows[i].parent
            up == Walk(rows, i)
            o == Walk(rows, p)
<1>1. n \in Nat /\ i \in 0..n /\ p \in 0..n
  <2>1. n \in Nat
    BY TreeShape
  <2>. QED BY <2>1, WalkShifts
<1>2. /\ up \in [0..n -> 0..n] /\ up[0] = i
      /\ \A k \in 1..n : up[k] = Above(rows, up[k - 1])
  BY <1>1, WalkIs
<1>3. o \in [0..n -> 0..n] /\ o[0] = p
  BY <1>1, WalkIs
<1>4. \A k \in 1..n : up[k] = o[k - 1]
  BY WalkShifts
<1>5. /\ Chain(rows, i) = {up[k] : k \in 0..n} \ {NoParent}
      /\ Chain(rows, p) = {o[k] : k \in 0..n} \ {NoParent}
  BY DEF Chain
<1>6. PICK m \in 0..n : up[m] = Root
  BY <1>5
<1>7. CASE i = Root
  <2>1. \A k \in 1..n : up[k] = NoParent
    <3>1. 0 \in 0..n /\ up[0] = Root
      BY <1>1, <1>2, <1>7
    <3>2. \A k \in (0 + 1)..n : up[k] = NoParent
      BY <1>1, <3>1, WalkEnds
    <3>. QED BY <3>2
  <2>2. i # NoParent
    BY <1>7 DEF Root, NoParent
  <2>. HIDE DEF up, o
  <2>3. Chain(rows, i) = {i}
    BY <2>1, <2>2, <1>1, <1>2, <1>5
  <2>. QED BY <2>3, <1>7
<1>8. CASE i # Root
  <2>1. m \in 1..n /\ o[m - 1] = Root
    BY <1>1, <1>2, <1>4, <1>6, <1>8
  <2>2. \A k \in m..n : o[k] = NoParent
    <3>1. m - 1 \in 0..n /\ (m - 1) + 1 = m
      BY <2>1, <1>1
    <3>2. \A k \in ((m - 1) + 1)..n : o[k] = NoParent
      BY <3>1, <2>1, <1>1, WalkEnds
    <3>. QED BY <3>1, <3>2
  <2>3. p # NoParent
    <3>1. ASSUME p = NoParent PROVE FALSE
      <4>1. \A k \in (0 + 1)..n : o[k] = NoParent
        BY <3>1, <1>1, <1>3, WalkEnds
      <4>2. o[m - 1] = NoParent
        <5>1. m - 1 = 0 \/ m - 1 \in (0 + 1)..n
          BY <2>1, <1>1
        <5>. QED BY <5>1, <4>1, <3>1, <1>3
      <4>. QED BY <4>2, <2>1 DEF Root, NoParent
    <3>. QED BY <3>1
  <2>4. p # i
    <3>1. ASSUME p = i PROVE FALSE
      <4>. DEFINE A == {k \in 0..n : up[k] = i}
      <4>. HIDE DEF up, o, p
      <4>1. 0 \in A
        BY <1>1, <1>2
      <4>2. ASSUME NEW k \in 1..n, k - 1 \in A PROVE k \in A
        <5>1. up[k - 1] = i /\ k \in 0..n
          BY <4>2, <1>1
        <5>2. Above(rows, i) = p
          BY <1>1 DEF Above, NoParent, p
        <5>. QED BY <5>1, <5>2, <3>1, <1>2
      <4>3. 0..n \subseteq A
        <5>. HIDE DEF A, n
        <5>. QED BY <1>1, <4>1, <4>2, InductUpTo
      <4>. QED BY <4>3, <1>6, <1>8
    <3>. QED BY <3>1
  <2>5. Root \in Chain(rows, p)
    <3>1. m - 1 \in 0..n
      BY <2>1, <1>1
    <3>. HIDE DEF up, o
    <3>. QED BY <3>1, <2>1, <1>5 DEF Root, NoParent
  <2>6. Chain(rows, i) = {i} \cup Chain(rows, p)
    <3>. HIDE DEF up, o, p
    <3>1. ASSUME NEW x \in Chain(rows, i) PROVE x \in {i} \cup Chain(rows, p)
      <4>1. PICK k \in 0..n : x = up[k]
        BY <1>5, <3>1
      <4>2. x # NoParent
        BY <1>5, <3>1
      <4>3. CASE k = 0
        BY <4>1, <4>3, <1>2
      <4>4. CASE k # 0
        <5>1. k \in 1..n /\ k - 1 \in 0..n
          BY <4>4, <1>1
        <5>. QED BY <5>1, <4>1, <4>2, <1>4, <1>5
      <4>. QED BY <4>3, <4>4
    <3>2. ASSUME NEW x \in Chain(rows, p) PROVE x \in Chain(rows, i)
      <4>1. PICK k \in 0..n : x = o[k]
        BY <1>5, <3>2
      <4>2. x # NoParent
        BY <1>5, <3>2
      <4>3. k \notin m..n
        BY <4>1, <4>2, <2>2
      <4>4. k + 1 \in 1..n /\ (k + 1) - 1 = k /\ k + 1 \in 0..n
        BY <4>3, <2>1, <1>1
      <4>5. up[k + 1] = o[k]
        BY <4>4, <1>4
      <4>. QED BY <4>1, <4>2, <4>4, <4>5, <1>5
    <3>3. i \in Chain(rows, i)
      <4>1. i # NoParent /\ 0 \in 0..n
        BY <1>1 DEF NoParent
      <4>. QED BY <4>1, <1>2, <1>5
    <3>. QED BY <3>1, <3>2, <3>3
  <2>7. p \in 1..n
    BY <2>3, <1>1 DEF NoParent
  <2>. HIDE DEF up, o, p
  <2>8. \A k \in 1..n : up[k] = Root => o[k - 1] = Root
    BY <1>4
  <2>. QED BY <2>4, <2>5, <2>6, <2>7, <2>8, <1>8 DEF up, o, p
<1>. QED BY <1>7, <1>8

----------------------------------------------------------------------------
(***************************************************************************)
(* The batch boundary: what queries read.                                  *)
(***************************************************************************)
\* Every live row has the exclusion of the directories above it.
Inherited(ix) ==
  \A i \in Live(ix) :
    ix.rows[i].excl = \E j \in Chain(ix.rows, i) : ix.rows[j].hidden

\* An index between batches.
Served(ix) ==
  /\ ix \in Index /\ ParentsAreDirs(ix.rows) /\ ~ix.dirty
  /\ ValidLiveTopology(ix)
  /\ Inherited(ix)

\* Two indexes that differ in the exclusion bits only.
LEMMA SameTopology ==
  ASSUME NEW ix, ix \in Index, ParentsAreDirs(ix.rows),
         NEW new, new \in Index, ParentsAreDirs(new.rows),
         DOMAIN new.rows = DOMAIN ix.rows,
         \A i \in DOMAIN ix.rows :
           /\ new.rows[i].frn = ix.rows[i].frn /\ new.rows[i].parent = ix.rows[i].parent
           /\ new.rows[i].name = ix.rows[i].name /\ new.rows[i].dir = ix.rows[i].dir
           /\ new.rows[i].live = ix.rows[i].live
  PROVE  /\ Live(new) = Live(ix)
         /\ \A i \in DOMAIN ix.rows : Chain(new.rows, i) = Chain(ix.rows, i)
         /\ ValidLiveTopology(ix) => ValidLiveTopology(new)
<1>. DEFINE n == Len(ix.rows)
<1>1. /\ n \in Nat /\ DOMAIN ix.rows = 1..n /\ Len(new.rows) \in Nat
      /\ DOMAIN new.rows = 1..Len(new.rows)
      /\ ix.rows \in Seq(Row) /\ new.rows \in Seq(Row)
  BY IndexShape
<1>2. Len(new.rows) = n
  BY <1>1, LenProperties
<1>3. Live(new) = Live(ix)
  BY DEF Live
<1>4. ASSUME NEW i \in 1..n PROVE Chain(new.rows, i) = Chain(ix.rows, i)
  <2>1. Tree(ix.rows) /\ Tree(new.rows) /\ i \in 0..Len(ix.rows)
    BY <1>1 DEF Tree
  <2>. QED BY <1>1, <1>2, <2>1, SameWalks
<1>5. Live(ix) \subseteq 1..n
  BY <1>1 DEF Live
<1>6. ASSUME ValidLiveTopology(ix) PROVE ValidLiveTopology(new)
  <2>1. Root \in Live(ix) /\ ix.rows[Root].dir /\ ix.rows[Root].parent = NoParent
    BY <1>6 DEF ValidLiveTopology
  <2>2. ValidObjectGroups(new)
    BY <1>6, <1>1, <1>3, <1>5 DEF ValidLiveTopology, ValidObjectGroups
  <2>3. UniqueLinks(new)
    BY <1>6, <1>1, <1>3, <1>5 DEF ValidLiveTopology, UniqueLinks
  <2>4. LiveDirectoryParents(new)
    BY <1>6, <1>1, <1>3, <1>5 DEF ValidLiveTopology, LiveDirectoryParents
  <2>5. \A i \in Live(new) : Root \in Chain(new.rows, i)
    BY <1>6, <1>3, <1>4, <1>5 DEF ValidLiveTopology
  <2>. QED BY <2>1, <2>2, <2>3, <2>4, <2>5, <1>1, <1>3, <1>5 DEF ValidLiveTopology
<1>. QED BY <1>1, <1>3, <1>4, <1>6

\* The live rows of a sound index are closed, and each hangs from the root.
LEMMA SoundRows ==
  ASSUME NEW ix, ix \in Index, ParentsAreDirs(ix.rows), ValidLiveTopology(ix)
  PROVE  /\ Tree(ix.rows) /\ Closed(ix, Live(ix)) /\ Live(ix) \subseteq 1..Len(ix.rows)
         /\ Root \in Live(ix) /\ ix.rows[Root].parent = NoParent
         /\ \A i \in Live(ix) : Root \in Chain(ix.rows, i)
<1>1. ix.rows \in Seq(Row) /\ Live(ix) \subseteq 1..Len(ix.rows)
  BY IndexShape
<1>2. /\ Root \in Live(ix) /\ ix.rows[Root].parent = NoParent
      /\ \A i \in Live(ix) : Root \in Chain(ix.rows, i)
      /\ \A i \in Live(ix) \ {Root} : ix.rows[i].parent \in Live(ix)
  BY DEF ValidLiveTopology, LiveDirectoryParents
<1>3. Closed(ix, Live(ix))
  BY <1>2 DEF Closed
<1>. QED BY <1>1, <1>2, <1>3 DEF Tree

\* Bit by bit or along the whole walk: on a sound topology it is the same.
LEMMA FollowsIsInherited ==
  ASSUME NEW ix, ix \in Index, ParentsAreDirs(ix.rows), ValidLiveTopology(ix)
  PROVE  (\A i \in Live(ix) : ix.rows[i].excl = Inherits(ix.rows, i)) <=> Inherited(ix)
<1>. DEFINE rows == ix.rows
            n == Len(rows)
            L == Live(ix)
            Hides(i) == \E j \in Chain(rows, i) : rows[j].hidden
<1>1. /\ Tree(rows) /\ Closed(ix, L) /\ L \subseteq 1..n
      /\ Root \in L /\ rows[Root].parent = NoParent
      /\ \A i \in L : Root \in Chain(rows, i)
  BY SoundRows
<1>2. /\ n \in Nat /\ \A i \in 1..n : rows[i] \in Row
  BY <1>1, TreeShape
<1>3. ASSUME NEW i \in L
      PROVE  Hides(i) <=> \/ rows[i].hidden
                          \/ rows[i].parent \notin {NoParent, i} /\ Hides(rows[i].parent)
  <2>. DEFINE p == rows[i].parent
  <2>1. i \in 1..n /\ Root \in Chain(rows, i)
    BY <1>1
  <2>2. CASE i = Root
    <3>1. Chain(rows, i) = {i} /\ p = NoParent
      BY <2>1, <2>2, <1>1, ChainIs
    <3>. QED BY <3>1
  <2>3. CASE i # Root
    <3>1. p \in 1..n /\ p # i /\ Chain(rows, i) = {i} \cup Chain(rows, p)
      BY <2>1, <2>3, <1>1, ChainIs
    <3>. QED BY <3>1 DEF NoParent
  <2>. QED BY <2>2, <2>3
<1>4. ASSUME Inherited(ix), NEW i \in L PROVE rows[i].excl = Inherits(rows, i)
  <2>1. rows[i].excl = Hides(i)
    BY <1>4 DEF Inherited
  <2>2. rows[i].parent # NoParent => rows[i].parent \in L
    BY <1>1 DEF Closed
  <2>3. rows[i].parent # NoParent => rows[rows[i].parent].excl = Hides(rows[i].parent)
    BY <2>2, <1>4 DEF Inherited
  <2>4. rows[i].excl \in BOOLEAN
    BY <1>1, <1>2 DEF Row
  <2>. HIDE DEF Hides
  <2>. QED BY <2>1, <2>3, <2>4, <1>3 DEF Inherits
<1>5. ASSUME \A i \in L : rows[i].excl = Inherits(rows, i)
      PROVE  Inherited(ix)
  <2>. DEFINE At(m) == \A i \in L : Walk(rows, i)[m] = Root => rows[i].excl = Hides(i)
              A == {m \in 0..n : At(m)}
  <2>0. ASSUME NEW i \in L PROVE Hides(i) \in BOOLEAN /\ rows[i].excl \in BOOLEAN
    BY <1>1, <1>2 DEF Row
  <2>. HIDE DEF Hides
  <2>1. ASSUME NEW i \in L, i = Root PROVE rows[i].excl = Hides(i)
    <3>1. rows[i].parent = NoParent
      BY <2>1, <1>1
    <3>2. rows[i].excl <=> rows[i].hidden
      BY <3>1, <1>5 DEF Inherits
    <3>3. Hides(i) <=> rows[i].hidden
      BY <3>1, <1>3
    <3>. QED BY <3>2, <3>3, <2>0
  <2>2. 0 \in A
    <3>1. ASSUME NEW i \in L, Walk(rows, i)[0] = Root PROVE i = Root
      <4>1. i \in 0..n
        BY <1>1, <1>2
      <4>. QED BY <4>1, <3>1, <1>1, WalkIs
    <3>. QED BY <3>1, <2>1, <1>2
  <2>3. ASSUME NEW m \in 1..n, m - 1 \in A PROVE m \in A
    <3>1. ASSUME NEW i \in L, Walk(rows, i)[m] = Root PROVE rows[i].excl = Hides(i)
      <4>. DEFINE p == rows[i].parent
      <4>1. CASE i = Root
        BY <4>1, <2>1
      <4>2. CASE i # Root
        <5>1. p \in 1..n /\ p # i /\ Walk(rows, p)[m - 1] = Root
          BY <4>2, <3>1, <1>1, ChainIs
        <5>2. p \in L
          BY <5>1, <1>1 DEF Closed, NoParent
        <5>3. rows[p].excl = Hides(p)
          BY <5>1, <5>2, <2>3
        <5>4. p \notin {NoParent, i}
          BY <5>1 DEF NoParent
        <5>5. rows[i].excl <=> (rows[i].hidden \/ rows[p].excl)
          BY <5>4, <1>5 DEF Inherits
        <5>6. Hides(i) <=> (rows[i].hidden \/ Hides(p))
          BY <5>4, <1>3
        <5>. QED BY <5>3, <5>5, <5>6, <2>0
      <4>. QED BY <4>1, <4>2
    <3>2. m \in 0..n
      BY <1>2
    <3>. QED BY <3>1, <3>2
  <2>4. 0..n \subseteq A
    <3>. HIDE DEF A, n
    <3>. QED BY <1>2, <2>2, <2>3, InductUpTo
  <2>5. ASSUME NEW i \in L PROVE rows[i].excl = Hides(i)
    <3>1. PICK m \in 0..n : Walk(rows, i)[m] = Root
      BY <1>1 DEF Chain
    <3>. QED BY <3>1, <2>4
  <2>. QED BY <2>5 DEF Inherited, Hides
<1>. QED BY <1>4, <1>5

\* An index between batches is one a batch may begin with.
LEMMA ServedIsBatch ==
  ASSUME NEW ix, Served(ix)
  PROVE  BatchInv(ix)
<1>1. ix \in Index /\ ParentsAreDirs(ix.rows) /\ ValidLiveTopology(ix) /\ Inherited(ix)
  BY DEF Served
<1>2. \A i \in Live(ix) : ix.rows[i].excl = Inherits(ix.rows, i)
  BY <1>1, FollowsIsInherited
<1>3. ExclusionFollows(ix)
  BY <1>2 DEF ExclusionFollows
<1>4. KindsAgree(ix)
  BY <1>1 DEF ValidLiveTopology, ValidObjectGroups, KindsAgree
<1>. QED BY <1>1, <1>3, <1>4 DEF BatchInv

\* Recomputing the exclusion makes it inherited and changes nothing else.
LEMMA RecomputedIs ==
  ASSUME NEW ix, ix \in Index, ParentsAreDirs(ix.rows), ValidLiveTopology(ix),
         ix.dirty = FALSE
  PROVE  Served(RecomputeAllExcluded(ix))
<1>. DEFINE n == Len(ix.rows)
            Hides(i) == \E j \in Chain(ix.rows, i) : ix.rows[j].hidden
            rows == [i \in 1..n |-> [ix.rows[i] EXCEPT !.excl = Hides(i)]]
            new == [rows |-> rows, dirty |-> ix.dirty]
<1>1. /\ n \in Nat /\ DOMAIN ix.rows = 1..n /\ ix.dirty \in BOOLEAN
      /\ \A i \in 1..n : ix.rows[i] \in Row
      /\ Live(ix) = {i \in 1..n : ix.rows[i].live}
  BY IndexShape
<1>. HIDE DEF Hides
<1>2. RecomputeAllExcluded(ix) = [ix EXCEPT !.rows = rows]
  BY <1>1 DEF RecomputeAllExcluded, Hides
<1>3. RecomputeAllExcluded(ix) = new
  <2>1. [ix EXCEPT !.rows = rows] = [rows |-> rows, dirty |-> ix.dirty]
    <3>. HIDE DEF rows
    <3>. QED BY RowsReplaced
  <2>. QED BY <1>2, <2>1
<1>4. \A i \in 1..n : Hides(i) \in BOOLEAN
  BY DEF Hides
<1>5. \A i \in 1..n :
        /\ rows[i] \in Row /\ rows[i].frn = ix.rows[i].frn
        /\ rows[i].parent = ix.rows[i].parent
        /\ rows[i].name = ix.rows[i].name /\ rows[i].dir = ix.rows[i].dir
        /\ rows[i].live = ix.rows[i].live /\ rows[i].hidden = ix.rows[i].hidden
        /\ rows[i].excl = Hides(i)
  BY <1>1, <1>4 DEF Row
<1>6. rows \in [1..n -> Row]
  BY <1>5
<1>. HIDE DEF rows
<1>7. /\ new \in Index /\ DOMAIN new.rows = 1..n /\ new.rows = rows /\ new.dirty = FALSE
  BY <1>1, <1>6, IndexFromRows
<1>. HIDE DEF new
<1>8. ParentsAreDirs(new.rows)
  BY <1>1, <1>5, <1>7 DEF ParentsAreDirs
<1>9. /\ Live(new) = Live(ix) /\ ValidLiveTopology(new)
      /\ \A i \in 1..n : Chain(new.rows, i) = Chain(ix.rows, i)
  BY <1>1, <1>5, <1>7, <1>8, SameTopology
<1>10. ASSUME NEW i \in Live(new)
       PROVE  new.rows[i].excl = \E j \in Chain(new.rows, i) : new.rows[j].hidden
  <2>1. i \in 1..n
    BY <1>1, <1>9
  <2>2. Chain(ix.rows, i) \subseteq 1..n
    <3>1. Tree(ix.rows) /\ i \in 0..n
      BY <2>1, <1>1, IndexShape DEF Tree
    <3>2. Walk(ix.rows, i) \in [0..n -> 0..n]
      BY <3>1, WalkIs
    <3>. QED BY <3>2, <1>1 DEF Chain, NoParent
  <2>. QED BY <2>1, <2>2, <1>5, <1>7, <1>9 DEF Hides
<1>11. Inherited(new)
  BY <1>10 DEF Inherited
<1>. QED BY <1>3, <1>7, <1>8, <1>9, <1>11 DEF Served

\* A batch that the boundary accepts leaves an index that may be served.
LEMMA MergedIsServed ==
  ASSUME NEW ix, BatchInv(ix), MergeNew(ix).ok
  PROVE  Served(MergeNew(ix).idx)
<1>1. ix \in Index /\ ParentsAreDirs(ix.rows) /\ ValidLiveTopology(ix)
  BY DEF BatchInv, MergeNew
<1>2. CASE ix.dirty
  <2>. DEFINE clean == [rows |-> ix.rows, dirty |-> FALSE]
  <2>1. MergeNew(ix).idx = RecomputeAllExcluded(clean)
    BY <1>2 DEF MergeNew
  <2>2. clean \in Index /\ clean.rows = ix.rows /\ clean.dirty = FALSE
    BY <1>1 DEF Index
  <2>. HIDE DEF clean
  <2>3. ValidLiveTopology(clean)
    BY <2>2, <1>1, SameTopology
  <2>. QED BY <2>1, <2>2, <2>3, <1>1, RecomputedIs
<1>3. CASE ~ix.dirty
  <2>1. MergeNew(ix).idx = ix
    BY <1>3 DEF MergeNew
  <2>2. ExclusionFollows(ix) /\ Closed(ix, Live(ix))
    BY <1>1, <1>3, SoundRows DEF BatchInv
  <2>3. \A i \in Live(ix) : ix.rows[i].excl = Inherits(ix.rows, i)
    BY <2>2 DEF ExclusionFollows
  <2>4. Inherited(ix)
    BY <2>3, <1>1, FollowsIsInherited
  <2>. QED BY <2>1, <2>4, <1>1, <1>3 DEF Served
<1>. QED BY <1>2, <1>3

----------------------------------------------------------------------------
(***************************************************************************)
(* The k-th element of a set of numbers.                                   *)
(***************************************************************************)
\* How many elements of S are not above i.
UpTo(S, i) == Cardinality({j \in S : j <= i})

LEMMA RankOf ==
  ASSUME NEW S \in SUBSET Nat, IsFiniteSet(S)
  PROVE  /\ Cardinality(S) \in Nat
         /\ \A i \in S : UpTo(S, i) \in 1..Cardinality(S)
         /\ \A i, j \in S : UpTo(S, i) = UpTo(S, j) => i = j
         /\ \A k \in 1..Cardinality(S) : \E i \in S : UpTo(S, i) = k
<1>. DEFINE n == Cardinality(S)
            Below(i) == {j \in S : j <= i}
            f == [i \in S |-> UpTo(S, i)]
<1>1. n \in Nat
  BY FS_CardinalityType
<1>2. ASSUME NEW i \in S
      PROVE  /\ IsFiniteSet(Below(i)) /\ UpTo(S, i) \in 1..n
             /\ UpTo(S, i) = Cardinality(Below(i))
  <2>1. /\ IsFiniteSet(Below(i)) /\ Cardinality(Below(i)) <= n
        /\ Cardinality(Below(i)) \in Nat
    <3>1. Below(i) \in SUBSET S
      OBVIOUS
    <3>. HIDE DEF Below
    <3>. QED BY <3>1, FS_Subset, FS_CardinalityType
  <2>2. Cardinality(Below(i)) # 0
    <3>1. i \in Below(i)
      OBVIOUS
    <3>. HIDE DEF Below
    <3>. QED BY <3>1, <2>1, FS_EmptySet
  <2>. QED BY <2>1, <2>2, <1>1 DEF UpTo
<1>3. ASSUME NEW i \in S, NEW j \in S, i < j PROVE UpTo(S, i) < UpTo(S, j)
  <2>1. Below(i) \subseteq Below(j) /\ j \in Below(j) /\ j \notin Below(i)
    <3>1. i \in Nat /\ j \in Nat /\ \A k \in S : k \in Nat
      OBVIOUS
    <3>2. \A k \in S : k <= i => k <= j
      BY <3>1, <1>3
    <3>3. j <= j /\ ~(j <= i)
      BY <3>1, <1>3
    <3>. QED BY <3>2, <3>3
  <2>. HIDE DEF Below
  <2>2. /\ IsFiniteSet(Below(i)) /\ IsFiniteSet(Below(j))
        /\ UpTo(S, i) = Cardinality(Below(i)) /\ UpTo(S, j) = Cardinality(Below(j))
        /\ Cardinality(Below(i)) \in Nat /\ Cardinality(Below(j)) \in Nat
    BY <1>1, <1>2
  <2>3. /\ Cardinality(Below(i)) <= Cardinality(Below(j))
        /\ Cardinality(Below(i)) # Cardinality(Below(j))
    BY <2>1, <2>2, FS_Subset
  <2>. QED BY <2>2, <2>3
<1>4. ASSUME NEW i \in S, NEW j \in S, UpTo(S, i) = UpTo(S, j) PROVE i = j
  <2>1. UpTo(S, i) \in 1..n
    BY <1>2
  <2>0. ~(UpTo(S, i) < UpTo(S, i)) /\ i \in Nat /\ j \in Nat
    BY <2>1, <1>1
  <2>2. ~(i < j) /\ ~(j < i)
    BY <2>0, <1>3, <1>4
  <2>. QED BY <2>0, <2>2
<1>5. f \in Injection(S, 1..n)
  <2>. HIDE DEF Below, n
  <2>1. f \in [S -> 1..n]
    BY <1>2
  <2>2. ASSUME NEW i \in S, NEW j \in S, f[i] = f[j] PROVE i = j
    BY <2>2, <1>4
  <2>. HIDE DEF f
  <2>. QED BY <2>1, <2>2 DEF Injection, IsInjective
<1>6. IsFiniteSet(1..n) /\ Cardinality(1..n) = n
  <2>1. 1 \in Int /\ n \in Int /\ (IF 1 > n THEN 0 ELSE n - 1 + 1) = n
    BY <1>1
  <2>. HIDE DEF n
  <2>. QED BY <2>1, FS_Interval
<1>7. f \in Surjection(S, 1..n)
  <2>. HIDE DEF f
  <2>. QED BY <1>5, <1>6, FS_Injection
<1>8. \A k \in 1..n : \E i \in S : UpTo(S, i) = k
  BY <1>7 DEF Surjection
<1>. QED BY <1>1, <1>2, <1>4, <1>8

LEMMA NthIs ==
  ASSUME NEW S \in SUBSET Nat, IsFiniteSet(S), NEW k \in 1..Cardinality(S)
  PROVE  Nth(S, k) \in S /\ UpTo(S, Nth(S, k)) = k
<1>1. \E i \in S : UpTo(S, i) = k
  BY RankOf
<1>. QED BY <1>1 DEF Nth, UpTo

\* A non-empty set has a first element.
LEMMA FirstIs ==
  ASSUME NEW S \in SUBSET Nat, IsFiniteSet(S), S # {}
  PROVE  Cardinality(S) \in Nat /\ 1 \in 1..Cardinality(S) /\ Cardinality(S) \in 1..Cardinality(S)
<1>1. Cardinality(S) \in Nat
  BY FS_CardinalityType
<1>2. Cardinality(S) # 0
  BY FS_EmptySet
<1>. QED BY <1>1, <1>2

----------------------------------------------------------------------------
(***************************************************************************)
(* The compacted index.                                                    *)
(***************************************************************************)
\* In a sound index every live row is below the root by fewer steps than there are
\* live rows, all of them over live rows.
LEMMA ShortWalks ==
  ASSUME NEW ix, ix \in Index, ParentsAreDirs(ix.rows), ValidLiveTopology(ix),
         NEW i \in Live(ix)
  PROVE  /\ IsFiniteSet(Live(ix)) /\ Cardinality(Live(ix)) \in Nat
         /\ \E m \in 0..Len(ix.rows) :
              /\ m < Cardinality(Live(ix))
              /\ Walk(ix.rows, i)[m] = Root
              /\ \A k \in 0..m : Walk(ix.rows, i)[k] \in Live(ix)
              /\ \A k \in 0..m : Walk(ix.rows, i)[k] = Root => k = m
<1>. DEFINE n == Len(ix.rows)
            L == Live(ix)
            up == Walk(ix.rows, i)
            M == {k \in 0..n : up[k] = Root}
<1>1. /\ Tree(ix.rows) /\ Closed(ix, L) /\ L \subseteq 1..n
      /\ Root \in L /\ ix.rows[Root].parent = NoParent
      /\ Root \in Chain(ix.rows, i)
  BY SoundRows
<1>2. n \in Nat /\ i \in 1..n /\ i \in 0..n
  BY <1>1, TreeShape
<1>3. /\ up \in [0..n -> 0..n] /\ up[0] = i
      /\ \A k \in 1..n : up[k] = Above(ix.rows, up[k - 1])
  BY <1>1, <1>2, WalkIs
<1>4. M # {} /\ M \in SUBSET Nat
  BY <1>1, <1>2 DEF Chain
<1>. HIDE DEF up, n
<1>5. PICK m \in M : \A k \in M : m <= k
  <2>. HIDE DEF M
  <2>. QED BY <1>4, LeastElement
<1>6. m \in 0..n /\ up[m] = Root /\ \A k \in 0..m : up[k] = Root => k = m
  <2>1. m \in 0..n /\ up[m] = Root
    BY <1>5
  <2>2. ASSUME NEW k \in 0..m, up[k] = Root PROVE k = m
    <3>1. k \in M
      BY <2>1, <2>2, <1>2
    <3>. QED BY <3>1, <1>5, <2>1
  <2>. QED BY <2>1, <2>2
<1>7. \A k \in 0..m : up[k] \in L
  <2>. DEFINE A == {k \in 0..m : up[k] \in L}
  <2>1. 0 \in A
    BY <1>3, <1>6, <1>2
  <2>2. ASSUME NEW k \in 1..m, k - 1 \in A PROVE k \in A
    <3>1. k - 1 \in 0..m /\ k \in 1..n /\ k \in 0..m /\ k - 1 # m
      BY <1>6, <1>2
    <3>2. up[k - 1] \in L /\ up[k - 1] # Root
      BY <3>1, <2>2, <1>6
    <3>3. up[k] = ix.rows[up[k - 1]].parent
      BY <3>1, <3>2, <1>1, <1>3 DEF Above, NoParent
    <3>4. up[k] \in L
      BY <3>2, <3>3 DEF ValidLiveTopology, LiveDirectoryParents
    <3>. QED BY <3>1, <3>4
  <2>3. m \in Nat
    BY <1>6, <1>2
  <2>4. 0..m \subseteq A
    <3>. HIDE DEF A, M
    <3>. QED BY <2>1, <2>2, <2>3, InductUpTo
  <2>. QED BY <2>4
<1>8. ASSUME NEW a \in 0..m, NEW b \in 0..m, a < b, up[a] = up[b] PROVE FALSE
  <2>. DEFINE A == {k \in 0..(m - b) : up[a + k] = up[b + k]}
  <2>1. m - b \in Nat /\ a \in Nat /\ b \in Nat /\ m \in Nat /\ m <= n
    BY <1>6, <1>2
  <2>2. 0 \in A
    BY <2>1, <1>8
  <2>3. ASSUME NEW k \in 1..(m - b), k - 1 \in A PROVE k \in A
    <3>1. /\ a + k \in 1..n /\ b + k \in 1..n /\ k \in 0..(m - b)
          /\ (a + k) - 1 = a + (k - 1) /\ (b + k) - 1 = b + (k - 1)
      BY <2>1, <1>8, <1>2
    <3>2. up[(a + k) - 1] = up[(b + k) - 1]
      BY <3>1, <2>3
    <3>. QED BY <3>1, <3>2, <1>3
  <2>4. 0..(m - b) \subseteq A
    <3>. HIDE DEF A, M
    <3>. QED BY <2>1, <2>2, <2>3, InductUpTo
  <2>5. m - b \in 0..(m - b) /\ b + (m - b) = m /\ a + (m - b) \in 0..m /\ a + (m - b) # m
    BY <2>1, <1>8
  <2>6. up[a + (m - b)] = Root
    BY <2>4, <2>5, <1>6
  <2>. QED BY <2>5, <2>6, <1>6
<1>9. IsFiniteSet(L) /\ Cardinality(L) \in Nat
  <2>1. IsFiniteSet(1..n)
    BY <1>2, FS_Interval
  <2>2. IsFiniteSet(L)
    BY <2>1, <1>1, FS_Subset DEF n
  <2>. QED BY <2>2, FS_CardinalityType
<1>10. m + 1 <= Cardinality(L)
  <2>. DEFINE f == [k \in 0..m |-> up[k]]
  <2>1. f \in Injection(0..m, L)
    <3>1. f \in [0..m -> L]
      BY <1>7
    <3>2. ASSUME NEW a \in 0..m, NEW b \in 0..m, f[a] = f[b] PROVE a = b
      <4>1. a \in Int /\ b \in Int /\ up[a] = up[b]
        BY <3>2
      <4>2. ~(a < b) /\ ~(b < a)
        BY <4>1, <1>8
      <4>. QED BY <4>1, <4>2
    <3>. HIDE DEF f
    <3>. QED BY <3>1, <3>2 DEF Injection, IsInjective
  <2>2. Cardinality(0..m) = m + 1
    <3>1. 0 \in Int /\ m \in Int /\ (IF 0 > m THEN 0 ELSE m - 0 + 1) = m + 1
      BY <1>6, <1>2
    <3>. QED BY <3>1, FS_Interval
  <2>3. Cardinality(0..m) <= Cardinality(L)
    <3>. HIDE DEF f
    <3>. QED BY <2>1, <1>9, FS_Injection
  <2>. QED BY <2>2, <2>3
<1>11. m < Cardinality(L)
  BY <1>6, <1>2, <1>9, <1>10
<1>. QED BY <1>6, <1>7, <1>9, <1>11 DEF up, n

\* The rows of the compacted index, before their exclusion is recomputed.
LEMMA CompactedRows ==
  ASSUME NEW ix, ix \in Index, ParentsAreDirs(ix.rows), ValidLiveTopology(ix)
  PROVE  Served(Compacted(ix))
<1>. DEFINE L == Live(ix)
            n == Cardinality(L)
            remap(i) == UpTo(L, i)
            src(k) == Nth(L, k)
            home(p) == IF p = NoParent THEN NoParent ELSE IF p \in L THEN remap(p) ELSE Root
            rows == [k \in 1..n |-> [ix.rows[src(k)] EXCEPT !.parent = home(ix.rows[src(k)].parent)]]
            new == [rows |-> rows, dirty |-> FALSE]
<1>1. /\ Tree(ix.rows) /\ Closed(ix, L) /\ L \subseteq 1..Len(ix.rows)
      /\ Root \in L /\ ix.rows[Root].parent = NoParent /\ ix.rows[Root].dir
      /\ \A i \in L : Root \in Chain(ix.rows, i)
  BY SoundRows DEF ValidLiveTopology
<1>2. /\ Len(ix.rows) \in Nat /\ DOMAIN ix.rows = 1..Len(ix.rows)
      /\ \A i \in L : ix.rows[i] \in Row /\ ix.rows[i].live
  BY <1>1, TreeShape DEF Live
<1>3. IsFiniteSet(L) /\ L \in SUBSET Nat /\ n \in Nat
  <2>0. 1 \in Int /\ Len(ix.rows) \in Int
    BY <1>2
  <2>1. IsFiniteSet(1..Len(ix.rows))
    BY <2>0, FS_Interval
  <2>. QED BY <2>1, <1>1, <1>2, FS_Subset, FS_CardinalityType
<1>4. /\ \A i \in L : remap(i) \in 1..n
      /\ \A i, j \in L : remap(i) = remap(j) => i = j
  <2>. HIDE DEF L
  <2>. QED BY <1>3, RankOf
<1>5. \A k \in 1..n : src(k) \in L /\ remap(src(k)) = k
  <2>. HIDE DEF L
  <2>. QED BY <1>3, NthIs
<1>6. Compacted(ix) = RecomputeAllExcluded(new)
  BY DEF Compacted, UpTo
<1>. HIDE DEF src, remap, L, n
<1>7. \A i \in L : src(remap(i)) = i
  BY <1>4, <1>5
<1>8. remap(Root) = 1
  <2>1. Root \in L /\ \A j \in L : j <= Root <=> j = Root
    <3>1. \A j \in L : j \in 1..Len(ix.rows)
      BY <1>1
    <3>. HIDE DEF L
    <3>. QED BY <3>1, <1>1, <1>2 DEF Root
  <2>2. {j \in L : j <= Root} = {Root}
    <3>. HIDE DEF L
    <3>. QED BY <2>1
  <2>. QED BY <2>2, FS_Singleton DEF remap, UpTo
<1>9. ASSUME NEW p, p = NoParent \/ p \in L
      PROVE  /\ home(p) = NoParent <=> p = NoParent
             /\ p # NoParent => home(p) \in 1..n /\ src(home(p)) = p
             /\ home(p) \in Nat
  <2>1. CASE p = NoParent
    <3>1. home(p) = NoParent
      BY <2>1
    <3>. QED BY <2>1, <3>1 DEF NoParent
  <2>2. CASE p # NoParent
    <3>1. p \in L /\ home(p) = remap(p)
      BY <1>9, <2>2
    <3>2. remap(p) \in 1..n /\ src(remap(p)) = p
      BY <3>1, <1>4, <1>7
    <3>3. remap(p) # NoParent /\ remap(p) \in Nat
      BY <3>2, <1>3 DEF NoParent
    <3>. HIDE DEF home
    <3>. QED BY <2>2, <3>1, <3>2, <3>3
  <2>. QED BY <2>1, <2>2
<1>10. ASSUME NEW k \in 1..n
       PROVE  LET i == src(k)
              IN  /\ i \in L /\ rows[k] \in Row
                  /\ rows[k].frn = ix.rows[i].frn /\ rows[k].name = ix.rows[i].name
                  /\ rows[k].dir = ix.rows[i].dir /\ rows[k].live
                  /\ rows[k].parent = home(ix.rows[i].parent)
                  /\ ix.rows[i].parent = NoParent \/ ix.rows[i].parent \in L
  <2>. DEFINE i == src(k)
              old == ix.rows[i]
  <2>1. i \in L /\ old \in Row /\ old.live
    BY <1>2, <1>5
  <2>2. old.parent = NoParent \/ old.parent \in L
    BY <2>1, <1>1 DEF Closed
  <2>3. home(old.parent) \in Nat
    BY <2>2, <1>9
  <2>4. rows[k] = [old EXCEPT !.parent = home(old.parent)]
    OBVIOUS
  <2>. HIDE DEF rows, home, i, old
  <2>5. /\ rows[k] \in Row
        /\ rows[k].frn = old.frn /\ rows[k].name = old.name
        /\ rows[k].dir = old.dir /\ rows[k].live
        /\ rows[k].parent = home(old.parent)
    BY <2>1, <2>3, <2>4 DEF Row
  <2>. QED BY <2>1, <2>2, <2>5 DEF i, old
<1>. HIDE DEF home
<1>11. rows \in [1..n -> Row]
  <2>1. rows = [k \in 1..n |-> rows[k]]
    OBVIOUS
  <2>. HIDE DEF rows
  <2>. QED BY <1>10, <2>1
<1>. HIDE DEF rows
<1>12. /\ new \in Index /\ DOMAIN new.rows = 1..n /\ new.rows = rows /\ new.dirty = FALSE
       /\ Live(new) = 1..n /\ Len(new.rows) = n
  <2>1. /\ new \in Index /\ DOMAIN new.rows = 1..n /\ Live(new) = {k \in 1..n : rows[k].live}
        /\ Len(new.rows) = n
    BY <1>3, <1>11, IndexFromRows
  <2>2. {k \in 1..n : rows[k].live} = 1..n
    BY <1>10
  <2>. QED BY <2>1, <2>2
<1>. HIDE DEF new
<1>13. ParentsAreDirs(new.rows)
  <2>1. ASSUME NEW k \in 1..n, rows[k].parent # NoParent
        PROVE  rows[k].parent \in 1..n /\ rows[rows[k].parent].dir
    <3>. DEFINE p == ix.rows[src(k)].parent
    <3>1. rows[k].parent = home(p) /\ (p = NoParent \/ p \in L) /\ src(k) \in L
      BY <1>10
    <3>2. p # NoParent /\ home(p) \in 1..n /\ src(home(p)) = p
      BY <3>1, <2>1, <1>9
    <3>3. ix.rows[p].dir
      BY <3>1, <3>2, <1>1, <1>2 DEF ParentsAreDirs
    <3>4. rows[home(p)].dir = ix.rows[p].dir
      BY <3>2, <1>10
    <3>. QED BY <3>1, <3>2, <3>3, <3>4
  <2>. QED BY <2>1, <1>12 DEF ParentsAreDirs
<1>14. /\ Root \in Live(new) /\ new.rows[Root].dir /\ new.rows[Root].parent = NoParent
  <2>1. 1 \in 1..n /\ src(1) = Root
    BY <1>1, <1>4, <1>7, <1>8
  <2>2. rows[1].dir = ix.rows[Root].dir /\ rows[1].parent = home(ix.rows[Root].parent)
    BY <2>1, <1>10
  <2>3. home(NoParent) = NoParent
    BY <1>9
  <2>. QED BY <2>1, <2>2, <2>3, <1>1, <1>12 DEF Root
<1>15. \A k, l \in 1..n : k # l => src(k) # src(l)
  BY <1>5
<1>16. ValidObjectGroups(new)
  <2>1. ASSUME NEW k \in 1..n, NEW l \in 1..n, k # l, Record(rows[k].frn) = Record(rows[l].frn)
        PROVE  rows[k].frn = rows[l].frn /\ ~rows[k].dir /\ ~rows[l].dir
    <3>1. /\ src(k) # src(l) /\ src(k) \in L /\ src(l) \in L
          /\ rows[k].frn = ix.rows[src(k)].frn /\ rows[k].dir = ix.rows[src(k)].dir
          /\ rows[l].frn = ix.rows[src(l)].frn /\ rows[l].dir = ix.rows[src(l)].dir
      BY <2>1, <1>10, <1>15
    <3>. QED BY <3>1, <2>1 DEF ValidLiveTopology, ValidObjectGroups, L
  <2>. QED BY <2>1, <1>12 DEF ValidObjectGroups
<1>17. UniqueLinks(new)
  <2>1. ASSUME NEW k \in 1..n, NEW l \in 1..n, k # l,
               rows[k].frn = rows[l].frn, rows[k].name = rows[l].name,
               rows[k].parent = rows[l].parent
        PROVE  FALSE
    <3>. DEFINE p == ix.rows[src(k)].parent
                q == ix.rows[src(l)].parent
    <3>1. /\ src(k) # src(l) /\ src(k) \in L /\ src(l) \in L
          /\ rows[k].frn = ix.rows[src(k)].frn /\ rows[k].name = ix.rows[src(k)].name
          /\ rows[l].frn = ix.rows[src(l)].frn /\ rows[l].name = ix.rows[src(l)].name
          /\ rows[k].parent = home(p) /\ rows[l].parent = home(q)
          /\ (p = NoParent \/ p \in L) /\ (q = NoParent \/ q \in L)
      BY <2>1, <1>10, <1>15
    <3>2. p = q
      <4>1. home(p) = home(q)
        BY <3>1, <2>1
      <4>. HIDE DEF p, q
      <4>2. CASE p = NoParent
        BY <4>1, <4>2, <3>1, <1>9
      <4>3. CASE p # NoParent
        <5>1. home(q) # NoParent /\ q # NoParent
          BY <4>1, <4>3, <3>1, <1>9
        <5>2. src(home(p)) = p /\ src(home(q)) = q
          BY <4>3, <5>1, <3>1, <1>9
        <5>. QED BY <4>1, <5>2
      <4>. QED BY <4>2, <4>3
    <3>. QED BY <3>1, <3>2, <2>1 DEF ValidLiveTopology, UniqueLinks, L
  <2>. QED BY <2>1, <1>12 DEF UniqueLinks
<1>18. LiveDirectoryParents(new)
  <2>1. ASSUME NEW k \in (1..n) \ {Root}
        PROVE  /\ rows[k].parent \in 1..n /\ rows[rows[k].parent].dir
               /\ Record(rows[k].frn) # Record(rows[rows[k].parent].frn)
    <3>. DEFINE p == ix.rows[src(k)].parent
    <3>1. src(k) \in L /\ src(k) # Root
      BY <2>1, <1>5, <1>8 DEF Root
    <3>2. p \in L /\ ix.rows[p].dir /\ Record(ix.rows[src(k)].frn) # Record(ix.rows[p].frn)
      BY <3>1 DEF ValidLiveTopology, LiveDirectoryParents, L
    <3>3. p # NoParent
      BY <3>2, <1>1, <1>2 DEF NoParent
    <3>4. rows[k].parent = home(p) /\ rows[k].frn = ix.rows[src(k)].frn
      BY <1>10
    <3>5. home(p) \in 1..n /\ src(home(p)) = p
      BY <3>2, <3>3, <1>9
    <3>6. rows[home(p)].dir = ix.rows[p].dir /\ rows[home(p)].frn = ix.rows[p].frn
      BY <3>5, <1>10
    <3>. HIDE DEF p
    <3>. QED BY <3>2, <3>4, <3>5, <3>6
  <2>. QED BY <2>1, <1>12 DEF LiveDirectoryParents
<1>19. ASSUME NEW k \in 1..n PROVE Root \in Chain(rows, k)
  <2>. DEFINE i == src(k)
              up == Walk(ix.rows, i)
              nu == Walk(rows, k)
  <2>1. i \in L /\ remap(i) = k
    BY <1>5
  <2>2. PICK m \in 0..Len(ix.rows) :
          /\ m < n /\ up[m] = Root
          /\ \A a \in 0..m : up[a] \in L
          /\ \A a \in 0..m : up[a] = Root => a = m
    BY <2>1, ShortWalks DEF L, n
  <2>3. m \in Nat /\ m <= n /\ m <= Len(ix.rows)
    BY <2>2, <1>2, <1>3
  <2>4. up[0] = i /\ \A a \in 1..Len(ix.rows) : up[a] = Above(ix.rows, up[a - 1])
    BY <2>1, <1>1, <1>2, WalkIs
  <2>5. /\ nu \in [0..n -> 0..n] /\ nu[0] = k
        /\ \A a \in 1..n : nu[a] = Above(rows, nu[a - 1])
    <3>1. Tree(rows) /\ Len(rows) = n /\ k \in 0..n
      BY <1>3, <1>12, <1>13, IndexShape DEF Tree
    <3>. QED BY <3>1, WalkIs
  <2>. HIDE DEF up, nu, i
  <2>6. \A a \in 0..m : nu[a] = remap(up[a])
    <3>. DEFINE A == {a \in 0..m : nu[a] = remap(up[a])}
    <3>1. 0 \in A
      BY <2>1, <2>3, <2>4, <2>5
    <3>2. ASSUME NEW a \in 1..m, a - 1 \in A PROVE a \in A
      <4>1. /\ a - 1 \in 0..m /\ a \in 0..m /\ a - 1 # m
            /\ a \in 1..n /\ a \in 1..Len(ix.rows)
        BY <2>3, <1>2, <1>3
      <4>. DEFINE x == up[a - 1]
      <4>2. x \in L /\ x # Root /\ nu[a - 1] = remap(x)
        BY <4>1, <3>2, <2>2
      <4>. HIDE DEF x
      <4>3. remap(x) \in 1..n /\ src(remap(x)) = x
        BY <4>2, <1>4, <1>7
      <4>4. nu[a] = rows[remap(x)].parent
        BY <4>1, <4>2, <4>3, <2>5 DEF Above, NoParent
      <4>5. rows[remap(x)].parent = home(ix.rows[x].parent)
        BY <4>3, <1>10
      <4>6. up[a] = ix.rows[x].parent
        <5>1. x # NoParent
          BY <4>2, <1>1, <1>2 DEF NoParent
        <5>. QED BY <5>1, <4>1, <2>4 DEF Above, x
      <4>7. up[a] \in L /\ up[a] # NoParent
        BY <4>1, <2>2, <1>1, <1>2 DEF NoParent
      <4>8. home(up[a]) = remap(up[a])
        BY <4>7 DEF home
      <4>. QED BY <4>1, <4>4, <4>5, <4>6, <4>8
    <3>3. 0..m \subseteq A
      <4>. HIDE DEF A
      <4>. QED BY <2>3, <3>1, <3>2, InductUpTo
    <3>. QED BY <3>3
  <2>7. nu[m] = Root /\ m \in 0..n
    BY <2>2, <2>3, <2>6, <1>8, <1>3 DEF Root
  <2>8. Len(rows) = n
    BY <1>12
  <2>. QED BY <2>7, <2>8 DEF Chain, nu, Root, NoParent
<1>20. ValidLiveTopology(new)
  BY <1>12, <1>14, <1>16, <1>17, <1>18, <1>19 DEF ValidLiveTopology
<1>. QED BY <1>6, <1>12, <1>13, <1>20, RecomputedIs

----------------------------------------------------------------------------
(***************************************************************************)
(* The initial build.                                                      *)
(***************************************************************************)
ScanEntry == [frn : Frn, parent : Frn, name : Names, dir : BOOLEAN, hidden : BOOLEAN]

\* What a scan found: no link twice, and never the root's record.
Found(entries) ==
  /\ entries \in Seq(ScanEntry)
  /\ \A i \in DOMAIN entries : Record(entries[i].frn) # Record(RootFrn)
  /\ \A i, j \in DOMAIN entries :
       /\ entries[i].frn = entries[j].frn /\ entries[i].parent = entries[j].parent
       /\ entries[i].name = entries[j].name
       => i = j

\* The rows before any is dropped: a row's parent is a directory the scan saw, or none.
LEMMA ResolvedIs ==
  ASSUME NEW entries, Found(entries)
  PROVE  LET rows == ResolvedRows(entries)
             n == Len(entries) + 1
         IN  /\ n \in Nat /\ rows \in [1..n -> Row] /\ rows[Root] = RootRow /\ Root \in 1..n
             /\ \A i \in 1..n : rows[i].live
             /\ \A i \in 2..n :
                  LET e == entries[i - 1]
                  IN  /\ i - 1 \in DOMAIN entries
                      /\ rows[i].frn = e.frn /\ rows[i].name = e.name /\ rows[i].dir = e.dir
                      /\ rows[i].parent # NoParent
                           => /\ rows[i].parent \in 1..n /\ rows[rows[i].parent].dir
                              /\ rows[rows[i].parent].frn = e.parent
<1>. DEFINE n == Len(entries) + 1
            all == <<RootRow>> \o entries
            dirs(f) == {i \in DOMAIN all : all[i].frn = f /\ all[i].dir}
            parent(i) == IF dirs(all[i].parent) = {} THEN NoParent
                         ELSE CHOOSE d \in dirs(all[i].parent) : TRUE
            rows == [i \in 1..n |->
                       IF i = Root THEN RootRow
                       ELSE [frn |-> all[i].frn, name |-> all[i].name, dir |-> all[i].dir,
                             hidden |-> all[i].hidden, excl |-> FALSE, live |-> TRUE,
                             parent |-> parent(i)]]
            T == {RootRow} \cup ScanEntry
<1>1. /\ entries \in Seq(ScanEntry) /\ Len(entries) \in Nat
      /\ DOMAIN entries = 1..Len(entries)
      /\ \A i \in 1..Len(entries) : entries[i] \in ScanEntry
  BY LenProperties, ElementOfSeq DEF Found
<1>2. /\ n \in Nat /\ DOMAIN all = 1..n /\ all[1] = RootRow
      /\ \A i \in 2..n : i - 1 \in 1..Len(entries) /\ all[i] = entries[i - 1]
  <2>1. entries \in Seq(T) /\ <<RootRow>> \in Seq(T)
        /\ Len(<<RootRow>>) = 1 /\ <<RootRow>>[1] = RootRow
    BY <1>1, SeqMonotonic
  <2>. HIDE DEF T
  <2>2. /\ all \in Seq(T) /\ Len(all) = 1 + Len(entries)
        /\ \A i \in 1..(1 + Len(entries)) :
             all[i] = IF i <= 1 THEN <<RootRow>>[i] ELSE entries[i - 1]
    BY <2>1, ConcatProperties
  <2>3. DOMAIN all = 1..Len(all)
    BY <2>2, LenProperties
  <2>. HIDE DEF all
  <2>. QED BY <1>1, <2>1, <2>2, <2>3
<1>. HIDE DEF n, all
<1>3. ResolvedRows(entries) = rows
  BY <1>2 DEF ResolvedRows, all
<1>4. RootRow \in Row /\ RootRow.dir /\ RootRow.live
  BY DEF RootRow, Row, RootFrn, Frn, RowNames, NoParent
<1>5. Root \in 1..n /\ \A i \in 1..n : i = Root \/ i \in 2..n
  BY <1>1 DEF Root, n
<1>6. ASSUME NEW i \in 2..n
      PROVE  LET e == entries[i - 1]
             IN  /\ rows[i] \in Row /\ rows[i].live
                 /\ rows[i].frn = e.frn /\ rows[i].name = e.name /\ rows[i].dir = e.dir
                 /\ rows[i].parent = parent(i)
  <2>. DEFINE e == entries[i - 1]
  <2>1. e \in ScanEntry /\ all[i] = e
    BY <1>1, <1>2
  <2>2. i # Root /\ i \in 1..n
    BY <1>2 DEF Root
  <2>3. parent(i) \in Nat
    <3>1. dirs(all[i].parent) \subseteq 1..n
      BY <1>2
    <3>. QED BY <3>1, <1>2 DEF NoParent
  <2>. HIDE DEF e, parent
  <2>4. rows[i] = [frn |-> e.frn, name |-> e.name, dir |-> e.dir,
                   hidden |-> e.hidden, excl |-> FALSE, live |-> TRUE, parent |-> parent(i)]
    BY <2>1, <2>2
  <2>5. e.frn \in Frn /\ e.name \in RowNames /\ e.dir \in BOOLEAN /\ e.hidden \in BOOLEAN
    BY <2>1 DEF ScanEntry, RowNames
  <2>. HIDE DEF rows
  <2>6. /\ rows[i] \in Row /\ rows[i].live
        /\ rows[i].frn = e.frn /\ rows[i].name = e.name /\ rows[i].dir = e.dir
        /\ rows[i].parent = parent(i)
    BY <2>3, <2>4, <2>5 DEF Row
  <2>. QED BY <2>6 DEF e
<1>7. rows[Root] = RootRow
  BY <1>5
<1>8. rows = [i \in 1..n |-> rows[i]]
  OBVIOUS
<1>9. \A i \in 1..n : all[i].dir = rows[i].dir /\ all[i].frn = rows[i].frn
  <2>1. all[Root] = rows[Root]
    BY <1>2, <1>7 DEF Root
  <2>. HIDE DEF rows
  <2>. QED BY <2>1, <1>2, <1>5, <1>6
<1>10. ASSUME NEW i \in 2..n, parent(i) # NoParent
       PROVE  /\ parent(i) \in 1..n /\ rows[parent(i)].dir
              /\ rows[parent(i)].frn = entries[i - 1].parent
  <2>1. parent(i) \in dirs(all[i].parent)
    BY <1>10
  <2>. HIDE DEF rows, parent
  <2>2. parent(i) \in 1..n /\ all[parent(i)].frn = all[i].parent /\ all[parent(i)].dir
    BY <2>1, <1>2
  <2>. QED BY <2>2, <1>2, <1>9
<1>. HIDE DEF rows, parent
<1>11. rows \in [1..n -> Row] /\ \A i \in 1..n : rows[i].live
  <2>1. \A i \in 1..n : rows[i] \in Row /\ rows[i].live
    BY <1>4, <1>5, <1>6, <1>7
  <2>. QED BY <2>1, <1>8
<1>. QED BY <1>1, <1>2, <1>3, <1>5, <1>6, <1>7, <1>10, <1>11 DEF n

\* A build that is accepted may be served.
LEMMA FinishIs ==
  ASSUME NEW entries, Found(entries), FinishStrict(entries).ok
  PROVE  Served(FinishStrict(entries).idx)
<1>. DEFINE rows == ResolvedRows(entries)
            n == Len(entries) + 1
            raw == [rows |-> rows, dirty |-> FALSE]
            lost == UnresolvedParents(rows)
            kept == Tombstone(raw, lost)
<1>1. /\ n \in Nat /\ rows \in [1..n -> Row] /\ rows[Root] = RootRow /\ Root \in 1..n
      /\ \A i \in 1..n : rows[i].live
      /\ \A i \in 2..n :
           LET e == entries[i - 1]
           IN  /\ i - 1 \in DOMAIN entries
               /\ rows[i].frn = e.frn /\ rows[i].name = e.name /\ rows[i].dir = e.dir
               /\ rows[i].parent # NoParent
                    => /\ rows[i].parent \in 1..n /\ rows[rows[i].parent].dir
                       /\ rows[rows[i].parent].frn = e.parent
  BY ResolvedIs
<1>. HIDE DEF rows, n
<1>2. /\ rows \in Seq(Row) /\ Len(rows) = n /\ DOMAIN rows = 1..n
      /\ \A i \in 1..n : rows[i] \in Row
      /\ \A i \in 1..n : i = Root \/ i \in 2..n
  BY <1>1, FunctionIsSequence DEF Root
<1>3. RootRow.dir /\ RootRow.parent = NoParent /\ RootRow.frn = RootFrn /\ RootRow.live
  BY DEF RootRow
<1>4. ParentsAreDirs(rows) /\ Tree(rows)
  <2>1. ASSUME NEW i \in 1..n, rows[i].parent # NoParent
        PROVE  rows[i].parent \in 1..n /\ rows[rows[i].parent].dir
    <3>1. i \in 2..n
      BY <2>1, <1>1, <1>2, <1>3
    <3>. QED BY <3>1, <2>1, <1>1
  <2>. QED BY <2>1, <1>2 DEF ParentsAreDirs, Tree
<1>. DEFINE krows == [i \in 1..n |-> IF i \in lost THEN [rows[i] EXCEPT !.live = FALSE] ELSE rows[i]]
<1>5. kept = [rows |-> krows, dirty |-> FALSE]
  <2>1. raw.rows = rows
    OBVIOUS
  <2>2. kept = [raw EXCEPT !.rows = krows]
    BY <1>2, <2>1 DEF Tombstone
  <2>. HIDE DEF krows
  <2>. QED BY <2>2
<1>. HIDE DEF lost
<1>6. \A i \in 1..n :
        /\ krows[i] \in Row /\ krows[i].frn = rows[i].frn /\ krows[i].parent = rows[i].parent
        /\ krows[i].name = rows[i].name /\ krows[i].dir = rows[i].dir
        /\ krows[i].live <=> i \notin lost
  <2>1. ASSUME NEW i \in 1..n
        PROVE  /\ krows[i] \in Row /\ krows[i].frn = rows[i].frn
               /\ krows[i].parent = rows[i].parent
               /\ krows[i].name = rows[i].name /\ krows[i].dir = rows[i].dir
               /\ krows[i].live <=> i \notin lost
    <3>1. rows[i] \in Row /\ rows[i].live
      BY <1>1, <1>2
    <3>2. CASE i \in lost
      <4>1. krows[i] = [rows[i] EXCEPT !.live = FALSE]
        BY <3>2
      <4>. HIDE DEF krows
      <4>. QED BY <3>1, <3>2, <4>1 DEF Row
    <3>3. CASE i \notin lost
      <4>1. krows[i] = rows[i]
        BY <3>3
      <4>. HIDE DEF krows
      <4>. QED BY <3>1, <3>3, <4>1
    <3>. QED BY <3>2, <3>3
  <2>. HIDE DEF krows
  <2>. QED BY <2>1
<1>7. krows \in [1..n -> Row]
  <2>1. krows = [i \in 1..n |-> krows[i]]
    OBVIOUS
  <2>. HIDE DEF krows
  <2>. QED BY <2>1, <1>6
<1>. HIDE DEF krows
<1>8. /\ kept \in Index /\ kept.rows = krows /\ kept.dirty = FALSE
      /\ DOMAIN kept.rows = 1..n /\ Len(krows) = n
      /\ Live(kept) = {i \in 1..n : krows[i].live}
  <2>. DEFINE new == [rows |-> krows, dirty |-> FALSE]
  <2>1. /\ new \in Index /\ Len(new.rows) = n /\ DOMAIN new.rows = 1..n
        /\ Live(new) = {i \in 1..n : krows[i].live}
    BY <1>1, <1>7, IndexFromRows
  <2>2. new.rows = krows /\ new.dirty = FALSE
    OBVIOUS
  <2>3. kept = new
    BY <1>5
  <2>. HIDE DEF new
  <2>. QED BY <2>1, <2>2, <2>3
<1>. HIDE DEF kept
<1>9. Live(kept) = (1..n) \ lost
  BY <1>6, <1>8
<1>10. /\ \A i \in Live(kept) : Root \in Chain(rows, i)
       /\ ValidObjectGroups(kept)
       /\ FinishStrict(entries) = Accepted(Compacted(kept))
  BY DEF FinishStrict, Refused, rows, kept, raw, lost
<1>11. ParentsAreDirs(kept.rows) /\ Tree(krows)
  <2>1. ParentsAreDirs(krows)
    BY <1>2, <1>4, <1>6, <1>8 DEF ParentsAreDirs
  <2>. QED BY <2>1, <1>7, <1>1, <1>8, FunctionIsSequence DEF Tree
<1>12. \A i \in 1..n : Chain(krows, i) = Chain(rows, i)
  <2>1. ASSUME NEW i \in 1..n PROVE Chain(krows, i) = Chain(rows, i)
    <3>1. i \in 0..Len(rows)
      BY <1>2
    <3>. QED BY <3>1, <1>2, <1>4, <1>6, <1>8, <1>11, SameWalks
  <2>. QED BY <2>1
<1>13. Root \in Live(kept)
  <2>1. Root \in 0..n /\ 0 \in 0..n
    BY <1>1
  <2>2. Walk(rows, Root)[0] = Root
    BY <2>1, <1>2, <1>4, WalkIs
  <2>3. Root \in Chain(rows, Root)
    BY <2>1, <2>2, <1>2 DEF Chain, Root, NoParent
  <2>4. Root \notin lost
    BY <2>3 DEF lost, UnresolvedParents
  <2>. QED BY <2>4, <1>1, <1>9
<1>14. rows[Root].dir /\ rows[Root].parent = NoParent
  BY <1>1, <1>3
<1>15. ASSUME NEW i \in Live(kept), i # Root
       PROVE  /\ rows[i].parent \in Live(kept) /\ rows[i].parent # i
              /\ rows[rows[i].parent].dir /\ i \in 2..n /\ i \in 1..n
              /\ rows[rows[i].parent].frn = entries[i - 1].parent
  <2>. DEFINE p == rows[i].parent
  <2>1. i \in 1..n /\ i \in 2..n /\ Root \in Chain(rows, i)
    BY <1>2, <1>9, <1>10, <1>15
  <2>2. p \in 1..n /\ p # i /\ Root \in Chain(rows, p)
    BY <2>1, <1>2, <1>4, <1>14, <1>15, ChainIs
  <2>3. p \notin lost
    BY <2>2 DEF lost, UnresolvedParents
  <2>4. p # NoParent
    BY <2>2 DEF NoParent
  <2>. QED BY <2>1, <2>2, <2>3, <2>4, <1>1, <1>9
<1>16. UniqueLinks(kept)
  <2>1. ASSUME NEW i \in Live(kept), NEW j \in Live(kept), i # j,
               rows[i].frn = rows[j].frn, rows[i].parent = rows[j].parent,
               rows[i].name = rows[j].name
        PROVE  FALSE
    <3>1. ASSUME NEW k \in 2..n PROVE rows[k].frn # rows[Root].frn
      <4>1. rows[k].frn = entries[k - 1].frn /\ k - 1 \in DOMAIN entries
        BY <1>1
      <4>. QED BY <4>1, <1>1, <1>3 DEF Found
    <3>2. i # Root /\ j # Root
      <4>1. i \in 1..n /\ j \in 1..n
        BY <1>9
      <4>. QED BY <4>1, <3>1, <2>1, <1>2
    <3>. DEFINE e == entries[i - 1]
                f == entries[j - 1]
    <3>3. /\ i \in 2..n /\ j \in 2..n
          /\ i - 1 \in DOMAIN entries /\ j - 1 \in DOMAIN entries
          /\ e.frn = f.frn /\ e.name = f.name /\ e.parent = f.parent
      <4>1. i \in 2..n /\ j \in 2..n
        BY <3>2, <1>15
      <4>2. /\ i - 1 \in DOMAIN entries /\ rows[i].frn = e.frn /\ rows[i].name = e.name
            /\ j - 1 \in DOMAIN entries /\ rows[j].frn = f.frn /\ rows[j].name = f.name
        BY <4>1, <1>1
      <4>3. rows[rows[i].parent].frn = e.parent /\ rows[rows[j].parent].frn = f.parent
        BY <3>2, <1>15
      <4>. HIDE DEF e, f
      <4>. QED BY <4>1, <4>2, <4>3, <2>1
    <3>4. i - 1 = j - 1
      <4>. HIDE DEF e, f
      <4>. QED BY <3>3 DEF Found, e, f
    <3>. QED BY <3>3, <3>4, <2>1
  <2>2. Live(kept) \subseteq 1..n
    BY <1>9
  <2>. QED BY <2>1, <2>2, <1>6, <1>8 DEF UniqueLinks
<1>17. LiveDirectoryParents(kept)
  <2>1. ASSUME NEW i \in Live(kept), i # Root
        PROVE  /\ krows[i].parent \in Live(kept) /\ krows[krows[i].parent].dir
               /\ Record(krows[i].frn) # Record(krows[krows[i].parent].frn)
    <3>. DEFINE p == krows[i].parent
    <3>1. p \in Live(kept) /\ p # i /\ p \in 1..n /\ i \in 1..n /\ krows[p].dir
      BY <2>1, <1>6, <1>9, <1>15
    <3>. HIDE DEF p
    <3>2. Record(krows[i].frn) # Record(krows[p].frn)
      BY <3>1, <1>8, <1>10 DEF ValidObjectGroups
    <3>. QED BY <3>1, <3>2 DEF p
  <2>. QED BY <2>1, <1>8 DEF LiveDirectoryParents
<1>18. ValidLiveTopology(kept)
  <2>1. \A i \in Live(kept) : Root \in Chain(kept.rows, i)
    BY <1>8, <1>9, <1>10, <1>12
  <2>2. kept.rows[Root].dir /\ kept.rows[Root].parent = NoParent
    BY <1>1, <1>6, <1>8, <1>14
  <2>. QED BY <2>1, <2>2, <1>10, <1>13, <1>16, <1>17 DEF ValidLiveTopology
<1>19. Served(Compacted(kept))
  BY <1>8, <1>11, <1>18, CompactedRows
<1>. QED BY <1>10, <1>19 DEF Accepted

----------------------------------------------------------------------------
(***************************************************************************)
(* The volume and what a scan reads of it.                                 *)
(***************************************************************************)
DirectoryLink == (Nat \X Nat) \X Names

VolumeTyped ==
  /\ setting \in Settings
  /\ DOMAIN vol = DOMAIN setting.volume
  /\ \A r \in DOMAIN vol : vol[r] \in MftRecord /\ IsFiniteSet(vol[r].links)

LEMMA VolumeIs ==
  ASSUME VolumeTyped
  PROVE  /\ DOMAIN vol \subseteq Nat \ {0} /\ IsFiniteSet(DOMAIN vol)
         /\ setting.extents \in Seq(SUBSET DOMAIN vol)
         /\ \A i, j \in DOMAIN setting.extents :
              i # j => setting.extents[i] \cap setting.extents[j] = {}
         /\ Len(setting.extents) \in Nat
         /\ DOMAIN setting.extents = 1..Len(setting.extents)
         /\ setting.maxOps \in Nat /\ setting.maxFaults \in Nat /\ setting.maxCrashes \in Nat
         /\ \A r \in DOMAIN vol :
              /\ vol[r].live \in BOOLEAN /\ vol[r].seq \in Nat /\ vol[r].dir \in BOOLEAN
              /\ vol[r].hidden \in BOOLEAN /\ vol[r].links \in SUBSET DirectoryLink
<1>1. /\ DOMAIN vol \subseteq Nat \ {0} /\ IsFiniteSet(DOMAIN vol)
      /\ setting.extents \in Seq(SUBSET DOMAIN vol)
      /\ \A i, j \in DOMAIN setting.extents :
           i # j => setting.extents[i] \cap setting.extents[j] = {}
      /\ setting.maxOps \in Nat /\ setting.maxFaults \in Nat /\ setting.maxCrashes \in Nat
  BY SettingsAssumption DEF VolumeTyped
<1>2. \A r \in DOMAIN vol :
        /\ vol[r].live \in BOOLEAN /\ vol[r].seq \in Nat /\ vol[r].dir \in BOOLEAN
        /\ vol[r].hidden \in BOOLEAN /\ vol[r].links \in SUBSET DirectoryLink
  BY DEF VolumeTyped, MftRecord, DirectoryLink
<1>3. Len(setting.extents) \in Nat /\ DOMAIN setting.extents = 1..Len(setting.extents)
  BY <1>1, LenProperties
<1>. QED BY <1>1, <1>2, <1>3

\* The values a function takes on a finite set are finitely many.
LEMMA FiniteImage ==
  ASSUME NEW D, IsFiniteSet(D), NEW f, DOMAIN f = D, f = [x \in D |-> f[x]]
  PROVE  IsFiniteSet({f[x] : x \in D})
<1>. DEFINE T == {f[x] : x \in D}
<1>1. f \in [D -> T]
  OBVIOUS
<1>2. \A t \in T : \E x \in D : f[x] = t
  OBVIOUS
<1>3. f \in Surjection(D, T)
  <2>. HIDE DEF T
  <2>. QED BY <1>1, <1>2 DEF Surjection
<1>. HIDE DEF T
<1>4. IsFiniteSet(T)
  BY <1>3, FS_Surjection
<1>. QED BY <1>4 DEF T

\* The entries of a set of records are of those records, and no link is among them twice.
LEMMA EntriesAre ==
  ASSUME VolumeTyped, NEW recs \in SUBSET DOMAIN vol
  PROVE  /\ Entries(recs) \in Seq(ScanEntry)
         /\ \A i \in DOMAIN Entries(recs) : Entries(recs)[i].frn[1] \in recs
         /\ \A i, j \in DOMAIN Entries(recs) :
              LET e == Entries(recs)[i]
                  f == Entries(recs)[j]
              IN  e.frn = f.frn /\ e.parent = f.parent /\ e.name = f.name => i = j
<1>. DEFINE entry(r, link) == [frn |-> <<r, vol[r].seq>>, parent |-> link[1],
                               name |-> link[2], dir |-> vol[r].dir,
                               hidden |-> vol[r].hidden]
            used == {q \in recs : vol[q].live}
            of(r) == {entry(r, link) : link \in vol[r].links}
            all == UNION {of(r) : r \in used}
<1>1. /\ used \subseteq recs /\ IsFiniteSet(used) /\ used \subseteq Nat \ {0}
      /\ \A r \in used : /\ vol[r].seq \in Nat /\ vol[r].dir \in BOOLEAN
                         /\ vol[r].hidden \in BOOLEAN /\ vol[r].links \in SUBSET DirectoryLink
                         /\ IsFiniteSet(vol[r].links)
  <2>1. used \subseteq recs /\ recs \subseteq DOMAIN vol
    OBVIOUS
  <2>. HIDE DEF used
  <2>2. IsFiniteSet(recs)
    BY VolumeIs, FS_Subset
  <2>. QED BY <2>1, <2>2, VolumeIs, FS_Subset DEF VolumeTyped
<1>. HIDE DEF used
<1>2. IsFiniteSet(all)
  <2>1. ASSUME NEW r \in used PROVE IsFiniteSet(of(r))
    <3>. DEFINE f == [link \in vol[r].links |-> entry(r, link)]
    <3>1. of(r) = {f[link] : link \in vol[r].links}
      OBVIOUS
    <3>2. DOMAIN f = vol[r].links /\ f = [x \in vol[r].links |-> f[x]]
      OBVIOUS
    <3>. HIDE DEF f, of
    <3>. QED BY <3>1, <3>2, <1>1, FiniteImage
  <2>. DEFINE g == [r \in used |-> of(r)]
              sets == {g[r] : r \in used}
  <2>2. sets = {of(r) : r \in used} /\ DOMAIN g = used /\ g = [r \in used |-> g[r]]
    OBVIOUS
  <2>3. \A T \in sets : IsFiniteSet(T)
    <3>. HIDE DEF of
    <3>. QED BY <2>1
  <2>4. IsFiniteSet(sets)
    <3>. HIDE DEF g
    <3>. QED BY <2>2, <1>1, FiniteImage
  <2>5. IsFiniteSet(UNION sets)
    <3>. HIDE DEF sets
    <3>. QED BY <2>3, <2>4, FS_UNION
  <2>6. all = UNION sets
    BY <2>2
  <2>. QED BY <2>5, <2>6
<1>3. ASSUME NEW e \in all
      PROVE  \E r \in used : \E link \in vol[r].links : e = entry(r, link)
  OBVIOUS
<1>4. ASSUME NEW r \in used, NEW link \in vol[r].links
      PROVE  LET e == entry(r, link)
             IN  /\ e \in ScanEntry /\ e.frn[1] = r /\ link = <<e.parent, e.name>>
  <2>1. link \in DirectoryLink /\ vol[r].seq \in Nat /\ r \in Nat
    BY <1>1
  <2>2. link[1] \in Frn /\ link[2] \in Names /\ link = <<link[1], link[2]>>
    BY <2>1 DEF DirectoryLink, Frn
  <2>3. <<r, vol[r].seq>> \in Frn
    BY <2>1 DEF Frn
  <2>. QED BY <2>2, <2>3, <1>1 DEF ScanEntry
<1>. HIDE DEF all
<1>5. all \subseteq ScanEntry
  BY <1>3, <1>4
<1>6. \A e \in all : e.frn[1] \in recs
  BY <1>1, <1>3, <1>4
<1>7. \A e, f \in all : e.frn = f.frn /\ e.parent = f.parent /\ e.name = f.name => e = f
  <2>1. ASSUME NEW e \in all, NEW f \in all, e.frn = f.frn, e.parent = f.parent, e.name = f.name
        PROVE  e = f
    <3>1. PICK r \in used : \E link \in vol[r].links : e = entry(r, link)
      BY <1>3
    <3>2. PICK q \in used : \E link \in vol[q].links : f = entry(q, link)
      BY <1>3
    <3>3. PICK link \in vol[r].links : e = entry(r, link)
      BY <3>1
    <3>4. PICK other \in vol[q].links : f = entry(q, other)
      BY <3>2
    <3>6. e.frn[1] = r /\ link = <<e.parent, e.name>>
      <4>. HIDE DEF entry
      <4>. QED BY <3>3, <1>4
    <3>7. f.frn[1] = q /\ other = <<f.parent, f.name>>
      <4>. HIDE DEF entry
      <4>. QED BY <3>4, <1>4
    <3>5. r = q /\ link = other
      BY <3>6, <3>7, <2>1
    <3>. QED BY <3>3, <3>4, <3>5
  <2>. QED BY <2>1
<1>8. Entries(recs) = SetToSeq(all)
  BY DEF Entries, all, of, used
<1>. HIDE DEF entry
<1>. DEFINE s == SetToSeq(all)
            n == Cardinality(all)
<1>9. /\ n \in Nat /\ s \in [1..n -> all]
      /\ \A i, j \in 1..n : s[i] = s[j] => i = j
  BY <1>2, SetInOrder
<1>. HIDE DEF s, n
<1>10. s \in [1..n -> ScanEntry]
  BY <1>5, <1>9
<1>11. s \in Seq(ScanEntry) /\ DOMAIN s = 1..n
  BY <1>9, <1>10, FunctionIsSequence
<1>12. \A i \in 1..n : s[i] \in all
  BY <1>9
<1>13. \A i \in 1..n : s[i].frn[1] \in recs
  BY <1>6, <1>12
<1>14. \A i, j \in 1..n :
         s[i].frn = s[j].frn /\ s[i].parent = s[j].parent /\ s[i].name = s[j].name => i = j
  BY <1>7, <1>9, <1>12
<1>. QED BY <1>8, <1>11, <1>13, <1>14 DEF s

\* What the scan under way has read: records of the extents done, none of them twice.
Reading ==
  /\ image.done \in 0..Len(setting.extents)
  /\ Found(image.found)
  /\ \A i \in DOMAIN image.found :
       \E k \in 1..image.done : image.found[i].frn[1] \in setting.extents[k]

\* One more extent.
LEMMA ReadingGoesOn ==
  ASSUME VolumeTyped, Reading, image.done < Len(setting.extents)
  PROVE  LET done == image.done + 1
             found == image.found \o Entries(setting.extents[done])
         IN  /\ done \in 0..Len(setting.extents)
             /\ Found(found)
             /\ \A i \in DOMAIN found : \E k \in 1..done : found[i].frn[1] \in setting.extents[k]
<1>. DEFINE done == image.done + 1
            recs == setting.extents[done]
            old == image.found
            new == Entries(recs)
            found == old \o new
            n == Len(old)
            m == Len(new)
<1>1. image.done \in Nat /\ done \in 1..Len(setting.extents) /\ done \in 0..Len(setting.extents)
      /\ 1..done = (1..image.done) \cup {done} /\ done \in 1..done
      /\ done \notin 1..image.done /\ (1..image.done) \subseteq 1..Len(setting.extents)
  BY VolumeIs DEF Reading
<1>. HIDE DEF done
<1>2. /\ recs \in SUBSET DOMAIN vol
      /\ \A k \in 1..image.done : setting.extents[k] \cap recs = {}
      /\ 0 \notin recs
  <2>1. /\ setting.extents \in Seq(SUBSET DOMAIN vol)
        /\ DOMAIN setting.extents = 1..Len(setting.extents)
        /\ DOMAIN vol \subseteq Nat \ {0}
        /\ \A i, j \in DOMAIN setting.extents :
             i # j => setting.extents[i] \cap setting.extents[j] = {}
    BY VolumeIs
  <2>2. recs \in SUBSET DOMAIN vol
    BY <1>1, <2>1, ElementOfSeq
  <2>3. ASSUME NEW k \in 1..image.done PROVE setting.extents[k] \cap recs = {}
    <3>1. k \in DOMAIN setting.extents /\ done \in DOMAIN setting.extents /\ k # done
      BY <1>1, <2>1
    <3>. QED BY <3>1, <2>1
  <2>. HIDE DEF recs
  <2>. QED BY <2>1, <2>2, <2>3
<1>. HIDE DEF recs
<1>3. /\ new \in Seq(ScanEntry)
      /\ \A i \in DOMAIN new : new[i].frn[1] \in recs
      /\ \A i, j \in DOMAIN new :
           /\ new[i].frn = new[j].frn /\ new[i].parent = new[j].parent
           /\ new[i].name = new[j].name
           => i = j
  BY <1>2, EntriesAre
<1>. HIDE DEF new
<1>4. /\ old \in Seq(ScanEntry)
      /\ \A i \in DOMAIN old : Record(old[i].frn) # Record(RootFrn)
      /\ \A i, j \in DOMAIN old :
           /\ old[i].frn = old[j].frn /\ old[i].parent = old[j].parent
           /\ old[i].name = old[j].name
           => i = j
      /\ \A i \in DOMAIN old : \E k \in 1..image.done : old[i].frn[1] \in setting.extents[k]
  BY DEF Reading, Found
<1>. HIDE DEF old
<1>5. /\ n \in Nat /\ m \in Nat /\ DOMAIN old = 1..n /\ DOMAIN new = 1..m
      /\ found \in Seq(ScanEntry) /\ DOMAIN found = 1..(n + m)
      /\ \A i \in 1..(n + m) : found[i] = IF i <= n THEN old[i] ELSE new[i - n]
  <2>1. n \in Nat /\ m \in Nat /\ DOMAIN old = 1..n /\ DOMAIN new = 1..m
    BY <1>3, <1>4, LenProperties
  <2>2. /\ found \in Seq(ScanEntry) /\ Len(found) = n + m
        /\ \A i \in 1..(n + m) : found[i] = IF i <= n THEN old[i] ELSE new[i - n]
    BY <1>3, <1>4, ConcatProperties
  <2>3. DOMAIN found = 1..Len(found)
    BY <2>2, LenProperties
  <2>. HIDE DEF found, n, m
  <2>. QED BY <2>1, <2>2, <2>3
<1>. HIDE DEF found, n, m
<1>6. ASSUME NEW i \in 1..(n + m)
      PROVE  \/ i <= n /\ i \in DOMAIN old /\ found[i] = old[i]
             \/ i > n /\ i - n \in DOMAIN new /\ found[i] = new[i - n]
  BY <1>5
<1>7. ASSUME NEW i \in 1..(n + m)
      PROVE  /\ \E k \in 1..done : found[i].frn[1] \in setting.extents[k]
             /\ i > n => found[i].frn[1] \in recs
             /\ i <= n => found[i].frn[1] \notin recs
             /\ Record(found[i].frn) # Record(RootFrn)
  <2>1. CASE i <= n /\ i \in DOMAIN old /\ found[i] = old[i]
    <3>1. PICK k \in 1..image.done : old[i].frn[1] \in setting.extents[k]
      BY <2>1, <1>4
    <3>2. old[i].frn[1] \notin recs
      BY <3>1, <1>2
    <3>3. ~(i > n)
      BY <2>1, <1>5
    <3>. QED BY <2>1, <3>1, <3>2, <3>3, <1>1, <1>4
  <2>2. CASE i > n /\ i - n \in DOMAIN new /\ found[i] = new[i - n]
    <3>1. found[i].frn[1] \in recs
      BY <2>2, <1>3
    <3>2. found[i].frn[1] # 0
      BY <3>1, <1>2
    <3>3. ~(i <= n)
      BY <2>2, <1>5
    <3>4. Record(found[i].frn) # Record(RootFrn)
      BY <3>2 DEF Record, RootFrn
    <3>. QED BY <2>2, <3>1, <3>3, <3>4, <1>1 DEF recs
  <2>. QED BY <2>1, <2>2, <1>6
<1>8. ASSUME NEW i \in 1..(n + m), NEW j \in 1..(n + m), found[i].frn = found[j].frn,
             found[i].parent = found[j].parent, found[i].name = found[j].name
      PROVE  i = j
  <2>0. (i <= n \/ i > n) /\ (j <= n \/ j > n) /\ ~(i <= n /\ i > n) /\ ~(j <= n /\ j > n)
    BY <1>5
  <2>1. i <= n <=> j <= n
    BY <2>0, <1>7, <1>8
  <2>2. CASE i <= n
    <3>1. i \in DOMAIN old /\ j \in DOMAIN old /\ found[i] = old[i] /\ found[j] = old[j]
      BY <2>0, <2>1, <2>2, <1>6
    <3>. QED BY <3>1, <1>4, <1>8
  <2>3. CASE i > n
    <3>1. /\ i - n \in DOMAIN new /\ j - n \in DOMAIN new
          /\ found[i] = new[i - n] /\ found[j] = new[j - n]
      BY <2>0, <2>1, <2>3, <1>6
    <3>2. i - n = j - n
      BY <3>1, <1>3, <1>8
    <3>. QED BY <3>2, <1>5
  <2>. QED BY <2>0, <2>2, <2>3
<1>9. Found(found)
  BY <1>5, <1>7, <1>8 DEF Found
<1>. QED BY <1>1, <1>5, <1>7, <1>9 DEF found, old, new, recs, done

----------------------------------------------------------------------------
(***************************************************************************)
(* A batch planned and applied.                                            *)
(***************************************************************************)
\* The elements of a set of positions, counted from the least and from the greatest.
LEMMA Positions ==
  ASSUME NEW n \in Nat, NEW S \in SUBSET (1..n)
  PROVE  /\ IsFiniteSet(S) /\ S \in SUBSET Nat /\ Cardinality(S) \in Nat
         /\ \A k \in 1..Cardinality(S) : Nth(S, k) \in S
         /\ S # {} => Nth(S, 1) \in S /\ Nth(S, Cardinality(S)) \in S
<1>1. IsFiniteSet(1..n)
  BY FS_Interval
<1>2. IsFiniteSet(S)
  BY <1>1, FS_Subset
<1>3. S \in SUBSET Nat
  OBVIOUS
<1>4. \A k \in 1..Cardinality(S) : Nth(S, k) \in S
  BY <1>2, <1>3, NthIs
<1>5. S # {} => 1 \in 1..Cardinality(S) /\ Cardinality(S) \in 1..Cardinality(S)
  BY <1>2, <1>3, FirstIs
<1>. QED BY <1>2, <1>3, <1>4, <1>5, FS_CardinalityType

\* A planned change is of an object the batch has a record of, and its last record is one.
LEMMA PlanIs ==
  ASSUME pending \in Seq(JournalRecords), batch \in 0..Len(pending)
  PROVE  /\ Len(CurrentBatch) \in Nat /\ DOMAIN CurrentBatch = 1..Len(CurrentBatch)
         /\ \A k \in 1..Len(CurrentBatch) :
              /\ CurrentBatch[k].frn \in {pending[i].frn : i \in 1..batch}
              /\ CurrentBatch[k].frn \in Frn
              /\ CurrentBatch[k].last \in JournalRecords
<1>. DEFINE recs == SubSeq(pending, 1, batch)
            O == Order(recs)
            n == Cardinality(O)
            plan == [k \in 1..n |-> Collapse(recs, recs[Nth(O, k)].frn)]
<1>1. Len(pending) \in Nat /\ batch \in Nat /\ batch <= Len(pending)
      /\ \A i \in 1..batch : pending[i] \in JournalRecords
  <2>1. Len(pending) \in Nat /\ \A i \in 1..Len(pending) : pending[i] \in JournalRecords
    BY LenProperties, ElementOfSeq
  <2>. QED BY <2>1
<1>2. /\ recs \in Seq(JournalRecords) /\ Len(recs) = batch /\ DOMAIN recs = 1..batch
      /\ \A i \in 1..batch : recs[i] = pending[i] /\ recs[i] \in JournalRecords
  <2>1. 1 \in Int /\ batch \in Int /\ batch - 1 + 1 = batch
        /\ (IF 1 <= batch THEN batch - 1 + 1 ELSE 0) = batch
        /\ \A i \in 1..batch : 1 + i - 1 = i
    BY <1>1
  <2>2. /\ recs \in Seq(JournalRecords)
        /\ Len(recs) = IF 1 <= batch THEN batch - 1 + 1 ELSE 0
        /\ \A i \in 1..(batch - 1 + 1) : recs[i] = pending[1 + i - 1]
    BY <1>1, <2>1, SubSeqProperties
  <2>. HIDE DEF recs
  <2>3. DOMAIN recs = 1..Len(recs)
    BY <2>2, LenProperties
  <2>. QED BY <1>1, <2>1, <2>2, <2>3
<1>. HIDE DEF recs
<1>3. O \in SUBSET (1..batch)
  BY <1>2 DEF Order
<1>. HIDE DEF O
<1>4. n \in Nat /\ \A k \in 1..n : Nth(O, k) \in 1..batch
  BY <1>1, <1>3, Positions
<1>5. CurrentBatch = plan
  BY DEF CurrentBatch, Plan, recs, O
<1>. HIDE DEF n
<1>6. ASSUME NEW i \in 1..batch
      PROVE  LET a == Collapse(recs, recs[i].frn)
             IN  /\ a.frn = pending[i].frn /\ a.frn \in Frn
                 /\ a.last \in JournalRecords
  <2>. DEFINE own == {j \in DOMAIN recs : recs[j].frn = recs[i].frn}
  <2>1. own \in SUBSET (1..batch) /\ own # {}
    BY <1>2
  <2>2. Nth(own, Cardinality(own)) \in 1..batch
    <3>. HIDE DEF own
    <3>. QED BY <2>1, <1>1, Positions
  <2>3. /\ Collapse(recs, recs[i].frn).frn = recs[i].frn
        /\ Collapse(recs, recs[i].frn).last = recs[Nth(own, Cardinality(own))]
    BY DEF Collapse
  <2>4. recs[i].frn \in Frn /\ recs[i] = pending[i]
    BY <1>2 DEF JournalRecords
  <2>. HIDE DEF own
  <2>. QED BY <2>2, <2>3, <2>4, <1>2
<1>7. plan = [k \in 1..n |-> plan[k]] /\ \A k \in 1..n : plan[k] = Collapse(recs, recs[Nth(O, k)].frn)
  OBVIOUS
<1>. HIDE DEF plan
<1>8. DOMAIN plan = 1..n /\ Len(plan) = n
  <2>. DEFINE T == {plan[k] : k \in 1..n}
  <2>1. plan \in [1..n -> T]
    BY <1>7
  <2>. HIDE DEF T
  <2>. QED BY <2>1, <1>4, FunctionIsSequence
<1>9. \A k \in 1..n : /\ plan[k].frn \in {pending[i].frn : i \in 1..batch}
                      /\ plan[k].frn \in Frn
                      /\ plan[k].last \in JournalRecords
  BY <1>4, <1>6, <1>7
<1>. QED BY <1>4, <1>5, <1>8, <1>9

\* The batch so far: an index and whether some record was refused.
Progress == {x \in [idx : Index, rescan : BOOLEAN] : BatchInv(x.idx)}

LEMMA ProgressIs ==
  ASSUME NEW x
  PROVE  x \in Progress <=> /\ x = [idx |-> x.idx, rescan |-> x.rescan]
                            /\ x.rescan \in BOOLEAN /\ BatchInv(x.idx)
BY DEF Progress, BatchInv

LEMMA ApplyObjectProgress ==
  ASSUME NEW st \in Progress, NEW a, Planned(a)
  PROVE  ApplyObject(st, a) \in Progress
<1>. DEFINE Shape(x) == x = [idx |-> x.idx, rescan |-> x.rescan] /\ x.rescan \in BOOLEAN
<1>1. BatchInv(st.idx) /\ Shape(st)
  BY ProgressIs
<1>2. \A result : Shape(Settle(st, result))
  BY DEF Settle
<1>. HIDE DEF Shape
<1>3. Shape(ApplyDirRename(st, a))
  BY <1>2 DEF ApplyDirRename
<1>4. Shape(ApplyFileRename(st, a))
  BY <1>2 DEF ApplyFileRename
<1>5. Shape(ApplyUpsert(st, a))
  BY <1>1, <1>2, <1>3, <1>4 DEF ApplyUpsert
<1>6. Shape(ApplyObject(st, a))
  BY <1>1, <1>2, <1>5 DEF ApplyObject
<1>7. BatchInv(ApplyObject(st, a).idx)
  BY <1>1, ApplyObjectInv
<1>. QED BY <1>6, <1>7, ProgressIs DEF Shape

\* A batch that no record and no verdict refused leaves an index that may be served.
LEMMA AppliedIs ==
  ASSUME NEW ix, BatchInv(ix), NEW plan, Len(plan) \in Nat,
         \A k \in 1..Len(plan) : Planned(plan[k]),
         ~ApplyPlanned(ix, plan).rescan
  PROVE  Served(ApplyPlanned(ix, plan).idx)
<1>. DEFINE n == Len(plan)
            first == [idx |-> ix, rescan |-> FALSE]
            step == [k \in 1..n |-> [st \in Progress |-> ApplyObject(st, plan[k])]]
            Def(f) == f = [k \in 0..n |-> IF k = 0 THEN first
                                                    ELSE ApplyObject(f[k - 1], plan[k])]
            applied == CHOOSE f : Def(f)
<1>1. first \in Progress
  BY ProgressIs
<1>2. step \in [1..n -> [Progress -> Progress]]
  BY ApplyObjectProgress
<1>. HIDE DEF first, n
<1>3. n \in Nat
  BY DEF n
<1>4. PICK f \in [0..n -> Progress] : f[0] = first /\ \A k \in 1..n : f[k] = step[k][f[k - 1]]
  <2>. HIDE DEF step
  <2>1. Iterates(n, Progress, first, step) # {}
    BY <1>1, <1>2, <1>3, RecursionExists
  <2>. QED BY <2>1 DEF Iterates
<1>5. \A k \in 1..n : f[k] = ApplyObject(f[k - 1], plan[k])
  <2>1. ASSUME NEW k \in 1..n PROVE f[k] = ApplyObject(f[k - 1], plan[k])
    <3>1. k - 1 \in 0..n
      BY <1>3
    <3>2. f[k - 1] \in Progress
      BY <3>1
    <3>3. step[k][f[k - 1]] = ApplyObject(f[k - 1], plan[k])
      BY <3>2
    <3>. QED BY <3>3, <1>4
  <2>. QED BY <2>1
<1>6. Def(f)
  <2>1. \A k \in 0..n : f[k] = IF k = 0 THEN first ELSE ApplyObject(f[k - 1], plan[k])
    <3>1. \A k \in 0..n : k = 0 \/ k \in 1..n
      BY <1>3
    <3>. QED BY <3>1, <1>4, <1>5
  <2>2. f = [k \in 0..n |-> f[k]]
    BY <1>4
  <2>. QED BY <2>1, <2>2
<1>7. Def(applied)
  <2>. HIDE DEF Def
  <2>. QED BY <1>6
<1>8. ApplyPlanned(ix, plan) = Settle(applied[n], MergeNew(applied[n].idx))
  BY DEF ApplyPlanned, first, n
<1>. HIDE DEF applied
<1>9. \A k \in 0..n : applied[k] = IF k = 0 THEN first ELSE ApplyObject(applied[k - 1], plan[k])
  BY <1>7
<1>10. 0..n \subseteq {k \in 0..n : applied[k] \in Progress}
  <2>. DEFINE A == {k \in 0..n : applied[k] \in Progress}
  <2>1. 0 \in A
    BY <1>1, <1>3, <1>9
  <2>2. ASSUME NEW k \in 1..n, k - 1 \in A PROVE k \in A
    <3>1. k \in 0..n /\ k # 0 /\ Planned(plan[k])
      BY <1>3 DEF n
    <3>2. applied[k] = ApplyObject(applied[k - 1], plan[k]) /\ applied[k - 1] \in Progress
      BY <3>1, <2>2, <1>9
    <3>. QED BY <3>1, <3>2, ApplyObjectProgress
  <2>. HIDE DEF A
  <2>3. 0..n \subseteq A
    BY <1>3, <2>1, <2>2, InductUpTo
  <2>. QED BY <2>3 DEF A
<1>11. applied[n] \in Progress
  <2>1. n \in 0..n
    BY <1>3
  <2>. QED BY <2>1, <1>10
<1>. DEFINE last == applied[n].idx
<1>12. BatchInv(last)
  BY <1>11, ProgressIs
<1>13. /\ ApplyPlanned(ix, plan).idx = MergeNew(last).idx
       /\ MergeNew(last).ok
  <2>. DEFINE merged == MergeNew(last)
  <2>1. ApplyPlanned(ix, plan) = [idx |-> merged.idx, rescan |-> applied[n].rescan \/ ~merged.ok]
    BY <1>8 DEF Settle
  <2>. HIDE DEF merged
  <2>2. /\ ApplyPlanned(ix, plan).idx = merged.idx
        /\ ApplyPlanned(ix, plan).rescan = (applied[n].rescan \/ ~merged.ok)
    BY <2>1
  <2>3. ~(applied[n].rescan \/ ~merged.ok)
    BY <2>2
  <2>. QED BY <2>2, <2>3 DEF merged
<1>. HIDE DEF last
<1>. QED BY <1>12, <1>13, MergedIsServed

----------------------------------------------------------------------------
(***************************************************************************)
(* The inductive invariant.  Between batches the index is sound; while the *)
(* volume changes, a scan reads or a batch is planned, what the next batch *)
(* or build will be made of has its type.                                  *)
(***************************************************************************)
Replaying == {"tailing", "planning", "applied"}

ReplayInv ==
  /\ TypeOK
  /\ VolumeTyped
  /\ Reading
  /\ pending \in Seq(JournalRecords)
  /\ \A f \in DOMAIN snaps : snaps[f] \in Answers
  /\ mode # "planning" => DOMAIN snaps = {}
  /\ mode \in Replaying => Served(idx)

LEMMA NothingRead == Found(<<>>)
<1>1. <<>> \in Seq(ScanEntry) /\ DOMAIN <<>> = {}
  OBVIOUS
<1>. QED BY <1>1 DEF Found

LEMMA ReplayInit == Init => ReplayInv
<1>. SUFFICES ASSUME Init PROVE ReplayInv
  OBVIOUS
<1>1. VolumeTyped
  BY SettingsAssumption DEF Init, VolumeTyped
<1>2. /\ Len(setting.extents) \in Nat /\ setting.maxOps \in Nat
      /\ setting.maxFaults \in Nat /\ setting.maxCrashes \in Nat
  BY <1>1, VolumeIs
<1>3. Reading
  BY <1>2, NothingRead DEF Init, NoImage, Reading
<1>4. pending \in Seq(JournalRecords) /\ Len(pending) = 0 /\ batch = 0
  BY DEF Init
<1>5. DOMAIN snaps = {}
  BY DEF Init
<1>6. TypeOK
  <2>1. batch \in 0..Len(pending) /\ ~(batch > 0)
    BY <1>4
  <2>2. mode = "opening" /\ image.done = 0 /\ ops = 0 /\ faults = 0 /\ crashes = 0
    BY DEF Init, NoImage
  <2>. QED BY <1>2, <1>5, <2>1, <2>2 DEF TypeOK
<1>. QED BY <1>1, <1>3, <1>4, <1>5, <1>6 DEF Init, ReplayInv, Replaying

----------------------------------------------------------------------------
(***************************************************************************)
(* The volume changes.                                                     *)
(***************************************************************************)
LEMMA FreeLinksAre ==
  ASSUME VolumeTyped, NEW link \in FreeLinks
  PROVE  link \in DirectoryLink
<1>1. Frns(vol) \subseteq Frn
  BY VolumeIs DEF Frns, Frn
<1>2. RootFrn \in Frn
  BY DEF RootFrn, Frn
<1>. QED BY <1>1, <1>2 DEF FreeLinks, Dirs, DirectoryLink, Frn

LEMMA JournalRecordIs ==
  ASSUME NEW r \in Nat, NEW v, v[r] \in MftRecord, NEW link \in DirectoryLink,
         NEW reason \in Reasons
  PROVE  JournalRecord(r, v, reason, link) \in JournalRecords
<1>1. v[r].seq \in Nat /\ v[r].dir \in BOOLEAN /\ v[r].hidden \in BOOLEAN
  BY DEF MftRecord
<1>2. link[1] \in Frn /\ link[2] \in Names
  BY DEF DirectoryLink, Frn
<1>3. <<r, v[r].seq>> \in Frn
  BY <1>1 DEF Frn
<1>4. {reason} \in SUBSET Reasons
  OBVIOUS
<1>. QED BY <1>1, <1>2, <1>3, <1>4 DEF JournalRecord, JournalRecords

\* A change journals records of the worker's kind and touches nothing of the worker's.
LEMMA ChangeStep ==
  ASSUME ReplayInv, NEW kind, NEW v, NEW records \in Seq(JournalRecords),
         DOMAIN v = DOMAIN vol,
         \A r \in DOMAIN v : v[r] \in MftRecord /\ IsFiniteSet(v[r].links),
         Change(kind, v, records)
  PROVE  ReplayInv'
<1>1. /\ TypeOK /\ VolumeTyped /\ Reading /\ pending \in Seq(JournalRecords)
      /\ \A f \in DOMAIN snaps : snaps[f] \in Answers
      /\ mode # "planning" => DOMAIN snaps = {}
      /\ mode \in Replaying => Served(idx)
  BY DEF ReplayInv
<1>2. /\ setting' = setting /\ mode' = mode /\ image' = image /\ idx' = idx
      /\ batch' = batch /\ snaps' = snaps /\ faults' = faults /\ crashes' = crashes
      /\ vol' = v /\ ops < setting.maxOps /\ ops' = ops + 1
      /\ pending' = IF mode = "opening" THEN pending ELSE pending \o records
  BY DEF Change, worker
<1>3. VolumeTyped'
  BY <1>1, <1>2 DEF VolumeTyped
<1>4. Reading'
  BY <1>1, <1>2 DEF Reading
<1>5. /\ pending' \in Seq(JournalRecords) /\ Len(pending) \in Nat /\ Len(pending') \in Nat
      /\ Len(pending) <= Len(pending')
      /\ \A i \in 1..Len(pending) : pending'[i] = pending[i]
  <2>1. Len(pending) \in Nat /\ Len(records) \in Nat
    BY <1>1, LenProperties
  <2>2. CASE mode = "opening"
    BY <2>1, <2>2, <1>1, <1>2
  <2>3. CASE mode # "opening"
    <3>1. pending' = pending \o records
      BY <2>3, <1>2
    <3>2. /\ pending' \in Seq(JournalRecords) /\ Len(pending') = Len(pending) + Len(records)
          /\ \A i \in 1..(Len(pending) + Len(records)) :
               pending'[i] = IF i <= Len(pending) THEN pending[i]
                                                  ELSE records[i - Len(pending)]
      BY <3>1, <1>1, ConcatProperties
    <3>. QED BY <2>1, <3>2
  <2>. QED BY <2>2, <2>3
<1>6. {pending'[i].frn : i \in 1..batch} = {pending[i].frn : i \in 1..batch}
      /\ batch \in 0..Len(pending')
  <2>1. batch \in 0..Len(pending)
    BY <1>1 DEF TypeOK
  <2>2. \A i \in 1..batch : pending'[i] = pending[i]
    BY <2>1, <1>5
  <2>. QED BY <2>1, <2>2, <1>5
<1>7. ops' \in 0..setting.maxOps
  <2>1. ops \in Nat /\ setting.maxOps \in Nat
    BY <1>1, VolumeIs DEF TypeOK
  <2>. QED BY <2>1, <1>2
<1>8. TypeOK'
  BY <1>1, <1>2, <1>6, <1>7 DEF TypeOK
<1>. QED BY <1>1, <1>2, <1>3, <1>4, <1>5, <1>8 DEF ReplayInv

LEMMA VolumeKeepsInv == ReplayInv /\ VolumeChanges => ReplayInv'
<1>. SUFFICES ASSUME ReplayInv, VolumeChanges PROVE ReplayInv'
  OBVIOUS
<1>0. /\ "create" \in Reasons /\ "delete" \in Reasons /\ "rename_old" \in Reasons
      /\ "rename_new" \in Reasons /\ "hard_link" \in Reasons /\ "basic_info" \in Reasons
  BY DEF Reasons
<1>1. VolumeTyped
  BY DEF ReplayInv
<1>2. PICK r \in DOMAIN vol :
        \/ \E link \in FreeLinks, dir \in BOOLEAN : Create(r, link, dir)
        \/ \E link \in vol[r].links : Delete(r, link)
        \/ \E old \in vol[r].links, new \in FreeLinks : Rename(r, old, new)
        \/ \E link \in FreeLinks : Link(r, link)
        \/ \E link \in vol[r].links : Unlink(r, link)
        \/ \E link \in vol[r].links : SetHidden(r, link)
  BY DEF VolumeChanges
<1>3. /\ r \in Nat /\ vol[r] \in MftRecord /\ vol[r].links \in SUBSET DirectoryLink
      /\ IsFiniteSet(vol[r].links)
      /\ vol[r].live \in BOOLEAN /\ vol[r].seq \in Nat /\ vol[r].dir \in BOOLEAN
      /\ vol[r].hidden \in BOOLEAN
  BY <1>1, VolumeIs DEF VolumeTyped
<1>4. FreeLinks \subseteq DirectoryLink
  BY <1>1, FreeLinksAre
<1>5. ASSUME NEW v, NEW new \in MftRecord, IsFiniteSet(new.links),
             v = [vol EXCEPT ![r] = new]
      PROVE  /\ DOMAIN v = DOMAIN vol /\ v[r] = new
             /\ \A q \in DOMAIN v : v[q] \in MftRecord /\ IsFiniteSet(v[q].links)
  BY <1>1, <1>5 DEF VolumeTyped
<1>6. /\ \A s \in JournalRecords : <<s>> \in Seq(JournalRecords)
      /\ \A s, t \in JournalRecords : <<s, t>> \in Seq(JournalRecords)
  OBVIOUS
<1>7. ASSUME NEW s \in SUBSET DirectoryLink, IsFiniteSet(s), NEW link \in DirectoryLink
      PROVE  IsFiniteSet(s \cup {link}) /\ IsFiniteSet(s \ {link}) /\ IsFiniteSet({link})
  <2>1. IsFiniteSet({link})
    BY FS_Singleton
  <2>2. s \ {link} \in SUBSET s
    OBVIOUS
  <2>. QED BY <1>7, <2>1, <2>2, FS_Union, FS_Subset
<1>8. ASSUME NEW link \in FreeLinks, NEW dir \in BOOLEAN, Create(r, link, dir)
      PROVE  ReplayInv'
  <2>. DEFINE new == [live |-> TRUE, seq |-> vol[r].seq + 1, dir |-> dir,
                      hidden |-> FALSE, links |-> {link}]
              v == [vol EXCEPT ![r] = new]
  <2>1. new \in MftRecord /\ IsFiniteSet(new.links) /\ link \in DirectoryLink
    <3>1. link \in DirectoryLink /\ vol[r].seq + 1 \in Nat
      BY <1>3, <1>4
    <3>2. IsFiniteSet({link})
      BY FS_Singleton
    <3>. QED BY <3>1, <3>2 DEF MftRecord, DirectoryLink
  <2>2. Change("create", v, <<JournalRecord(r, v, "create", link)>>)
    BY <1>8 DEF Create
  <2>. HIDE DEF new
  <2>3. /\ DOMAIN v = DOMAIN vol /\ v[r] = new
        /\ \A q \in DOMAIN v : v[q] \in MftRecord /\ IsFiniteSet(v[q].links)
    BY <1>5, <2>1
  <2>. HIDE DEF v
  <2>4. JournalRecord(r, v, "create", link) \in JournalRecords
    BY <1>3, <1>0, <2>1, <2>3, JournalRecordIs
  <2>. QED BY <1>6, <2>2, <2>3, <2>4, ChangeStep
<1>9. ASSUME NEW link \in vol[r].links, Delete(r, link) PROVE ReplayInv'
  <2>. DEFINE new == [vol[r] EXCEPT !.live = FALSE, !.links = {}]
              v == [vol EXCEPT ![r] = new]
  <2>1. new \in MftRecord /\ IsFiniteSet(new.links) /\ link \in DirectoryLink
    <3>1. new.links = {}
      BY <1>3 DEF MftRecord
    <3>. QED BY <1>3, <3>1, FS_EmptySet DEF MftRecord
  <2>2. Change("delete", v, <<JournalRecord(r, vol, "delete", link)>>)
    <3>1. v = [vol EXCEPT ![r].live = FALSE, ![r].links = {}]
      OBVIOUS
    <3>. HIDE DEF v
    <3>. QED BY <3>1, <1>9 DEF Delete
  <2>. HIDE DEF new
  <2>3. /\ DOMAIN v = DOMAIN vol
        /\ \A q \in DOMAIN v : v[q] \in MftRecord /\ IsFiniteSet(v[q].links)
    BY <1>5, <2>1
  <2>. HIDE DEF v
  <2>4. JournalRecord(r, vol, "delete", link) \in JournalRecords
    BY <1>3, <1>0, <2>1, JournalRecordIs
  <2>. QED BY <1>6, <2>2, <2>3, <2>4, ChangeStep
\* The operations that change one record's links, or its attributes.
<1>. DEFINE Linked(links) == [vol[r] EXCEPT !.links = links]
            With(links) == [vol EXCEPT ![r] = Linked(links)]
<1>10. ASSUME NEW links \in SUBSET DirectoryLink, IsFiniteSet(links)
       PROVE  /\ DOMAIN With(links) = DOMAIN vol /\ With(links)[r] \in MftRecord
              /\ \A q \in DOMAIN With(links) :
                   With(links)[q] \in MftRecord /\ IsFiniteSet(With(links)[q].links)
  <2>1. Linked(links) \in MftRecord /\ Linked(links).links = links
    BY <1>3 DEF MftRecord, DirectoryLink
  <2>. DEFINE v == With(links)
              new == Linked(links)
  <2>2. v = [vol EXCEPT ![r] = new]
    OBVIOUS
  <2>. HIDE DEF v, Linked
  <2>. QED BY <1>5, <1>10, <2>1, <2>2
<1>11. ASSUME NEW old \in vol[r].links, NEW new \in FreeLinks, Rename(r, old, new)
       PROVE  ReplayInv'
  <2>. DEFINE links == (vol[r].links \ {old}) \cup {new}
              v == With(links)
              records == <<JournalRecord(r, vol, "rename_old", old),
                           JournalRecord(r, v, "rename_new", new)>>
  <2>1. /\ links \in SUBSET DirectoryLink /\ IsFiniteSet(links)
        /\ old \in DirectoryLink /\ new \in DirectoryLink
    <3>1. /\ old \in DirectoryLink /\ new \in DirectoryLink
          /\ vol[r].links \ {old} \in SUBSET DirectoryLink
      BY <1>3, <1>4
    <3>2. IsFiniteSet(vol[r].links \ {old})
      BY <3>1, <1>3, <1>7
    <3>. QED BY <3>1, <3>2, <1>7
  <2>2. \E kind : Change(kind, v, records)
    <3>1. v = [vol EXCEPT ![r].links = (@ \ {old}) \cup {new}]
      OBVIOUS
    <3>. HIDE DEF v
    <3>. QED BY <3>1, <1>11 DEF Rename
  <2>. HIDE DEF links
  <2>3. /\ DOMAIN v = DOMAIN vol /\ v[r] \in MftRecord
        /\ \A q \in DOMAIN v : v[q] \in MftRecord /\ IsFiniteSet(v[q].links)
    <3>. HIDE DEF With
    <3>. QED BY <1>10, <2>1
  <2>. HIDE DEF v
  <2>4. records \in Seq(JournalRecords)
    BY <1>3, <1>6, <1>0, <2>1, <2>3, JournalRecordIs
  <2>. HIDE DEF records
  <2>. QED BY <2>2, <2>3, <2>4, ChangeStep
<1>12. ASSUME NEW link \in FreeLinks, Link(r, link) PROVE ReplayInv'
  <2>. DEFINE links == vol[r].links \cup {link}
              v == With(links)
  <2>1. links \in SUBSET DirectoryLink /\ IsFiniteSet(links) /\ link \in DirectoryLink
    BY <1>3, <1>4, <1>7
  <2>2. Change("link", v, <<JournalRecord(r, v, "hard_link", link)>>)
    <3>1. v = [vol EXCEPT ![r].links = @ \cup {link}]
      OBVIOUS
    <3>. HIDE DEF v
    <3>. QED BY <3>1, <1>12 DEF Link
  <2>. HIDE DEF links
  <2>3. /\ DOMAIN v = DOMAIN vol /\ v[r] \in MftRecord
        /\ \A q \in DOMAIN v : v[q] \in MftRecord /\ IsFiniteSet(v[q].links)
    <3>. HIDE DEF With
    <3>. QED BY <1>10, <2>1
  <2>. HIDE DEF v
  <2>4. JournalRecord(r, v, "hard_link", link) \in JournalRecords
    BY <1>3, <1>0, <2>1, <2>3, JournalRecordIs
  <2>. QED BY <1>6, <2>2, <2>3, <2>4, ChangeStep
<1>13. ASSUME NEW link \in vol[r].links, Unlink(r, link) PROVE ReplayInv'
  <2>. DEFINE links == vol[r].links \ {link}
              v == With(links)
  <2>1. links \in SUBSET DirectoryLink /\ IsFiniteSet(links) /\ link \in DirectoryLink
    BY <1>3, <1>7
  <2>2. Change("unlink", v, <<JournalRecord(r, vol, "hard_link", link)>>)
    <3>1. v = [vol EXCEPT ![r].links = @ \ {link}]
      OBVIOUS
    <3>. HIDE DEF v
    <3>. QED BY <3>1, <1>13 DEF Unlink
  <2>. HIDE DEF links
  <2>3. /\ DOMAIN v = DOMAIN vol
        /\ \A q \in DOMAIN v : v[q] \in MftRecord /\ IsFiniteSet(v[q].links)
    <3>. HIDE DEF With
    <3>. QED BY <1>10, <2>1
  <2>. HIDE DEF v
  <2>4. JournalRecord(r, vol, "hard_link", link) \in JournalRecords
    BY <1>3, <1>0, <2>1, JournalRecordIs
  <2>. QED BY <1>6, <2>2, <2>3, <2>4, ChangeStep
<1>14. ASSUME NEW link \in vol[r].links, SetHidden(r, link) PROVE ReplayInv'
  <2>. DEFINE new == [vol[r] EXCEPT !.hidden = ~@]
              v == [vol EXCEPT ![r] = new]
  <2>1. new \in MftRecord /\ IsFiniteSet(new.links) /\ link \in DirectoryLink
    <3>1. new.links = vol[r].links
      BY <1>3 DEF MftRecord
    <3>2. (~vol[r].hidden) \in BOOLEAN
      OBVIOUS
    <3>. QED BY <1>3, <3>1, <3>2 DEF MftRecord
  <2>2. Change("hide", v, <<JournalRecord(r, v, "basic_info", link)>>)
    <3>1. v = [vol EXCEPT ![r].hidden = ~@]
      OBVIOUS
    <3>. HIDE DEF v
    <3>. QED BY <3>1, <1>14 DEF SetHidden
  <2>. HIDE DEF new
  <2>3. /\ DOMAIN v = DOMAIN vol /\ v[r] = new
        /\ \A q \in DOMAIN v : v[q] \in MftRecord /\ IsFiniteSet(v[q].links)
    BY <1>5, <2>1
  <2>. HIDE DEF v
  <2>4. JournalRecord(r, v, "basic_info", link) \in JournalRecords
    BY <1>3, <1>0, <2>1, <2>3, JournalRecordIs
  <2>. QED BY <1>6, <2>2, <2>3, <2>4, ChangeStep
<1>. HIDE DEF With
<1>. QED BY <1>2, <1>8, <1>9, <1>11, <1>12, <1>13, <1>14

----------------------------------------------------------------------------
(***************************************************************************)
(* The worker's steps.                                                     *)
(***************************************************************************)
\* What the volume's own state promises stays as long as nobody touches it.
LEMMA VolumeStays ==
  ASSUME ReplayInv, UNCHANGED <<setting, vol>>
  PROVE  VolumeTyped'
BY DEF ReplayInv, VolumeTyped

\* The invariant and its numbers.
LEMMA ReplayFacts ==
  ASSUME ReplayInv
  PROVE  /\ TypeOK /\ VolumeTyped /\ Reading /\ pending \in Seq(JournalRecords)
         /\ \A f \in DOMAIN snaps : snaps[f] \in Answers
         /\ mode # "planning" => DOMAIN snaps = {}
         /\ mode \in Replaying => Served(idx)
         /\ Len(pending) \in Nat /\ batch \in Nat /\ batch <= Len(pending)
         /\ mode \in {"planning", "applied"} => batch \in 1..Len(pending)
         /\ mode \notin {"planning", "applied"} => batch = 0
         /\ setting.maxFaults \in Nat /\ setting.maxCrashes \in Nat
         /\ Len(setting.extents) \in Nat
<1>1. /\ TypeOK /\ VolumeTyped /\ Reading /\ pending \in Seq(JournalRecords)
      /\ \A f \in DOMAIN snaps : snaps[f] \in Answers
      /\ mode # "planning" => DOMAIN snaps = {}
      /\ mode \in Replaying => Served(idx)
  BY DEF ReplayInv
<1>2. Len(pending) \in Nat
  BY <1>1, LenProperties
<1>3. /\ batch \in Nat /\ batch <= Len(pending)
      /\ (batch > 0) <=> mode \in {"planning", "applied"}
  BY <1>1, <1>2 DEF TypeOK
<1>4. batch \in 1..Len(pending) \/ batch = 0
  BY <1>2, <1>3
<1>5. /\ setting.maxFaults \in Nat /\ setting.maxCrashes \in Nat
      /\ Len(setting.extents) \in Nat
  BY <1>1, VolumeIs
<1>6. /\ mode \in {"planning", "applied"} => batch \in 1..Len(pending)
      /\ mode \notin {"planning", "applied"} => batch = 0
  BY <1>2, <1>3, <1>4
<1>. QED BY <1>1, <1>2, <1>3, <1>5, <1>6

LEMMA OpenJournalKeepsInv == ReplayInv /\ OpenJournal => ReplayInv'
<1>. SUFFICES ASSUME ReplayInv, OpenJournal PROVE ReplayInv'
  OBVIOUS
<1>1. /\ mode = "opening" /\ mode' = "scanning" /\ pending' = <<>> /\ image' = NoImage
      /\ UNCHANGED <<setting, vol, idx, batch, snaps, ops, faults, crashes>>
  BY DEF OpenJournal
<1>2. VolumeTyped'
  BY <1>1, VolumeStays
<1>3. TypeOK /\ batch = 0 /\ DOMAIN snaps = {} /\ Len(setting.extents) \in Nat
  BY <1>1, ReplayFacts
<1>4. Reading'
  BY <1>1, <1>3, NothingRead DEF Reading, NoImage
<1>5. pending' \in Seq(JournalRecords) /\ Len(pending') = 0
  BY <1>1
<1>6. TypeOK'
  <2>1. batch' \in 0..Len(pending') /\ ~(batch' > 0)
    BY <1>1, <1>3, <1>5
  <2>2. image'.done = 0
    BY <1>1 DEF NoImage
  <2>. QED BY <1>1, <1>3, <2>1, <2>2 DEF TypeOK
<1>. QED BY <1>1, <1>2, <1>3, <1>4, <1>5, <1>6 DEF ReplayInv, Replaying

LEMMA ReadExtentKeepsInv == ReplayInv /\ ReadExtent => ReplayInv'
<1>. SUFFICES ASSUME ReplayInv, ReadExtent PROVE ReplayInv'
  OBVIOUS
<1>. DEFINE done == image.done + 1
            found == image.found \o Entries(setting.extents[done])
<1>1. /\ mode = "scanning" /\ image.done < Len(setting.extents)
      /\ image' = [done |-> done, found |-> found]
      /\ UNCHANGED <<setting, vol, pending, mode, idx, batch, snaps, ops, faults, crashes>>
  BY DEF ReadExtent
<1>2. VolumeTyped'
  BY <1>1, VolumeStays
<1>3. TypeOK /\ VolumeTyped /\ Reading
  BY DEF ReplayInv
<1>4. /\ done \in 0..Len(setting.extents)
      /\ Found(found)
      /\ \A i \in DOMAIN found : \E k \in 1..done : found[i].frn[1] \in setting.extents[k]
  BY <1>1, <1>3, ReadingGoesOn
<1>. HIDE DEF done, found
<1>5. image'.done = done /\ image'.found = found
  BY <1>1
<1>6. Reading'
  BY <1>1, <1>4, <1>5 DEF Reading
<1>7. TypeOK'
  BY <1>1, <1>3, <1>4, <1>5 DEF TypeOK
<1>. QED BY <1>1, <1>2, <1>6, <1>7 DEF ReplayInv

LEMMA FinishScanKeepsInv == ReplayInv /\ FinishScan => ReplayInv'
<1>. SUFFICES ASSUME ReplayInv, FinishScan PROVE ReplayInv'
  OBVIOUS
<1>. DEFINE built == FinishStrict(image.found)
<1>1. /\ mode = "scanning"
      /\ mode' = IF built.ok THEN "tailing" ELSE "failed"
      /\ idx' = IF built.ok THEN built.idx ELSE idx
      /\ image' = NoImage
      /\ UNCHANGED <<setting, vol, pending, batch, snaps, ops, faults, crashes>>
  BY DEF FinishScan
<1>2. VolumeTyped'
  BY <1>1, VolumeStays
<1>3. TypeOK /\ batch = 0 /\ DOMAIN snaps = {} /\ Len(setting.extents) \in Nat /\ Reading
  BY <1>1, ReplayFacts
<1>4. Reading'
  BY <1>1, <1>3, NothingRead DEF Reading, NoImage
<1>5. TypeOK'
  <2>1. image'.done = 0 /\ mode' \in {"tailing", "failed"} /\ ~(batch > 0)
    BY <1>1, <1>3 DEF NoImage
  <2>. QED BY <1>1, <1>3, <2>1 DEF TypeOK
<1>6. built.ok => Served(built.idx)
  BY <1>3, FinishIs DEF Reading
<1>7. mode' \in Replaying => Served(idx')
  <2>. HIDE DEF built
  <2>. QED BY <1>1, <1>6 DEF Replaying
<1>8. pending \in Seq(JournalRecords) /\ mode' # "planning"
  BY <1>1 DEF ReplayInv
<1>. QED BY <1>1, <1>2, <1>3, <1>4, <1>5, <1>7, <1>8 DEF ReplayInv

LEMMA ReadJournalKeepsInv == ReplayInv /\ ReadJournal => ReplayInv'
<1>. SUFFICES ASSUME ReplayInv, ReadJournal PROVE ReplayInv'
  OBVIOUS
<1>1. /\ mode = "tailing" /\ batch' \in 1..Len(pending)
      /\ mode' = "planning" /\ snaps' = << >>
      /\ UNCHANGED <<setting, vol, pending, image, idx, ops, faults, crashes>>
  BY DEF ReadJournal
<1>2. VolumeTyped'
  BY <1>1, VolumeStays
<1>3. TypeOK /\ Reading /\ Served(idx) /\ Len(pending) \in Nat
      /\ pending \in Seq(JournalRecords)
  BY <1>1, ReplayFacts DEF Replaying
<1>4. Reading'
  BY <1>1, <1>3 DEF Reading
<1>5. DOMAIN snaps' = {}
  BY <1>1
<1>6. TypeOK'
  <2>1. batch' \in 0..Len(pending) /\ batch' > 0
    BY <1>1, <1>3
  <2>. QED BY <1>1, <1>3, <1>5, <2>1 DEF TypeOK
<1>. QED BY <1>1, <1>2, <1>3, <1>4, <1>5, <1>6 DEF ReplayInv

\* A lookup is made for an object of the batch.
LEMMA NextUnreadIs ==
  ASSUME ReplayInv, Unread # {}
  PROVE  NextUnread \in {pending[i].frn : i \in 1..batch}
<1>. DEFINE n == Len(CurrentBatch)
<1>1. pending \in Seq(JournalRecords) /\ batch \in 0..Len(pending)
  BY ReplayFacts
<1>2. /\ n \in Nat /\ DOMAIN CurrentBatch = 1..n
      /\ \A k \in 1..n : CurrentBatch[k].frn \in {pending[i].frn : i \in 1..batch}
  BY <1>1, PlanIs
<1>. HIDE DEF n
<1>3. Unread \in SUBSET (1..n)
  BY <1>2 DEF Unread
<1>4. Nth(Unread, 1) \in 1..n
  BY <1>2, <1>3, Positions
<1>. QED BY <1>2, <1>4 DEF NextUnread

LEMMA ReadLinksKeepsInv ==
  ASSUME ReplayInv, NEW answer \in Answers, ReadLinks(answer),
         faults' \in 0..setting.maxFaults
  PROVE  ReplayInv'
<1>1. /\ mode = "planning" /\ Unread # {}
      /\ snaps' = [f \in DOMAIN snaps \cup {NextUnread} |->
                     IF f \in DOMAIN snaps THEN snaps[f] ELSE answer]
      /\ UNCHANGED <<setting, vol, pending, mode, image, idx, batch, ops, crashes>>
  BY DEF ReadLinks
<1>2. VolumeTyped'
  BY <1>1, VolumeStays
<1>3. TypeOK /\ Reading /\ Served(idx) /\ pending \in Seq(JournalRecords)
      /\ \A f \in DOMAIN snaps : snaps[f] \in Answers
  BY <1>1, ReplayFacts DEF Replaying
<1>4. Reading'
  BY <1>1, <1>3 DEF Reading
<1>5. NextUnread \in {pending[i].frn : i \in 1..batch}
  BY <1>1, NextUnreadIs
<1>. HIDE DEF NextUnread
<1>6. DOMAIN snaps' = DOMAIN snaps \cup {NextUnread}
  BY <1>1
<1>7. \A f \in DOMAIN snaps' : snaps'[f] \in Answers
  BY <1>1, <1>3, <1>6
<1>8. TypeOK'
  <2>1. DOMAIN snaps' \subseteq {pending[i].frn : i \in 1..batch}
    BY <1>3, <1>5, <1>6 DEF TypeOK
  <2>. QED BY <1>1, <1>3, <2>1 DEF TypeOK
<1>. QED BY <1>1, <1>2, <1>3, <1>4, <1>7, <1>8 DEF ReplayInv

LEMMA LookupIs ==
  ASSUME ReplayInv, NEW frn
  PROVE  Lookup(frn) \in Answers /\ NoAnswer \in Answers
<1>1. {} \in FrnLinks
  BY FS_EmptySet DEF FrnLinks
<1>2. ASSUME frn \in Frns(vol) PROVE vol[frn[1]].links \in FrnLinks
  <2>1. VolumeTyped /\ frn[1] \in DOMAIN vol
    BY <1>2 DEF ReplayInv, Frns
  <2>2. vol[frn[1]].links \in SUBSET DirectoryLink /\ IsFiniteSet(vol[frn[1]].links)
    BY <2>1, VolumeIs DEF VolumeTyped
  <2>. QED BY <2>2 DEF FrnLinks, DirectoryLink, Frn
<1>. QED BY <1>1, <1>2 DEF Lookup, NoAnswer, Answers

LEMMA FetchKeepsInv == ReplayInv /\ (FetchLinks \/ FetchFails) => ReplayInv'
<1>. SUFFICES ASSUME ReplayInv, FetchLinks \/ FetchFails PROVE ReplayInv'
  OBVIOUS
<1>1. faults \in 0..setting.maxFaults /\ setting.maxFaults \in Nat
  BY ReplayFacts DEF TypeOK
<1>2. CASE FetchLinks
  <2>1. ReadLinks(Lookup(NextUnread)) /\ faults' = faults /\ Lookup(NextUnread) \in Answers
    BY <1>2, LookupIs DEF FetchLinks
  <2>. QED BY <1>1, <2>1, ReadLinksKeepsInv
<1>3. CASE FetchFails
  <2>1. ReadLinks(NoAnswer) /\ NoAnswer \in Answers
        /\ faults < setting.maxFaults /\ faults' = faults + 1
    BY <1>3, LookupIs DEF FetchFails
  <2>2. faults' \in 0..setting.maxFaults
    BY <1>1, <2>1
  <2>. QED BY <2>1, <2>2, ReadLinksKeepsInv
<1>. QED BY <1>2, <1>3

LEMMA ApplyBatchKeepsInv == ReplayInv /\ ApplyBatch => ReplayInv'
<1>. SUFFICES ASSUME ReplayInv, ApplyBatch PROVE ReplayInv'
  OBVIOUS
<1>. DEFINE applied == ApplyPlanned(idx, CurrentBatch)
<1>1. /\ mode = "planning" /\ Unread = {}
      /\ idx' = applied.idx
      /\ mode' = IF applied.rescan THEN "opening" ELSE "applied"
      /\ batch' = IF applied.rescan THEN 0 ELSE batch
      /\ pending' = IF applied.rescan THEN <<>> ELSE pending
      /\ snaps' = << >>
      /\ UNCHANGED <<setting, vol, image, ops, faults, crashes>>
  BY DEF ApplyBatch
<1>2. VolumeTyped'
  BY <1>1, VolumeStays
<1>3. /\ TypeOK /\ Reading /\ Served(idx) /\ pending \in Seq(JournalRecords)
      /\ \A f \in DOMAIN snaps : snaps[f] \in Answers
      /\ Len(pending) \in Nat /\ batch \in 1..Len(pending) /\ batch \in 0..Len(pending)
  BY <1>1, ReplayFacts DEF Replaying
<1>4. Reading'
  BY <1>1, <1>3 DEF Reading
<1>5. DOMAIN snaps' = {}
  BY <1>1
<1>6. ~applied.rescan => Served(applied.idx)
  <2>1. /\ Len(CurrentBatch) \in Nat /\ DOMAIN CurrentBatch = 1..Len(CurrentBatch)
        /\ \A k \in 1..Len(CurrentBatch) :
             CurrentBatch[k].frn \in Frn /\ CurrentBatch[k].last \in JournalRecords
    BY <1>3, PlanIs
  <2>2. ASSUME NEW k \in 1..Len(CurrentBatch) PROVE Planned(CurrentBatch[k])
    <3>1. NeedsLinks(CurrentBatch[k]) => CurrentBatch[k].frn \in DOMAIN snaps
      BY <1>1, <2>1 DEF Unread
    <3>. QED BY <1>3, <2>1, <3>1 DEF Planned
  <2>3. BatchInv(idx)
    BY <1>3, ServedIsBatch
  <2>. QED BY <2>1, <2>2, <2>3, AppliedIs
<1>. HIDE DEF applied
<1>7. mode' \in Replaying => Served(idx')
  BY <1>1, <1>6 DEF Replaying
<1>8. /\ pending' \in Seq(JournalRecords) /\ batch' \in 0..Len(pending')
      /\ mode' \in {"opening", "applied"}
      /\ (batch' > 0) <=> mode' \in {"planning", "applied"}
  <2>1. CASE applied.rescan
    <3>1. pending' = <<>> /\ batch' = 0 /\ mode' = "opening"
      BY <1>1, <2>1
    <3>2. pending' \in Seq(JournalRecords) /\ Len(pending') = 0
      BY <3>1
    <3>. QED BY <3>1, <3>2
  <2>2. CASE ~applied.rescan
    <3>1. pending' = pending /\ batch' = batch /\ mode' = "applied"
      BY <1>1, <2>2
    <3>2. batch > 0
      BY <1>3
    <3>. QED BY <1>3, <3>1, <3>2
  <2>. QED BY <2>1, <2>2
<1>9. TypeOK'
  BY <1>1, <1>3, <1>5, <1>8 DEF TypeOK
<1>. QED BY <1>2, <1>4, <1>5, <1>7, <1>8, <1>9 DEF ReplayInv

LEMMA PublishKeepsInv ==
  ASSUME ReplayInv, NEW compact \in BOOLEAN, Publish(compact)
  PROVE  ReplayInv'
<1>1. /\ mode = "applied" /\ mode' = "tailing" /\ batch' = 0
      /\ pending' = SubSeq(pending, batch + 1, Len(pending))
      /\ idx' = IF compact THEN Compacted(idx) ELSE idx
      /\ UNCHANGED <<setting, vol, image, snaps, ops, faults, crashes>>
  BY DEF Publish
<1>2. VolumeTyped'
  BY <1>1, VolumeStays
<1>3. /\ TypeOK /\ Reading /\ Served(idx) /\ pending \in Seq(JournalRecords)
      /\ DOMAIN snaps = {} /\ Len(pending) \in Nat /\ batch \in Nat
  BY <1>1, ReplayFacts DEF Replaying
<1>4. Reading'
  BY <1>1, <1>3 DEF Reading
<1>5. pending' \in Seq(JournalRecords) /\ Len(pending') \in Nat
  <2>1. /\ batch + 1 \in Int /\ Len(pending) \in Int
        /\ \A i \in (batch + 1)..Len(pending) : pending[i] \in JournalRecords
    <3>1. \A i \in 1..Len(pending) : pending[i] \in JournalRecords
      BY <1>3, ElementOfSeq
    <3>. QED BY <1>3, <3>1
  <2>2. pending' \in Seq(JournalRecords)
    BY <1>1, <2>1, SubSeqProperties
  <2>. QED BY <2>2, LenProperties
<1>6. Served(Compacted(idx))
  BY <1>3, CompactedRows DEF Served
<1>7. Served(idx')
  BY <1>1, <1>3, <1>6
<1>8. TypeOK'
  <2>1. batch' \in 0..Len(pending') /\ ~(batch' > 0)
    BY <1>1, <1>5
  <2>. QED BY <1>1, <1>3, <2>1 DEF TypeOK
<1>. QED BY <1>1, <1>2, <1>3, <1>4, <1>5, <1>7, <1>8 DEF ReplayInv

LEMMA RestartKeepsInv == ReplayInv /\ RestartFromFlush => ReplayInv'
<1>. SUFFICES ASSUME ReplayInv, RestartFromFlush PROVE ReplayInv'
  OBVIOUS
<1>1. /\ mode = "applied" /\ crashes < setting.maxCrashes
      /\ mode' = "tailing" /\ batch' = 0 /\ crashes' = crashes + 1
      /\ UNCHANGED <<setting, vol, pending, image, idx, snaps, ops, faults>>
  BY DEF RestartFromFlush
<1>2. VolumeTyped'
  BY <1>1, VolumeStays
<1>3. /\ TypeOK /\ Reading /\ Served(idx) /\ pending \in Seq(JournalRecords)
      /\ DOMAIN snaps = {} /\ Len(pending) \in Nat /\ setting.maxCrashes \in Nat
  BY <1>1, ReplayFacts DEF Replaying
<1>4. Reading'
  BY <1>1, <1>3 DEF Reading
<1>5. TypeOK'
  <2>1. batch' \in 0..Len(pending') /\ ~(batch' > 0) /\ crashes' \in 0..setting.maxCrashes
    BY <1>1, <1>3 DEF TypeOK
  <2>. QED BY <1>1, <1>3, <2>1 DEF TypeOK
<1>. QED BY <1>1, <1>2, <1>3, <1>4, <1>5 DEF ReplayInv

LEMMA ReplayStep == ReplayInv /\ [Next]_vars => ReplayInv'
<1>. SUFFICES ASSUME ReplayInv, [Next]_vars PROVE ReplayInv'
  OBVIOUS
<1>1. CASE VolumeChanges
  BY <1>1, VolumeKeepsInv
<1>2. CASE OpenJournal
  BY <1>2, OpenJournalKeepsInv
<1>3. CASE ReadExtent
  BY <1>3, ReadExtentKeepsInv
<1>4. CASE FinishScan
  BY <1>4, FinishScanKeepsInv
<1>5. CASE ReadJournal
  BY <1>5, ReadJournalKeepsInv
<1>6. CASE FetchLinks \/ FetchFails
  BY <1>6, FetchKeepsInv
<1>7. CASE ApplyBatch
  BY <1>7, ApplyBatchKeepsInv
<1>8. CASE \E compact \in BOOLEAN : Publish(compact)
  BY <1>8, PublishKeepsInv
<1>9. CASE RestartFromFlush
  BY <1>9, RestartKeepsInv
<1>10. CASE UNCHANGED vars
  <2>1. UNCHANGED <<setting, vol>>
    BY <1>10 DEF vars
  <2>2. VolumeTyped'
    BY <2>1, VolumeStays
  <2>3. TypeOK' /\ Reading'
    BY <1>10 DEF vars, ReplayInv, TypeOK, Reading
  <2>. QED BY <1>10, <2>2, <2>3 DEF vars, ReplayInv
<1>. QED BY <1>1, <1>2, <1>3, <1>4, <1>5, <1>6, <1>7, <1>8, <1>9, <1>10 DEF Next, WorkerSteps

----------------------------------------------------------------------------
\* The inductive invariant of the journal replay (worker.rs volume_thread_inner,
\* usn/apply.rs apply_events, index/builder.rs finish_strict), for every volume,
\* every cut of its MFT into reads, and every interleaving of its changes.
THEOREM ReplayInvariant == Spec => []ReplayInv
<1>1. Init => ReplayInv
  BY ReplayInit
<1>2. ReplayInv /\ [Next]_vars => ReplayInv'
  BY ReplayStep
<1>. QED BY <1>1, <1>2, PTL DEF Spec

\* What queries read between batches is a forest under the root, with no link twice and
\* one generation per record, in which a row is excluded exactly when it or a directory
\* above it is hidden (mutate.rs, topology.rs, compact.rs, builder.rs): whatever the
\* records of a batch say, and however old or new the link lookups are.
THEOREM ServedIsSound == Spec => []ServedSound
<1>1. ReplayInv => ServedSound
  <2>. SUFFICES ASSUME ReplayInv PROVE ServedSound
    OBVIOUS
  <2>1. TypeOK
    BY DEF ReplayInv
  <2>2. ServedForest /\ ExclusionInherited
    BY DEF ReplayInv, Replaying, Served, Inherited, ServedForest, ExclusionInherited
  <2>. QED BY <2>1, <2>2 DEF ServedSound
<1>. QED BY <1>1, ReplayInvariant, PTL
=============================================================================
