----------------------------- MODULE MCUsnApply -----------------------------
EXTENDS UsnApply

\* An MFT record that is free, a directory and a file, each used once before.
Free == [live |-> FALSE, seq |-> 1, dir |-> FALSE, hidden |-> FALSE, links |-> {}]
Object(isDir, ls) ==
  [live |-> TRUE, seq |-> 1, dir |-> isDir, hidden |-> FALSE, links |-> ls]

\* A directory, a file in it, and a free record.
DirAndFile ==
  [r \in 1 .. 3 |-> CASE r = 1 -> Object(TRUE, {<<RootFrn, "a">>})
                      [] r = 2 -> Object(FALSE, {<<<<1, 1>>, "a">>})
                      [] OTHER -> Free]

\* A file with two links, one of them in a directory.
LinkedFile ==
  [DirAndFile EXCEPT ![2] = Object(FALSE, {<<<<1, 1>>, "a">>, <<RootFrn, "b">>})]

\* Two record slots: a free slot below a file, or a directory below the file in it.
FileOnly ==
  [r \in 1 .. 2 |-> IF r = 2 THEN Object(FALSE, {<<RootFrn, "a">>}) ELSE Free]
FileBelow ==
  [r \in 1 .. 2 |-> IF r = 1 THEN Object(TRUE, {<<RootFrn, "a">>})
                    ELSE Object(FALSE, {<<<<1, 1>>, "a">>})]

\* A directory with a file in it in late slots, and a free early slot.
LateDir ==
  [r \in 1 .. 3 |-> CASE r = 2 -> Object(TRUE, {<<RootFrn, "a">>})
                      [] r = 3 -> Object(FALSE, {<<<<2, 1>>, "a">>})
                      [] OTHER -> Free]

Setting(volume, extents, kinds, maxOps, maxFaults, maxCrashes) ==
  [volume |-> volume, extents |-> extents, kinds |-> kinds, maxOps |-> maxOps,
   maxFaults |-> maxFaults, maxCrashes |-> maxCrashes]

OneRead   == <<1 .. 3>>
SlotReads == <<{1}, {2}>>
LateReads == <<{1}, {2}, {3}>>

NoLinkOps  == AllOps \ {"link", "unlink"}
NoDirMoves == AllOps \ {"move_dir"}

\* Churn under a lookup that fails; a file's links and a restart; and the two slots read
\* one after the other, around moves and record reuse.
MCSettings ==
  {Setting(DirAndFile, OneRead, NoLinkOps, 3, 1, 0),
   Setting(LinkedFile, OneRead, AllOps, 3, 0, 1),
   Setting(FileOnly, SlotReads, NoDirMoves, 4, 0, 0),
   Setting(FileBelow, SlotReads, NoDirMoves, 3, 0, 0)}
DroppedSettings == {Setting(LateDir, LateReads, AllOps, 2, 0, 0)}
=============================================================================
