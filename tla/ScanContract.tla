----------------------------- MODULE ScanContract -----------------------------
(***************************************************************************)
(* What a scan of the file records promises (scan/mod.rs): the records     *)
(* enter the index one after the other in the order of the table, then the *)
(* objects whose names were deferred, in the order they were met; an index *)
(* is returned only when all of both are in it.  The scan may give up at   *)
(* any moment, and then returns none.                                      *)
(***************************************************************************)
EXTENDS Naturals, Sequences

CONSTANTS Records  \* number of file records

VARIABLES
  seen,     \* records that entered the index or were deferred
  waiting,  \* the deferred objects, in order
  answer

Start == seen = 0 /\ waiting = <<>> /\ answer = "running"

Take == /\ answer = "running" /\ seen < Records
        /\ seen' = seen + 1
        /\ \/ UNCHANGED waiting
           \/ /\ waiting' # <<>>
              /\ waiting' = Append(waiting, <<seen + 1, waiting'[Len(waiting')][2]>>)
        /\ UNCHANGED answer

Settle == /\ answer = "running" /\ seen = Records /\ waiting # <<>>
          /\ waiting' = Tail(waiting) /\ UNCHANGED <<seen, answer>>

Deliver == /\ answer = "running" /\ seen = Records /\ waiting = <<>>
           /\ answer' = "complete" /\ UNCHANGED <<seen, waiting>>

GiveUp == /\ answer = "running"
          /\ answer' \in {"cancelled", "failed"} /\ UNCHANGED <<seen, waiting>>

Act == Take \/ Settle \/ Deliver \/ GiveUp

Contract == Start /\ [][Act]_<<seen, waiting, answer>>
==============================================================================
