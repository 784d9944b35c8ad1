------------------------------ MODULE MCMftScan ------------------------------
(* Three records: an object without a list, or one whose second name is in   *)
(* an extension record, its list resident or in a stream.                    *)
EXTENDS MftScan
CONSTANTS n1, n2, n3
MCNames == {n1, n2, n3}
One == [Free(1) EXCEPT !.used = TRUE, !.names = {[id |-> 1, name |-> n1]}, !.next = 2]
Ext == [Free(1) EXCEPT !.used = TRUE, !.base = <<1, 1>>, !.next = 2,
                       !.names = {[id |-> 1, name |-> n2]}]
Long(k) == [One EXCEPT !.list = k,
                       !.entries = IF k = "stream" THEN {}
                                   ELSE {[at |-> <<1, 1>>, id |-> 1], [at |-> <<2, 1>>, id |-> 1]}]
\* Two objects whose lists have outlived their extensions.
Alone(s, n) == [One EXCEPT !.list = "resident", !.names = {[id |-> 1, name |-> n]},
                           !.entries = {[at |-> <<s, 1>>, id |-> 1]}]
MCDisks == {<<Alone(1, n1), Alone(2, n2), Free(1)>>} \cup {<<One, Free(1), Free(1)>>} \cup {<<Long(k), Ext, Free(1)>> : k \in {"resident", "stream"}}
==============================================================================
