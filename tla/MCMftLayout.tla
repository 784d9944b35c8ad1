------------------------------ MODULE MCMftLayout ------------------------------
(* Clusters of one, two and four sectors under records of two; whole,        *)
(* fragmented and badly described $MFTs.                                     *)
EXTENDS MftLayout
Boot(c, k, n, at) == [perCluster |-> c, code |-> k, sectors |-> n, at |-> at]
Geo(c, n, at) == [cluster |-> c, record |-> 2, volume |-> n, at |-> at]
E1(l, n) == [lcn |-> l, len |-> n]
A1(low, high, pairs) == [low |-> low, high |-> high, pairs |-> pairs]
Volume(b, g, es, n, as) == [boot |-> b, geometry |-> g, extents |-> es, size |-> n, attrs |-> as]
Small == Geo(1, 16, 5)
Pieces == <<E1(5, 3), E1(2, 2), E1(9, 1), E1(12, 2)>>
Even == <<E1(5, 2), E1(2, 2), E1(9, 2)>>
MCVolumes ==
  { Volume(Boot(1, 2, 16, 5), Small, Pieces, 8, <<A1(0, 7, <<<<3, 5>>, <<2, -3>>, <<1, 7>>, <<2, 3>>>>)>>),
    Volume(Boot(1, 2, 16, 5), Small, Pieces, 8, <<A1(0, 2, <<<<3, 5>>>>)>>),
    Volume(Boot(1, 2, 16, 5), Small, Pieces, 8, <<A1(5, 5, <<<<1, 9>>>>), A1(0, 2, <<<<3, 5>>>>)>>),
    Volume(Boot(1, 2, 16, 5), Small, Even, 6, <<A1(0, 1, <<<<2, 5>>>>)>>),
    Volume(Boot(1, 2, 16, 5), Small, Pieces, 8, <<A1(0, 2, <<<<3, 9>>>>)>>),
    Volume(Boot(1, 2, 16, 5), Small, Pieces, 8, <<A1(0, 2, <<<<3, 5>>>>), A1(3, 4, <<<<2, 3>>>>)>>),
    Volume(Boot(1, 2, 16, 5), Small, Pieces, 8, <<A1(0, 3, <<<<3, 5>>>>)>>),
    Volume(Boot(1, 2, 16, 5), Small, Pieces, 8, <<A1(3, 4, <<<<2, 2>>>>)>>),
    Volume(Boot(1, 2, 16, 6), Small, Pieces, 8, <<A1(0, 2, <<<<3, 5>>>>)>>),
    Volume(Boot(2, -1, 28, 5), Geo(2, 28, 5), Pieces, 16, <<A1(0, 4, <<<<3, 5>>, <<2, -3>>>>)>>),
    Volume(Boot(4, -1, 56, 5), Geo(4, 56, 5), <<E1(5, 2), E1(2, 1)>>, 10, <<A1(0, 1, <<<<2, 5>>>>)>>),
    Volume(Boot(3, -1, 56, 5), Geo(4, 56, 5), <<E1(5, 2), E1(2, 1)>>, 10, <<A1(0, 1, <<<<2, 5>>>>)>>) }
================================================================================
