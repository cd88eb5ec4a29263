---------------------------- MODULE MCFileTable ----------------------------
(* FileTable for TLC: two files, two slots beside the console's, data with   *)
(* and without a 0, and numbers at the limits of the conversions.            *)
EXTENDS FileTable

CONSTANTS f1, f2

MCMaxCalls == [files |-> 6, console |-> 3]
MCSymmetry == Permutations(Name)
MCData == {<<97>>, <<98, 99>>, <<97, 0, 98>>}
MCNumber ==
    {0, 7, -7, 10, -40, 99999999, -99999999, 123456789, -123456789, 1000000000,
     -999999999, -1000000000, MaxInt, -MaxInt, MinInt}
MCLine == {Text(n) : n \in MCNumber} \cup {<<>>, <<120, 121>>, <<Dash>>, <<Dash, Dash>>}
=============================================================================
