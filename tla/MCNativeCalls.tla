---------------------------- MODULE MCNativeCalls ----------------------------
(* NativeCalls with two isolates on two threads, and numbers scaled down:  *)
(* 2^32 is 8, u16::MAX is 3.                                                *)
EXTENDS NativeCalls

Size(rows, columns, width, height) ==
  [rows |-> rows, columns |-> columns, pixel_width |-> width, pixel_height |-> height]

(* Smallest and largest, zero, too large, negative, and beyond 32 bits.    *)
MCSizes ==
  {Size(1, 2, 0, 0), Size(3, 1, 0, 3), Size(0, 1, 0, 0), Size(1, 4, 0, 0), Size(1, 1, -1, 0),
   Size(8, 1, 0, 0), Size(9, 1, 0, 0)}
MCProgramSizes == {Size(0, 3, 0, 0)}

Request(executable, argument, cwd, environment, size) ==
  [executable |-> executable, arguments |-> <<argument>>, cwd |-> cwd, mode |-> "overlay",
   environment |-> environment, size |-> size]
MCRequests ==
  {Request(<<"x">>, <<>>, <<>>, <<>>, Size(2, 3, 1, 0)),
   Request(<<"x">>, <<>>, <<>>, <<>>, Size(0, 1, 0, 0)),
   Request(<<>>, <<>>, <<>>, <<>>, Size(1, 1, 0, 0)),
   Request(<<"x">>, <<"NUL">>, <<>>, <<>>, Size(1, 1, 0, 0)),
   Request(<<"x">>, <<>>, <<>>, <<[key |-> <<"x">>, value |-> <<"NUL">>]>>, Size(1, 1, 0, 0))}

MCTtyNames == {<<"x">>, <<"x", "y">>}

MCKeys == {<<>>, <<"x">>, <<"y">>, <<"x", "=">>, <<"=", "x">>, <<"x", "NUL">>}
MCValues == {<<>>, <<"x">>, <<"=">>, <<"NUL">>}
MCParent == [key \in {<<"x">>, <<"y", "y">>} |-> <<"y">>]

MCSymmetry == Permutations(Isolates) \union Permutations(Threads)
=============================================================================
