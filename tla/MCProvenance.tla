------------------------------ MODULE MCProvenance ------------------------------
(* Kernels with different register layouts, two of them in one note.       *)
EXTENDS Provenance

Arg(hidden, name, param, offset, size) ==
    [hidden |-> hidden, name |-> name, param |-> param, offset |-> offset, size |-> size]

MCNote ==
    << [symbol |-> "copy",  args |-> <<Arg(None, "src", 0, 4, 8), Arg(None, "len", 1, 12, 4)>>],
       [symbol |-> "scale", args |-> <<Arg(None, None, 0, 0, 4), Arg(None, None, 1, 12, 4),
                                       Arg("group_size_x", None, None, 4, 2),
                                       Arg("group_size_y", None, None, 6, 2)>>] >>

Kernel(symbol, kd, props, wg, dims) ==
    [symbol |-> symbol, kd |-> kd, props |-> props, wg |-> wg, dims |-> dims]

MCKernels ==
    { Kernel("copy",  TRUE,  {1, 3},          {7},    0),
      Kernel("scale", TRUE,  {0, 1, 2, 3, 4}, {7, 8}, 1),
      Kernel("scale", FALSE, {3},             {7},    0) }

MCTemps     == { <<S(20)>>, <<V(0)>>, <<V(3)>> }
MCTempPairs == { <<S(20), S(21)>>, <<V(3), V(4)>> }
===============================================================================
