------------------------------ MODULE WaveIndex ------------------------------
(***************************************************************************)
(* How a wavefront finds its slice of the per-wave buffer: the index the   *)
(* device computes (global_wavefront_id of user_probe.cpp) and the number  *)
(* of slices the host provides for (hook_launch of hostcall_hooks.h and    *)
(* launcher_nd.cpp).  Dimensions and coordinates are records x, y, z.      *)
(* The products stay below 2^32, the width of the device's unsigned.       *)
(***************************************************************************)
EXTENDS Naturals

CONSTANT Wave     \* lanes of a wavefront: 64

ASSUME WaveAssumption == Wave \in Nat \ {0}

Dims == [x : Nat \ {0}, y : Nat \ {0}, z : Nat \ {0}]

(* The coordinates of the blocks of a grid, or of the threads of a block.  *)
Within(d) == [x : 0 .. d.x - 1, y : 0 .. d.y - 1, z : 0 .. d.z - 1]

Volume(d) == d.x * d.y * d.z

(* A slip: the last, partly filled wavefront of a block is not counted. *)
WavesPerBlockRoundedDown(block) == Volume(block) \div Wave

WavesPerBlock(block) == (Volume(block) + (Wave - 1)) \div Wave

NWaves(grid, block) == Volume(grid) * WavesPerBlock(block)

Linear(i, d) == (i.z * d.y + i.y) * d.x + i.x

(* The order in which the hardware packs the threads of a block into       *)
(* wavefronts, and the dispatcher numbers the blocks of a grid.            *)
Flat(i, d) == i.x + d.x * (i.y + d.y * i.z)

(* A slip: a block's wavefronts follow the block number by one. *)
WavefrontIdUnscaled(grid, block, b, t) ==
    Linear(b, grid) + Linear(t, block) \div Wave

(* The index of the wavefront that thread t of block b belongs to.         *)
WavefrontId(grid, block, b, t) ==
    Linear(b, grid) * WavesPerBlock(block) + Linear(t, block) \div Wave
==============================================================================
