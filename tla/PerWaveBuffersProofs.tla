------------------------- MODULE PerWaveBuffersProofs -------------------------
(***************************************************************************)
(* Proofs about PerWaveBuffers, for launches of any dimensions and number, *)
(* any size of a wavefront, and any number of blocks and block entries.    *)
(***************************************************************************)
EXTENDS PerWaveBuffers, Integers, FiniteSetTheorems, TLAPS

-----------------------------------------------------------------------------
(***************************************************************************)
(* Division with remainder, and numbers of two digits, for the index of a  *)
(* wavefront.                                                              *)
(***************************************************************************)

(* A strictly larger factor makes the product larger by one whole factor.  *)
LEMMA MulMono == \A n, a, b \in Nat : a < b => n * a + n <= n * b
<1> SUFFICES ASSUME NEW n \in Nat, NEW a \in Nat, NEW b \in Nat, a < b
             PROVE  n * a + n <= n * b
  OBVIOUS
<1>1. PICK d \in Nat : b = a + 1 + d
  <2> WITNESS b - a - 1 \in Nat
  <2> QED OBVIOUS
<1>2. n * b = n * a + n + n * d
  BY <1>1
<1>3. n * d \in Nat
  OBVIOUS
<1> QED BY <1>2, <1>3

(* Quotient and remainder of a natural number.                             *)
LEMMA DivMod == \A p \in Nat, n \in Nat \ {0} :
                  /\ p \div n \in Nat
                  /\ p % n \in 0 .. n - 1
                  /\ p = n * (p \div n) + (p % n)
OBVIOUS

(* They are the only way to write the number.                              *)
LEMMA DivUnique == ASSUME NEW n \in Nat \ {0}, NEW g \in Nat, NEW s \in 0 .. n - 1
                   PROVE  (n * g + s) \div n = g /\ (n * g + s) % n = s
<1> DEFINE p == n * g + s
           q == p \div n
           r == p % n
<1>1. p \in Nat
  OBVIOUS
<1>2. q \in Nat /\ r \in 0 .. n - 1 /\ p = n * q + r
  BY <1>1, DivMod
<1> HIDE DEF q, r
<1>3. ~ (q < g)
  BY <1>2, MulMono
<1>4. ~ (g < q)
  BY <1>2, MulMono
<1>5. q = g
  BY <1>2, <1>3, <1>4
<1>6. r = s
  BY <1>2, <1>5
<1> QED BY <1>5, <1>6 DEF q, r

(* Two numbers of a high part and a low digit are equal only digit by      *)
(* digit.                                                                  *)
LEMMA DigitsUnique ==
    ASSUME NEW n \in Nat \ {0}, NEW g \in Nat, NEW h \in Nat,
           NEW r \in 0 .. n - 1, NEW s \in 0 .. n - 1,
           g * n + r = h * n + s
    PROVE  g = h /\ r = s
<1>1. (n * g + r) \div n = g /\ (n * g + r) % n = r
  BY DivUnique
<1>2. (n * h + s) \div n = h /\ (n * h + s) % n = s
  BY DivUnique
<1>3. n * g + r = n * h + s
  OBVIOUS
<1> QED BY <1>1, <1>2, <1>3

(* A number whose high part is below m lies below m * n.                   *)
LEMMA DigitsBounded ==
    ASSUME NEW n \in Nat \ {0}, NEW m \in Nat, NEW g \in 0 .. m - 1, NEW r \in 0 .. n - 1
    PROVE  g * n + r \in 0 .. m * n - 1
<1>1. n * g + n <= n * m
  BY MulMono
<1>2. n * g \in Nat /\ n * m \in Nat
  OBVIOUS
<1>3. n * g + r \in Nat /\ n * g + r < n * m
  BY <1>1, <1>2
<1>4. n * g = g * n /\ n * m = m * n
  OBVIOUS
<1> QED BY <1>2, <1>3, <1>4

(* Every number below m * n has a high part below m and a low digit.       *)
LEMMA DigitsExist ==
    ASSUME NEW n \in Nat \ {0}, NEW m \in Nat, NEW v \in 0 .. m * n - 1
    PROVE  /\ v \div n \in 0 .. m - 1
           /\ v % n \in 0 .. n - 1
           /\ v = (v \div n) * n + (v % n)
<1>1. m * n \in Nat
  OBVIOUS
<1>2. v \in Nat /\ v < m * n
  BY <1>1
<1>3. v \div n \in Nat /\ v % n \in 0 .. n - 1 /\ v = n * (v \div n) + (v % n)
  BY <1>2, DivMod
<1> DEFINE q == v \div n
           r == v % n
<1> HIDE DEF q, r
<1>4. q \in Nat /\ r \in 0 .. n - 1 /\ v = n * q + r
  BY <1>3 DEF q, r
<1>5. n * m = m * n /\ n * q = q * n
  BY <1>4
<1>6. ASSUME ~ (q < m) PROVE FALSE
  <2>1. n * m <= n * q
    <3>1. CASE m = q
      BY <3>1
    <3>2. CASE m < q
      BY <3>2, <1>4, MulMono
    <3> QED BY <3>1, <3>2, <1>4, <1>6
  <2> QED BY <2>1, <1>2, <1>4, <1>5
<1>7. q \in 0 .. m - 1 /\ r \in 0 .. n - 1 /\ v = q * n + r
  BY <1>4, <1>5, <1>6
<1> QED BY <1>7 DEF q, r

-----------------------------------------------------------------------------
(***************************************************************************)
(* The index of a wavefront is a bijection between the wavefronts of any   *)
(* launch and the slices of its per-wave buffer.  Coordinates are digits   *)
(* of mixed radix, and one digit at a time is split off by division.       *)
(***************************************************************************)

(* The linear number of a coordinate: typed, below the volume, unique.     *)
LEMMA VolumeType == \A d \in Dims : Volume(d) \in Nat \ {0}
<1> SUFFICES ASSUME NEW d \in Dims PROVE Volume(d) \in Nat \ {0}
  OBVIOUS
<1>1. d.x \in Nat \ {0} /\ d.y \in Nat \ {0} /\ d.z \in Nat \ {0}
  BY DEF Dims
<1>2. \A a, b \in Nat \ {0} : a * b \in Nat \ {0}
  <2> SUFFICES ASSUME NEW a \in Nat \ {0}, NEW b \in Nat \ {0}
               PROVE  a * b \in Nat \ {0}
    OBVIOUS
  <2>1. a * 0 + a <= a * b
    BY MulMono
  <2> QED BY <2>1
<1>3. d.x * d.y \in Nat \ {0}
  BY <1>1, <1>2
<1>4. (d.x * d.y) * d.z \in Nat \ {0}
  BY <1>1, <1>2, <1>3
<1> QED BY <1>4 DEF Volume

LEMMA WithinDigits ==
    ASSUME NEW d \in Dims, NEW i \in Within(d)
    PROVE  /\ d.x \in Nat \ {0} /\ d.y \in Nat \ {0} /\ d.z \in Nat \ {0}
           /\ i.x \in 0 .. d.x - 1 /\ i.y \in 0 .. d.y - 1 /\ i.z \in 0 .. d.z - 1
           /\ i = [x |-> i.x, y |-> i.y, z |-> i.z]
           /\ i.z * d.y + i.y \in 0 .. d.z * d.y - 1
<1>1. /\ d.x \in Nat \ {0} /\ d.y \in Nat \ {0} /\ d.z \in Nat \ {0}
      /\ i.x \in 0 .. d.x - 1 /\ i.y \in 0 .. d.y - 1 /\ i.z \in 0 .. d.z - 1
      /\ i = [x |-> i.x, y |-> i.y, z |-> i.z]
  BY DEF Dims, Within
<1>2. i.z * d.y + i.y \in 0 .. d.z * d.y - 1
  BY <1>1, DigitsBounded
<1> QED BY <1>1, <1>2

LEMMA LinearInRange ==
    ASSUME NEW d \in Dims, NEW i \in Within(d)
    PROVE  Linear(i, d) \in 0 .. Volume(d) - 1
<1> DEFINE row == i.z * d.y + i.y
           rows == d.z * d.y
<1>1. row \in 0 .. rows - 1 /\ i.x \in 0 .. d.x - 1 /\ d.x \in Nat \ {0} /\ rows \in Nat
  BY WithinDigits
<1> HIDE DEF row, rows
<1>2. row * d.x + i.x \in 0 .. rows * d.x - 1
  BY <1>1, DigitsBounded
<1>3. rows * d.x = Volume(d)
  <2>1. d.x \in Nat /\ d.y \in Nat /\ d.z \in Nat
    BY WithinDigits
  <2>2. \A a, b, c \in Nat : (c * b) * a = a * b * c
    OBVIOUS
  <2> QED BY <2>1, <2>2 DEF rows, Volume
<1> QED BY <1>2, <1>3 DEF row, Linear

LEMMA LinearUnique ==
    ASSUME NEW d \in Dims, NEW i \in Within(d), NEW j \in Within(d),
           Linear(i, d) = Linear(j, d)
    PROVE  i = j
<1>1. /\ d.x \in Nat \ {0} /\ d.y \in Nat \ {0}
      /\ i.x \in 0 .. d.x - 1 /\ i.y \in 0 .. d.y - 1 /\ i.z \in Nat
      /\ i.z * d.y + i.y \in Nat
      /\ i = [x |-> i.x, y |-> i.y, z |-> i.z]
  BY WithinDigits
<1>2. /\ j.x \in 0 .. d.x - 1 /\ j.y \in 0 .. d.y - 1 /\ j.z \in Nat
      /\ j.z * d.y + j.y \in Nat
      /\ j = [x |-> j.x, y |-> j.y, z |-> j.z]
  BY WithinDigits
<1>3. i.z * d.y + i.y = j.z * d.y + j.y /\ i.x = j.x
  <2>1. (i.z * d.y + i.y) * d.x + i.x = (j.z * d.y + j.y) * d.x + j.x
    BY DEF Linear
  <2> QED BY <1>1, <1>2, <2>1, DigitsUnique
<1>4. i.z = j.z /\ i.y = j.y
  BY <1>1, <1>2, <1>3, DigitsUnique
<1> QED BY <1>1, <1>2, <1>3, <1>4

(* Every number below the volume is the linear number of a coordinate.     *)
LEMMA LinearOnto ==
    ASSUME NEW d \in Dims, NEW v \in 0 .. Volume(d) - 1
    PROVE  \E i \in Within(d) : Linear(i, d) = v
<1> DEFINE rows == d.z * d.y
           row == v \div d.x
           i == [x |-> v % d.x, y |-> row % d.y, z |-> row \div d.y]
<1>1. d.x \in Nat \ {0} /\ d.y \in Nat \ {0} /\ d.z \in Nat \ {0} /\ rows \in Nat
  BY DEF Dims
<1>2. rows * d.x = Volume(d)
  <2>1. \A a, b, c \in Nat : (c * b) * a = a * b * c
    OBVIOUS
  <2> QED BY <1>1, <2>1 DEF Volume
<1>3. row \in 0 .. rows - 1 /\ v % d.x \in 0 .. d.x - 1 /\ v = row * d.x + (v % d.x)
  <2> HIDE DEF rows
  <2> QED BY <1>1, <1>2, DigitsExist
<1>4. /\ row \div d.y \in 0 .. d.z - 1 /\ row % d.y \in 0 .. d.y - 1
      /\ row = (row \div d.y) * d.y + (row % d.y)
  <2> HIDE DEF row
  <2> QED BY <1>1, <1>3, DigitsExist
<1>5. i \in Within(d)
  <2> HIDE DEF row
  <2> QED BY <1>3, <1>4 DEF Within
<1>6. Linear(i, d) = v
  <2> HIDE DEF row
  <2> QED BY <1>3, <1>4 DEF Linear
<1> QED BY <1>5, <1>6

(* What the code computes is the number the hardware gives.                *)
LEMMA LinearIsFlat ==
    ASSUME NEW d \in Dims, NEW i \in Within(d)
    PROVE  Linear(i, d) = Flat(i, d)
<1>1. d.x \in Nat /\ d.y \in Nat /\ i.x \in Nat /\ i.y \in Nat /\ i.z \in Nat
  BY WithinDigits
<1>2. \A a, b, p, q, r \in Nat : (r * b + q) * a + p = p + a * (q + b * r)
  OBVIOUS
<1> QED BY <1>1, <1>2 DEF Linear, Flat

-----------------------------------------------------------------------------
(* The wavefronts of a block are numbered without a gap.                   *)
LEMMA WavesPerBlockType ==
    ASSUME NEW block \in Dims
    PROVE  WavesPerBlock(block) \in Nat \ {0}
<1>1. Wave \in Nat \ {0} /\ Volume(block) \in Nat \ {0}
  BY WaveAssumption, VolumeType
<1>2. \A p \in Nat \ {0}, n \in Nat \ {0} : (p + (n - 1)) \div n \in Nat \ {0}
  <2> SUFFICES ASSUME NEW p \in Nat \ {0}, NEW n \in Nat \ {0}
               PROVE  (p + (n - 1)) \div n \in Nat \ {0}
    OBVIOUS
  <2> DEFINE q == (p + (n - 1)) \div n
             r == (p + (n - 1)) % n
  <2>1. q \in Nat /\ r \in 0 .. n - 1 /\ p + (n - 1) = n * q + r
    <3>1. p + (n - 1) \in Nat
      OBVIOUS
    <3> QED BY <3>1, DivMod
  <2> HIDE DEF q, r
  <2>2. q # 0
    BY <2>1
  <2> QED BY <2>1, <2>2 DEF q
<1> QED BY <1>1, <1>2 DEF WavesPerBlock

LEMMA WaveOfThread ==
    ASSUME NEW block \in Dims, NEW v \in 0 .. Volume(block) - 1
    PROVE  v \div Wave \in 0 .. WavesPerBlock(block) - 1
<1> DEFINE vol == Volume(block)
           g == v \div Wave
           w == (vol + (Wave - 1)) \div Wave
           r == v % Wave
           s == (vol + (Wave - 1)) % Wave
<1>1. Wave \in Nat \ {0} /\ vol \in Nat \ {0} /\ v \in Nat /\ v < vol
  BY WaveAssumption, VolumeType
<1> HIDE DEF vol
<1>2. g \in Nat /\ r \in 0 .. Wave - 1 /\ v = Wave * g + r
  BY <1>1, DivMod
<1>3. w \in Nat /\ s \in 0 .. Wave - 1 /\ vol + (Wave - 1) = Wave * w + s
  <2>1. vol + (Wave - 1) \in Nat
    BY <1>1
  <2> QED BY <1>1, <2>1, DivMod
<1>4. WavesPerBlock(block) = w
  BY DEF WavesPerBlock, vol
<1> HIDE DEF g, w, r, s
<1>5. ASSUME w <= g PROVE FALSE
  <2>1. Wave * w <= Wave * g
    <3>1. CASE w = g
      BY <3>1, <1>1, <1>2
    <3>2. CASE w < g
      BY <3>2, <1>1, <1>2, <1>3, MulMono
    <3> QED BY <3>1, <3>2, <1>2, <1>3, <1>5
  <2>2. Wave * w \in Nat /\ Wave * g \in Nat
    BY <1>1, <1>2, <1>3
  <2> QED BY <1>1, <1>2, <1>3, <2>1, <2>2
<1>6. g \in 0 .. w - 1
  BY <1>2, <1>3, <1>5
<1> QED BY <1>4, <1>6 DEF g

(* No wavefront is beyond the buffer the host allocates.                   *)
THEOREM WavesInRange ==
    ASSUME NEW grid \in Dims, NEW block \in Dims,
           NEW b \in Within(grid), NEW t \in Within(block)
    PROVE  WavefrontId(grid, block, b, t) \in 0 .. NWaves(grid, block) - 1
<1>1. Linear(b, grid) \in 0 .. Volume(grid) - 1 /\ Volume(grid) \in Nat
  BY LinearInRange, VolumeType
<1>2. Linear(t, block) \div Wave \in 0 .. WavesPerBlock(block) - 1
  BY LinearInRange, WaveOfThread
<1>3. WavesPerBlock(block) \in Nat \ {0}
  BY WavesPerBlockType
<1> QED BY <1>1, <1>2, <1>3, DigitsBounded DEF WavefrontId, NWaves

(* Two threads use one slice exactly when they run in one wavefront.       *)
THEOREM WavesApart ==
    ASSUME NEW grid \in Dims, NEW block \in Dims,
           NEW b \in Within(grid), NEW t \in Within(block),
           NEW c \in Within(grid), NEW u \in Within(block)
    PROVE  WavefrontId(grid, block, b, t) = WavefrontId(grid, block, c, u)
             <=> b = c /\ Flat(t, block) \div Wave = Flat(u, block) \div Wave
<1>1. /\ Linear(b, grid) \in Nat /\ Linear(c, grid) \in Nat
      /\ WavesPerBlock(block) \in Nat \ {0}
  BY LinearInRange, VolumeType, WavesPerBlockType
<1>2. /\ Linear(t, block) \div Wave \in 0 .. WavesPerBlock(block) - 1
      /\ Linear(u, block) \div Wave \in 0 .. WavesPerBlock(block) - 1
  BY LinearInRange, WaveOfThread
<1>3. Linear(t, block) = Flat(t, block) /\ Linear(u, block) = Flat(u, block)
  BY LinearIsFlat
<1>4. ASSUME WavefrontId(grid, block, b, t) = WavefrontId(grid, block, c, u)
      PROVE  b = c /\ Linear(t, block) \div Wave = Linear(u, block) \div Wave
  <2>1. /\ Linear(b, grid) = Linear(c, grid)
        /\ Linear(t, block) \div Wave = Linear(u, block) \div Wave
    BY <1>1, <1>2, <1>4, DigitsUnique DEF WavefrontId
  <2> QED BY <2>1, LinearUnique
<1>5. ASSUME b = c, Flat(t, block) \div Wave = Flat(u, block) \div Wave
      PROVE  WavefrontId(grid, block, b, t) = WavefrontId(grid, block, c, u)
  BY <1>3, <1>5 DEF WavefrontId
<1> QED BY <1>3, <1>4, <1>5

(* "a correct wid bijection writes ALL n_waves slices" (launcher_nd.cpp):  *)
(* every slice belongs to some wavefront, none is allocated in vain; t is  *)
(* the wavefront's first thread.                                           *)
THEOREM EverySliceUsed ==
    ASSUME NEW grid \in Dims, NEW block \in Dims, NEW n \in 0 .. NWaves(grid, block) - 1
    PROVE  \E b \in Within(grid), t \in Within(block) :
               WavefrontId(grid, block, b, t) = n /\ Flat(t, block) % Wave = 0
<1> DEFINE wpb == WavesPerBlock(block)
           v == Wave * (n % wpb)
<1>1. Volume(grid) \in Nat /\ wpb \in Nat \ {0} /\ Wave \in Nat \ {0} /\ Volume(block) \in Nat \ {0}
  BY VolumeType, WavesPerBlockType, WaveAssumption
<1>2. /\ n \div wpb \in 0 .. Volume(grid) - 1
      /\ n % wpb \in 0 .. wpb - 1
      /\ n = (n \div wpb) * wpb + (n % wpb)
  <2>1. n \in 0 .. Volume(grid) * wpb - 1
    BY DEF NWaves
  <2> HIDE DEF wpb
  <2> QED BY <1>1, <2>1, DigitsExist
<1>3. v \in 0 .. Volume(block) - 1
  <2> DEFINE s == (Volume(block) + (Wave - 1)) % Wave
             g == n % wpb
  <2>1. s \in 0 .. Wave - 1 /\ Volume(block) + (Wave - 1) = Wave * wpb + s
    <3>1. Volume(block) + (Wave - 1) \in Nat
      BY <1>1
    <3> QED BY <1>1, <3>1, DivMod DEF WavesPerBlock
  <2> HIDE DEF wpb, s, g
  <2>2. g \in Nat /\ g < wpb
    BY <1>1, <1>2 DEF g
  <2>3. Wave * g + Wave <= Wave * wpb /\ Wave * g \in Nat
    BY <1>1, <2>2, MulMono
  <2>4. Wave * wpb \in Nat
    BY <1>1
  <2>5. Wave * g < Volume(block)
    BY <1>1, <2>1, <2>3, <2>4
  <2> QED BY <1>1, <2>3, <2>5 DEF g
<1>4. v \div Wave = n % wpb /\ v % Wave = 0
  <2>1. 0 \in 0 .. Wave - 1 /\ n % wpb \in Nat
    BY <1>1, <1>2
  <2>2. (Wave * (n % wpb) + 0) \div Wave = n % wpb /\ (Wave * (n % wpb) + 0) % Wave = 0
    <3> HIDE DEF wpb
    <3> QED BY <1>1, <2>1, DivUnique
  <2>3. Wave * (n % wpb) + 0 = v
    BY <1>1, <2>1
  <2> QED BY <2>2, <2>3
<1>5. PICK b \in Within(grid) : Linear(b, grid) = n \div wpb
  BY <1>2, LinearOnto
<1>6. PICK t \in Within(block) : Linear(t, block) = v
  <2> HIDE DEF v
  <2> QED BY <1>3, LinearOnto
<1>7. WavefrontId(grid, block, b, t) = n
  BY <1>2, <1>4, <1>5, <1>6 DEF WavefrontId
<1>8. Flat(t, block) % Wave = 0
  BY <1>4, <1>6, LinearIsFlat
<1> QED BY <1>7, <1>8

-----------------------------------------------------------------------------
(* The launches.                                                           *)

(* One thread of the application launches kernels.                         *)
Single == \A t, u \in Threads : t = u

(* launcher.cpp is asked for no more threads than a workgroup takes.       *)
OneGroup == \A r \in Runs : r.n <= Workgroup(r)

Dispatched == Shapes \union NDRuns \union {Packet(r) : r \in Runs}
Tellable   == Shapes \union NDRuns \union {HiddenArgs(r) : r \in Runs}
Kernels    == [shape : Dispatched, told : Tellable, buf : Nat \union {Null},
               probes : {"none", "perwave", "count"}, left : Nat]

TypeInv ==
    /\ bufs \in Seq(Nat)
    /\ kernels \in Seq(Kernels)
    /\ pc \in [Threads -> {"idle", "launch"}]
    /\ asked \in [Threads -> Shapes \union {Null}]
    /\ \A k \in DOMAIN kernels :
          /\ kernels[k].buf = Null <=> kernels[k].probes = "none"
          /\ kernels[k].buf # Null => kernels[k].buf \in DOMAIN bufs

(* The buffer of the launch under way is the one it allocated, and no      *)
(* kernel's yet.                                                           *)
PendingInv == \A t \in Threads : pc[t] = "launch" =>
    /\ asked[t] \in Shapes
    /\ g_arg_buf \in DOMAIN bufs
    /\ bufs[g_arg_buf] = NWaves(asked[t].grid, asked[t].block)
    /\ \A k \in DOMAIN kernels : kernels[k].buf # g_arg_buf

OwnInv == TypeInv /\ PendingInv /\ BufferPerLaunch

-----------------------------------------------------------------------------
(* The index maps the wavefronts of a launch one to one onto its slices.   *)
Fits(s, told, n) ==
    /\ n \in Nat
    /\ \A w \in Waves(s) : SliceOf(told, w) \in 0 .. n - 1
    /\ \A v, w \in Waves(s) : SliceOf(told, v) = SliceOf(told, w) => v = w
    /\ \A i \in 0 .. n - 1 : \E w \in Waves(s) : SliceOf(told, w) = i

FitsInv == \A k \in DOMAIN kernels : kernels[k].buf # Null =>
    Fits(kernels[k].shape, kernels[k].told, bufs[kernels[k].buf])

States  == [at : {"new", "open", "done"}, ran : [Blocks -> Nat]]
Handles == Nat \X UNION {Waves(s) : s \in Dispatched}
Wavings == {<<>>} \union UNION {[Waves(s) -> States] : s \in Dispatched}
Slots   == [at : Nat, handle : Handles \union {Null}, counts : [Blocks -> Nat]]

(* What a wavefront finds in its slice: one that has opened its file the   *)
(* handle, one that counts its entries, if there were any.                 *)
Finds(k, kern, state, here, w) ==
    /\ kern.probes = "perwave" /\ state.at # "new" => \E c \in here : c.handle = <<k, w>>
    /\ kern.probes = "count" => state.at # "open"
    /\ kern.probes = "count" /\ state.at = "new" =>
          \/ here = {} /\ state.ran = Zero
          \/ \E c \in here : c.counts = state.ran

(* The k-th kernel, its wavefronts and what is written of its buffer.      *)
Kept(k, kern, states, written) ==
    /\ states \in [Waves(kern.shape) -> States]
    /\ written \subseteq Slots
    /\ \A c, d \in written : c.at = d.at => c = d
    /\ \A c \in written : \E w \in Waves(kern.shape) : c.at = SliceOf(kern.told, w)
    /\ \A w \in Waves(kern.shape) :
          Finds(k, kern, states[w], {c \in written : c.at = SliceOf(kern.told, w)}, w)

SlicesInv ==
    /\ slice \in Seq(SUBSET Slots) /\ Len(slice) = Len(bufs)
    /\ wave \in Seq(Wavings)
    /\ Len(wave) = Len(kernels)
    /\ \A t \in Threads : pc[t] = "launch" => slice[g_arg_buf] = {}
    /\ \A k \in DOMAIN kernels :
          IF kernels[k].buf = Null THEN wave[k] = <<>>
          ELSE Kept(k, kernels[k], wave[k], slice[kernels[k].buf])

KeptInv == OwnInv /\ FitsInv /\ SlicesInv

-----------------------------------------------------------------------------
(* The index fits: launches that HIP or launcher_nd.cpp make.              *)
LEMMA ShapeType ==
    ASSUME NEW s \in Shapes \union NDRuns
    PROVE  /\ s.grid \in Dims /\ s.block \in Dims /\ s.work = s.grid.x * s.block.x
           /\ NWaves(s.grid, s.block) \in Nat
<1>1. s.grid \in Dims /\ s.block \in Dims /\ s.work = s.grid.x * s.block.x
  BY BuffersAssumption
<1>2. Volume(s.grid) \in Nat /\ WavesPerBlock(s.block) \in Nat
  BY <1>1, VolumeType, WavesPerBlockType
<1> QED BY <1>1, <1>2 DEF NWaves

(* There is work for every thread of the launch.                           *)
LEMMA FullWaves ==
    ASSUME NEW s \in Shapes \union NDRuns
    PROVE  Waves(s) = {w \in [block : Within(s.grid), thread : Within(s.block)] :
                          Flat(w.thread, s.block) % Wave = 0}
<1>1. s.grid \in Dims /\ s.block \in Dims /\ s.work = s.grid.x * s.block.x
  BY ShapeType
<1>2. ASSUME NEW b \in Within(s.grid), NEW t \in Within(s.block)
      PROVE  b.x * s.block.x + t.x < s.work
  <2>1. s.grid.x \in Nat \ {0} /\ s.block.x \in Nat \ {0}
        /\ b.x \in 0 .. s.grid.x - 1 /\ t.x \in 0 .. s.block.x - 1
    BY <1>1, WithinDigits
  <2>2. b.x * s.block.x + t.x \in 0 .. s.grid.x * s.block.x - 1
    BY <2>1, DigitsBounded
  <2>3. s.grid.x * s.block.x \in Nat
    BY <2>1
  <2> QED BY <1>1, <2>2, <2>3
<1> QED BY <1>2 DEF Waves

LEMMA GridFits ==
    ASSUME NEW s \in Shapes \union NDRuns
    PROVE  Fits(s, s, NWaves(s.grid, s.block))
<1>1. s.grid \in Dims /\ s.block \in Dims /\ NWaves(s.grid, s.block) \in Nat
  BY ShapeType
<1>2. ASSUME NEW w \in Waves(s)
      PROVE  /\ w.block \in Within(s.grid) /\ w.thread \in Within(s.block)
             /\ Flat(w.thread, s.block) % Wave = 0
             /\ w = [block |-> w.block, thread |-> w.thread]
  BY FullWaves
<1>3. ASSUME NEW w \in Waves(s)
      PROVE  SliceOf(s, w) \in 0 .. NWaves(s.grid, s.block) - 1
  BY <1>1, <1>2, WavesInRange DEF SliceOf
<1>4. ASSUME NEW v \in Waves(s), NEW w \in Waves(s), SliceOf(s, v) = SliceOf(s, w)
      PROVE  v = w
  <2>1. v.block = w.block /\ Flat(v.thread, s.block) \div Wave = Flat(w.thread, s.block) \div Wave
    BY <1>1, <1>2, <1>4, WavesApart DEF SliceOf
  <2>2. Flat(v.thread, s.block) \in Nat /\ Flat(w.thread, s.block) \in Nat
        /\ Linear(v.thread, s.block) = Flat(v.thread, s.block)
        /\ Linear(w.thread, s.block) = Flat(w.thread, s.block)
    BY <1>1, <1>2, LinearInRange, LinearIsFlat, VolumeType
  <2>3. Flat(v.thread, s.block) = Flat(w.thread, s.block)
    BY <1>2, <2>1, <2>2, DivMod, WaveAssumption
  <2>4. v.thread = w.thread
    BY <1>1, <1>2, <2>2, <2>3, LinearUnique
  <2> QED BY <1>2, <2>1, <2>4
<1>5. ASSUME NEW i \in 0 .. NWaves(s.grid, s.block) - 1
      PROVE  \E w \in Waves(s) : SliceOf(s, w) = i
  <2>1. PICK b \in Within(s.grid), t \in Within(s.block) :
            WavefrontId(s.grid, s.block, b, t) = i /\ Flat(t, s.block) % Wave = 0
    BY <1>1, EverySliceUsed
  <2>2. [block |-> b, thread |-> t] \in Waves(s)
    BY <2>1, FullWaves
  <2> QED BY <2>1, <2>2 DEF SliceOf
<1> QED BY <1>1, <1>3, <1>4, <1>5 DEF Fits

-----------------------------------------------------------------------------
(* And launches of launcher.cpp, of one workgroup.                         *)
LEMMA OneBlock ==
    ASSUME OneGroup, NEW r \in Runs
    PROVE  /\ r.n \in Nat \ {0} /\ Workgroup(r) \in Nat \ {0} /\ r.n <= Workgroup(r)
           /\ Packet(r).grid = [x |-> 1, y |-> 1, z |-> 1]
<1>1. r.n \in Nat \ {0} /\ Workgroup(r) \in Nat /\ r.n <= Workgroup(r)
  BY BuffersAssumption DEF Workgroup, OneGroup
<1> DEFINE wg == Workgroup(r)
<1> HIDE DEF wg
<1>2. wg \in Nat \ {0} /\ r.n \in 1 .. wg
  BY <1>1 DEF wg
<1>3. (wg * 1 + (r.n - 1)) \div wg = 1
  BY <1>2, DivUnique
<1>4. wg * 1 + (r.n - 1) = r.n + (wg - 1)
  BY <1>2
<1> QED BY <1>1, <1>2, <1>3, <1>4 DEF Packet, wg

(* Its wavefronts are those of the threads there is work for.              *)
LEMMA RunWaves ==
    ASSUME OneGroup, NEW r \in Runs
    PROVE  Waves(Packet(r)) =
             {[block |-> [x |-> 0, y |-> 0, z |-> 0], thread |-> [x |-> i, y |-> 0, z |-> 0]] :
                i \in {j \in 0 .. r.n - 1 : j % Wave = 0}}
<1> DEFINE wg == Workgroup(r)
           At(i) == [block |-> [x |-> 0, y |-> 0, z |-> 0], thread |-> [x |-> i, y |-> 0, z |-> 0]]
<1>1. /\ r.n \in Nat \ {0} /\ wg \in Nat \ {0} /\ r.n <= wg
      /\ Packet(r).grid = [x |-> 1, y |-> 1, z |-> 1]
      /\ Packet(r).block = [x |-> wg, y |-> 1, z |-> 1]
      /\ Packet(r).work = r.n
  BY OneBlock DEF Packet
<1> HIDE DEF wg
<1>2. ASSUME NEW w \in Waves(Packet(r))
      PROVE  \E i \in {j \in 0 .. r.n - 1 : j % Wave = 0} : w = At(i)
  <2>1. /\ w.block \in Within(Packet(r).grid) /\ w.thread \in Within(Packet(r).block)
        /\ w = [block |-> w.block, thread |-> w.thread]
        /\ Flat(w.thread, Packet(r).block) % Wave = 0
        /\ w.block.x * wg + w.thread.x < r.n
    BY <1>1 DEF Waves
  <2>2. w.block = [x |-> 0, y |-> 0, z |-> 0]
    BY <1>1, <2>1 DEF Within
  <2>3. w.thread.x \in 0 .. wg - 1 /\ w.thread = [x |-> w.thread.x, y |-> 0, z |-> 0]
    BY <1>1, <2>1 DEF Within
  <2>4. Flat(w.thread, Packet(r).block) = w.thread.x
    BY <1>1, <2>3 DEF Flat
  <2>5. w.thread.x \in 0 .. r.n - 1
    BY <1>1, <2>1, <2>2, <2>3
  <2> QED BY <2>1, <2>2, <2>3, <2>4, <2>5
<1>3. ASSUME NEW i \in 0 .. r.n - 1, i % Wave = 0
      PROVE  At(i) \in Waves(Packet(r))
  <2>1. At(i).block \in Within(Packet(r).grid) /\ At(i).thread \in Within(Packet(r).block)
    BY <1>1 DEF Within
  <2>2. Flat(At(i).thread, Packet(r).block) = i
    BY <1>1 DEF Flat
  <2>3. At(i).block.x * wg + At(i).thread.x < r.n
    BY <1>1
  <2> QED BY <1>1, <1>3, <2>1, <2>2, <2>3 DEF Waves
<1> QED BY <1>2, <1>3

LEMMA RunSlice ==
    ASSUME OneGroup, NEW r \in Runs, NEW i \in Nat
    PROVE  SliceOf(HiddenArgs(r), [block  |-> [x |-> 0, y |-> 0, z |-> 0],
                                   thread |-> [x |-> i, y |-> 0, z |-> 0]]) = i \div Wave
<1> DEFINE wg == Workgroup(r)
<1>1. /\ wg \in Nat \ {0} /\ Wave \in Nat \ {0}
      /\ HiddenArgs(r).grid = [x |-> 1, y |-> 0, z |-> 0]
      /\ HiddenArgs(r).block = [x |-> wg, y |-> 0, z |-> 0]
  BY OneBlock, WaveAssumption DEF HiddenArgs
<1> HIDE DEF wg
<1>2. Linear([x |-> 0, y |-> 0, z |-> 0], HiddenArgs(r).grid) = 0
  BY <1>1 DEF Linear
<1>3. Linear([x |-> i, y |-> 0, z |-> 0], HiddenArgs(r).block) = i
  BY <1>1 DEF Linear
<1>4. WavesPerBlock(HiddenArgs(r).block) = 0
  <2>1. Volume(HiddenArgs(r).block) = 0
    BY <1>1 DEF Volume
  <2>2. (Wave * 0 + (Wave - 1)) \div Wave = 0
    BY <1>1, DivUnique
  <2>3. Wave * 0 + (Wave - 1) = 0 + (Wave - 1)
    BY <1>1
  <2> QED BY <2>1, <2>2, <2>3 DEF WavesPerBlock
<1>5. i \div Wave \in Nat
  BY <1>1, DivMod
<1> QED BY <1>2, <1>3, <1>4, <1>5 DEF SliceOf, WavefrontId

LEMMA RunFits ==
    ASSUME OneGroup, NEW r \in Runs
    PROVE  Fits(Packet(r), HiddenArgs(r), LauncherSlots(r))
<1> DEFINE At(i) == [block |-> [x |-> 0, y |-> 0, z |-> 0], thread |-> [x |-> i, y |-> 0, z |-> 0]]
           n == LauncherSlots(r)
           s == (r.n + (Wave - 1)) % Wave
<1>1. r.n \in Nat \ {0} /\ Wave \in Nat \ {0}
  BY OneBlock, WaveAssumption
<1>2. n \in Nat /\ s \in 0 .. Wave - 1 /\ r.n + (Wave - 1) = Wave * n + s
  <2>1. r.n + (Wave - 1) \in Nat
    BY <1>1
  <2> QED BY <1>1, <2>1, DivMod DEF LauncherSlots
<1>3. \A w \in Waves(Packet(r)) : \E i \in 0 .. r.n - 1 : i % Wave = 0 /\ w = At(i)
  BY RunWaves
<1>4. \A i \in 0 .. r.n - 1 : i % Wave = 0 => At(i) \in Waves(Packet(r))
  BY RunWaves
<1>5. \A i \in 0 .. r.n - 1 : SliceOf(HiddenArgs(r), At(i)) = i \div Wave
  <2> SUFFICES ASSUME NEW i \in 0 .. r.n - 1 PROVE SliceOf(HiddenArgs(r), At(i)) = i \div Wave
    OBVIOUS
  <2>1. i \in Nat
    BY <1>1
  <2> QED BY <2>1, RunSlice
<1> HIDE DEF At, n, s
<1>6. ASSUME NEW i \in 0 .. r.n - 1
      PROVE  i \div Wave \in 0 .. n - 1
  <2> DEFINE g == i \div Wave
             m == i % Wave
  <2>1. g \in Nat /\ m \in 0 .. Wave - 1 /\ i = Wave * g + m
    <3>1. i \in Nat
      BY <1>1
    <3> QED BY <1>1, <3>1, DivMod
  <2> HIDE DEF g, m
  <2>2. ASSUME n <= g PROVE FALSE
    <3>1. Wave * n <= Wave * g
      <4>1. CASE n = g
        BY <4>1, <1>1, <2>1
      <4>2. CASE n < g
        BY <4>2, <1>1, <1>2, <2>1, MulMono
      <4> QED BY <4>1, <4>2, <1>2, <2>1, <2>2
    <3>2. Wave * n \in Nat /\ Wave * g \in Nat
      BY <1>1, <1>2, <2>1
    <3> QED BY <1>1, <1>2, <2>1, <3>1, <3>2
  <2>3. g \in 0 .. n - 1
    BY <1>2, <2>1, <2>2
  <2> QED BY <2>3 DEF g
<1>7. ASSUME NEW v \in Waves(Packet(r)), NEW w \in Waves(Packet(r)),
             SliceOf(HiddenArgs(r), v) = SliceOf(HiddenArgs(r), w)
      PROVE  v = w
  <2>1. PICK i \in 0 .. r.n - 1 : i % Wave = 0 /\ v = At(i)
    BY <1>3
  <2>2. PICK j \in 0 .. r.n - 1 : j % Wave = 0 /\ w = At(j)
    BY <1>3
  <2>3. i \div Wave = j \div Wave
    BY <1>5, <1>7, <2>1, <2>2
  <2>4. i = j
    <3>1. i \in Nat /\ j \in Nat
      BY <1>1
    <3>2. i = Wave * (i \div Wave) + (i % Wave) /\ j = Wave * (j \div Wave) + (j % Wave)
      BY <1>1, <3>1, DivMod
    <3> QED BY <2>1, <2>2, <2>3, <3>2
  <2> QED BY <2>1, <2>2, <2>4
<1>8. ASSUME NEW g \in 0 .. n - 1
      PROVE  \E w \in Waves(Packet(r)) : SliceOf(HiddenArgs(r), w) = g
  <2> DEFINE i == Wave * g + 0
  <2>1. g \in Nat /\ g < n
    BY <1>2
  <2>2. i \div Wave = g /\ i % Wave = 0
    <3>1. 0 \in 0 .. Wave - 1
      BY <1>1
    <3> QED BY <1>1, <2>1, <3>1, DivUnique
  <2>3. Wave * g + Wave <= Wave * n /\ Wave * g \in Nat /\ Wave * n \in Nat
    BY <1>1, <1>2, <2>1, MulMono
  <2>4. i \in 0 .. r.n - 1
    BY <1>1, <1>2, <2>3
  <2> HIDE DEF i
  <2> QED BY <1>4, <1>5, <2>2, <2>4
<1>9. \A w \in Waves(Packet(r)) : SliceOf(HiddenArgs(r), w) \in 0 .. n - 1
  BY <1>3, <1>5, <1>6
<1> QED BY <1>2, <1>7, <1>8, <1>9 DEF Fits, n

-----------------------------------------------------------------------------
(* Buffers: OwnInv is inductive when one thread launches.                  *)
LEMMA AppendFacts ==
    ASSUME NEW S, NEW q \in Seq(S), NEW e \in S
    PROVE  /\ Append(q, e) \in Seq(S)
           /\ Len(Append(q, e)) = Len(q) + 1 /\ Len(q) \in Nat
           /\ DOMAIN q = 1 .. Len(q) /\ DOMAIN Append(q, e) = 1 .. Len(q) + 1
           /\ \A i \in 1 .. Len(q) : Append(q, e)[i] = q[i]
           /\ Append(q, e)[Len(q) + 1] = e
OBVIOUS

LEMMA WaveStepKernels ==
    ASSUME TypeInv, NEW k \in DOMAIN kernels, NEW w \in DOMAIN wave[k],
           Open(k, w) \/ BlockEntry(k, w) \/ Flush(k, w) \/ FlushCounts(k, w)
    PROVE  /\ kernels' \in Seq(Kernels) /\ DOMAIN kernels' = DOMAIN kernels
           /\ \A j \in DOMAIN kernels :
                 /\ kernels'[j].shape = kernels[j].shape /\ kernels'[j].told = kernels[j].told
                 /\ kernels'[j].buf = kernels[j].buf /\ kernels'[j].probes = kernels[j].probes
           /\ UNCHANGED <<g_arg_buf, bufs, asked, pc>>
<1>1. CASE BlockEntry(k, w)
  <2>1. kernels' = [kernels EXCEPT ![k].left = @ - 1] /\ kernels[k].left > 0
    BY <1>1 DEF BlockEntry
  <2>2. kernels[k] \in Kernels
    BY DEF TypeInv
  <2>3. [kernels[k] EXCEPT !.left = @ - 1] \in Kernels
    <3>1. kernels[k].left \in Nat /\ kernels[k].left - 1 \in Nat
      BY <2>1, <2>2 DEF Kernels
    <3> QED BY <2>2, <3>1 DEF Kernels
  <2>4. kernels' = [kernels EXCEPT ![k] = [kernels[k] EXCEPT !.left = @ - 1]]
    BY <2>1
  <2>5. kernels' \in Seq(Kernels) /\ DOMAIN kernels' = DOMAIN kernels
    BY <2>3, <2>4 DEF TypeInv
  <2>6. \A j \in DOMAIN kernels :
          /\ kernels'[j].shape = kernels[j].shape /\ kernels'[j].told = kernels[j].told
          /\ kernels'[j].buf = kernels[j].buf /\ kernels'[j].probes = kernels[j].probes
    BY <2>2, <2>4 DEF TypeInv, Kernels
  <2> QED BY <1>1, <2>5, <2>6 DEF BlockEntry
<1>2. CASE Open(k, w)
  BY <1>2 DEF Open, TypeInv
<1>3. CASE Flush(k, w)
  BY <1>3 DEF Flush, TypeInv
<1>4. CASE FlushCounts(k, w)
  BY <1>4 DEF FlushCounts, TypeInv
<1> QED BY <1>1, <1>2, <1>3, <1>4

LEMMA SlotsType ==
    ASSUME NEW r \in Runs
    PROVE  /\ Workgroup(r) \in Nat \ {0} /\ LauncherSlots(r) \in Nat
<1>1. r.n \in Nat \ {0} /\ r.group \in Nat /\ MaxGroup \in Nat \ {0} /\ Wave \in Nat \ {0}
  BY BuffersAssumption, WaveAssumption
<1>2. Workgroup(r) \in Nat \ {0}
  BY <1>1 DEF Workgroup
<1>3. r.n + (Wave - 1) \in Nat
  BY <1>1
<1> QED BY <1>1, <1>2, <1>3, DivMod DEF LauncherSlots

(* A kernel that comes with a buffer of its own, or without one.           *)
LEMMA NewKernel ==
    ASSUME OwnInv, NEW kernel \in Kernels, kernels' = Append(kernels, kernel),
           kernel.buf = Null <=> kernel.probes = "none",
           bufs' = bufs \/ \E n \in Nat : bufs' = Append(bufs, n),
           kernel.buf # Null => /\ kernel.buf \in DOMAIN bufs'
                                /\ \A k \in DOMAIN kernels : kernels[k].buf # kernel.buf,
           pc' \in [Threads -> {"idle", "launch"}],
           asked' \in [Threads -> Shapes \union {Null}]
    PROVE  TypeInv' /\ BufferPerLaunch'
<1>1. /\ kernels' \in Seq(Kernels)
      /\ Len(kernels) \in Nat
      /\ DOMAIN kernels = 1 .. Len(kernels) /\ DOMAIN kernels' = 1 .. Len(kernels) + 1
      /\ \A k \in 1 .. Len(kernels) : kernels'[k] = kernels[k]
      /\ kernels'[Len(kernels) + 1] = kernel
  BY AppendFacts DEF OwnInv, TypeInv
<1>2. bufs' \in Seq(Nat) /\ DOMAIN bufs \subseteq DOMAIN bufs'
  <2>1. CASE bufs' = bufs
    BY <2>1 DEF OwnInv, TypeInv
  <2>2. ASSUME NEW n \in Nat, bufs' = Append(bufs, n)
        PROVE  bufs' \in Seq(Nat) /\ DOMAIN bufs \subseteq DOMAIN bufs'
    <3>1. bufs \in Seq(Nat)
      BY DEF OwnInv, TypeInv
    <3> QED BY <2>2, <3>1, AppendFacts
  <2> QED BY <2>1, <2>2
<1>3. TypeInv'
  BY <1>1, <1>2 DEF OwnInv, TypeInv
<1>4. BufferPerLaunch'
  BY <1>1 DEF OwnInv, BufferPerLaunch
<1> QED BY <1>3, <1>4

LEMMA OwnInit == Init => OwnInv
BY DEF Init, OwnInv, TypeInv, PendingInv, BufferPerLaunch

LEMMA OwnStep ==
    ASSUME Single, OwnInv, [Next]_vars
    PROVE  OwnInv'
<1>1. ASSUME NEW t \in Threads, Allocate(t) PROVE OwnInv'
  <2>1. PICK s \in Shapes : /\ bufs' = Append(bufs, NWaves(s.grid, s.block))
                            /\ asked' = [asked EXCEPT ![t] = s]
    BY <1>1 DEF Allocate
  <2>2. NWaves(s.grid, s.block) \in Nat
    BY ShapeType
  <2>3. /\ bufs' \in Seq(Nat) /\ Len(bufs') = Len(bufs) + 1 /\ Len(bufs) \in Nat
        /\ DOMAIN bufs = 1 .. Len(bufs) /\ DOMAIN bufs' = 1 .. Len(bufs) + 1
        /\ bufs'[Len(bufs) + 1] = NWaves(s.grid, s.block)
    BY <2>1, <2>2, AppendFacts DEF OwnInv, TypeInv
  <2>4. g_arg_buf' = Len(bufs) + 1 /\ kernels' = kernels
    BY <1>1, <2>3 DEF Allocate
  <2>5. TypeInv'
    <3>1. pc' \in [Threads -> {"idle", "launch"}]
      BY <1>1 DEF Allocate, OwnInv, TypeInv
    <3>2. asked' \in [Threads -> Shapes \union {Null}]
      BY <2>1 DEF OwnInv, TypeInv
    <3> QED BY <2>3, <2>4, <3>1, <3>2 DEF OwnInv, TypeInv
  <2>6. PendingInv'
    <3> SUFFICES ASSUME NEW u \in Threads, pc'[u] = "launch"
                 PROVE  /\ asked'[u] \in Shapes
                        /\ g_arg_buf' \in DOMAIN bufs'
                        /\ bufs'[g_arg_buf'] = NWaves(asked'[u].grid, asked'[u].block)
                        /\ \A k \in DOMAIN kernels' : kernels'[k].buf # g_arg_buf'
      BY DEF PendingInv
    <3>1. u = t
      BY DEF Single
    <3>2. asked'[u] = s
      BY <2>1, <3>1 DEF OwnInv, TypeInv
    <3>3. \A k \in DOMAIN kernels : kernels[k].buf # Len(bufs) + 1
      BY <2>3, BuffersAssumption DEF OwnInv, TypeInv
    <3> QED BY <2>3, <2>4, <3>2, <3>3
  <2>7. BufferPerLaunch'
    BY <2>4 DEF OwnInv, BufferPerLaunch
  <2> QED BY <2>5, <2>6, <2>7 DEF OwnInv
<1>2. ASSUME NEW t \in Threads, AllocateFails(t) PROVE OwnInv'
  <2>1. PICK s \in Shapes :
          kernels' = Append(kernels, [shape |-> s, told |-> s, buf |-> Null, probes |-> "none",
                                      left |-> 0])
    BY <1>2 DEF AllocateFails
  <2> DEFINE kernel == [shape |-> s, told |-> s, buf |-> Null, probes |-> "none", left |-> 0]
  <2>2. kernel \in Kernels /\ kernel.buf = Null /\ kernel.probes = "none"
    BY DEF Kernels, Dispatched, Tellable
  <2>3. UNCHANGED <<g_arg_buf, bufs, asked, pc>>
    BY <1>2 DEF AllocateFails
  <2>4. TypeInv' /\ BufferPerLaunch'
    <3> HIDE DEF kernel
    <3>1. kernels' = Append(kernels, kernel)
      BY <2>1 DEF kernel
    <3>2. pc' \in [Threads -> {"idle", "launch"}] /\ asked' \in [Threads -> Shapes \union {Null}]
      BY <2>3 DEF OwnInv, TypeInv
    <3> QED BY <2>2, <2>3, <3>1, <3>2, NewKernel
  <2>5. PendingInv'
    <3>1. \A k \in DOMAIN kernels' : (k \in DOMAIN kernels /\ kernels'[k] = kernels[k]) \/ kernels'[k].buf = Null
      BY <2>1, <2>2, AppendFacts DEF OwnInv, TypeInv
    <3>2. \A i \in DOMAIN bufs : i # Null
      BY BuffersAssumption DEF OwnInv, TypeInv
    <3> QED BY <2>3, <3>1, <3>2 DEF OwnInv, PendingInv
  <2> QED BY <2>4, <2>5 DEF OwnInv
<1>3. ASSUME NEW t \in Threads, Launch(t) PROVE OwnInv'
  <2>1. PICK probes \in {"perwave", "count"} :
          kernels' = Append(kernels, [shape |-> asked[t], told |-> asked[t], buf |-> g_arg_buf,
                                      probes |-> probes, left |-> MaxRuns])
    BY <1>3 DEF Launch
  <2> DEFINE kernel == [shape |-> asked[t], told |-> asked[t], buf |-> g_arg_buf,
                        probes |-> probes, left |-> MaxRuns]
  <2>2. /\ pc[t] = "launch" /\ pc' = [pc EXCEPT ![t] = "idle"]
        /\ asked' = [asked EXCEPT ![t] = Null] /\ UNCHANGED <<g_arg_buf, bufs>>
    BY <1>3 DEF Launch
  <2>3. /\ asked[t] \in Shapes /\ g_arg_buf \in DOMAIN bufs
        /\ \A k \in DOMAIN kernels : kernels[k].buf # g_arg_buf
    BY <2>2 DEF OwnInv, PendingInv
  <2>4. g_arg_buf \in Nat /\ g_arg_buf # Null
    BY <2>3, BuffersAssumption DEF OwnInv, TypeInv
  <2>5. kernel \in Kernels /\ kernel.buf = g_arg_buf /\ kernel.probes # "none"
    BY <2>3, <2>4, BuffersAssumption DEF Kernels, Dispatched, Tellable
  <2>6. TypeInv' /\ BufferPerLaunch'
    <3> HIDE DEF kernel
    <3>1. kernels' = Append(kernels, kernel)
      BY <2>1 DEF kernel
    <3>2. pc' \in [Threads -> {"idle", "launch"}] /\ asked' \in [Threads -> Shapes \union {Null}]
      BY <2>2 DEF OwnInv, TypeInv
    <3> QED BY <2>2, <2>3, <2>4, <2>5, <3>1, <3>2, NewKernel
  <2>7. PendingInv'
    BY <2>2 DEF Single, OwnInv, TypeInv, PendingInv
  <2> QED BY <2>6, <2>7 DEF OwnInv
<1>4. ASSUME NEW s \in Dispatched, NEW told \in Tellable, NEW n \in Nat, Dispatch(s, told, n)
      PROVE  OwnInv'
  <2>1. bufs' = Append(bufs, n) /\ UNCHANGED <<g_arg_buf, asked, pc>>
    BY <1>4 DEF Dispatch
  <2>2. /\ Len(bufs') = Len(bufs) + 1 /\ Len(bufs) \in Nat
        /\ DOMAIN bufs = 1 .. Len(bufs) /\ DOMAIN bufs' = 1 .. Len(bufs) + 1
        /\ \A i \in 1 .. Len(bufs) : bufs'[i] = bufs[i]
    BY <2>1, AppendFacts DEF OwnInv, TypeInv
  <2>3. PICK probes \in {"perwave", "count"} :
          kernels' = Append(kernels, [shape |-> s, told |-> told, buf |-> Len(bufs) + 1,
                                      probes |-> probes, left |-> MaxRuns])
    BY <1>4, <2>2 DEF Dispatch
  <2> DEFINE kernel == [shape |-> s, told |-> told, buf |-> Len(bufs) + 1,
                        probes |-> probes, left |-> MaxRuns]
  <2>4. kernel \in Kernels /\ kernel.buf = Len(bufs) + 1 /\ kernel.probes # "none" /\ kernel.buf # Null
    BY <2>2, BuffersAssumption DEF Kernels
  <2>5. \A k \in DOMAIN kernels : kernels[k].buf # Len(bufs) + 1
    BY <2>2, BuffersAssumption DEF OwnInv, TypeInv
  <2>6. TypeInv' /\ BufferPerLaunch'
    <3> HIDE DEF kernel
    <3>1. kernels' = Append(kernels, kernel)
      BY <2>3 DEF kernel
    <3>2. pc' \in [Threads -> {"idle", "launch"}] /\ asked' \in [Threads -> Shapes \union {Null}]
      BY <2>1 DEF OwnInv, TypeInv
    <3>3. \E i \in Nat : bufs' = Append(bufs, i)
      BY <2>1
    <3>4. kernel.buf \in DOMAIN bufs'
      BY <2>2, <2>4
    <3>5. \A k \in DOMAIN kernels : kernels[k].buf # kernel.buf
      BY <2>4, <2>5
    <3> QED BY <2>4, <3>1, <3>2, <3>3, <3>4, <3>5, NewKernel
  <2>7. PendingInv'
    <3>1. \A k \in DOMAIN kernels' : (k \in DOMAIN kernels /\ kernels'[k] = kernels[k])
                                    \/ kernels'[k].buf = Len(bufs) + 1
      BY <2>3, <2>4, AppendFacts DEF OwnInv, TypeInv
    <3> QED BY <2>1, <2>2, <3>1 DEF OwnInv, PendingInv
  <2> QED BY <2>6, <2>7 DEF OwnInv
<1>5. ASSUME NEW r \in Runs, Launcher(r) PROVE OwnInv'
  <2>1. Packet(r) \in Dispatched /\ HiddenArgs(r) \in Tellable /\ LauncherSlots(r) \in Nat
    BY SlotsType DEF Dispatched, Tellable
  <2> QED BY <1>4, <1>5, <2>1 DEF Launcher
<1>6. ASSUME NEW s \in NDRuns, LauncherND(s) PROVE OwnInv'
  <2>1. s \in Dispatched /\ s \in Tellable /\ NDSlots(s) \in Nat
    BY ShapeType DEF Dispatched, Tellable, NDSlots, NWaves
  <2> QED BY <1>4, <1>6, <2>1 DEF LauncherND
<1>7. ASSUME NEW k \in DOMAIN kernels, NEW w \in DOMAIN wave[k],
             Open(k, w) \/ BlockEntry(k, w) \/ Flush(k, w) \/ FlushCounts(k, w)
      PROVE  OwnInv'
  <2>1. TypeInv
    BY DEF OwnInv
  <2>2. /\ kernels' \in Seq(Kernels) /\ DOMAIN kernels' = DOMAIN kernels
        /\ \A j \in DOMAIN kernels : /\ kernels'[j].buf = kernels[j].buf
                                     /\ kernels'[j].probes = kernels[j].probes
        /\ UNCHANGED <<g_arg_buf, bufs, asked, pc>>
    BY <1>7, <2>1, WaveStepKernels
  <2>3. TypeInv'
    BY <2>1, <2>2 DEF TypeInv
  <2>4. PendingInv' /\ BufferPerLaunch'
    BY <2>2 DEF OwnInv, PendingInv, BufferPerLaunch
  <2> QED BY <2>3, <2>4 DEF OwnInv
<1>8. CASE UNCHANGED vars
  BY <1>8 DEF vars, OwnInv, TypeInv, PendingInv, BufferPerLaunch
<1> QED BY <1>1, <1>2, <1>3, <1>5, <1>6, <1>7, <1>8 DEF Next

(* "this launch's per-wave arg buffer" (hostcall_hooks.h:309): when one    *)
(* thread of the application launches, no two kernels are given one        *)
(* buffer, those of the launchers' processes included.                     *)
THEOREM OneBufferPerLaunch ==
    ASSUME Single
    PROVE  Spec => []BufferPerLaunch
<1>1. OwnInv => BufferPerLaunch
  BY DEF OwnInv
<1>2. OwnInv /\ [Next]_vars => OwnInv'
  BY OwnStep
<1> QED BY <1>1, <1>2, OwnInit, PTL DEF Spec

-----------------------------------------------------------------------------
(* Slices: what a store, or the end of a wavefront, leaves as it was.      *)
LEMMA StoreKeeps ==
    ASSUME NEW k, NEW kern, NEW after, NEW states, NEW written, Kept(k, kern, states, written),
           after.shape = kern.shape, after.told = kern.told, after.probes = kern.probes,
           \A v, w \in Waves(kern.shape) : SliceOf(kern.told, v) = SliceOf(kern.told, w) => v = w,
           NEW w \in Waves(kern.shape), NEW state \in States,
           NEW c \in Slots, c.at = SliceOf(kern.told, w), Finds(k, kern, state, {c}, w)
    PROVE  Kept(k, after, [states EXCEPT ![w] = state], {d \in written : d.at # c.at} \union {c})
<1> DEFINE now == {d \in written : d.at # c.at} \union {c}
           then == [states EXCEPT ![w] = state]
           Here(v) == {d \in written : d.at = SliceOf(kern.told, v)}
           Now(v) == {d \in now : d.at = SliceOf(kern.told, v)}
<1>1. then \in [Waves(after.shape) -> States] /\ now \subseteq Slots
  BY DEF Kept
<1>2. \A d, e \in now : d.at = e.at => d = e
  BY DEF Kept
<1>3. \A d \in now : \E v \in Waves(after.shape) : d.at = SliceOf(after.told, v)
  BY DEF Kept
<1>4. ASSUME NEW v \in Waves(kern.shape)
      PROVE  Finds(k, kern, then[v], Now(v), v)
  <2>1. CASE v = w
    <3>1. Now(v) = {c} /\ then[v] = state
      BY <2>1 DEF Kept
    <3> QED BY <2>1, <3>1
  <2>2. CASE v # w
    <3>1. Now(v) = Here(v) /\ then[v] = states[v]
      BY <2>2 DEF Kept
    <3>2. Finds(k, kern, states[v], Here(v), v)
      BY DEF Kept
    <3> QED BY <3>1, <3>2
  <2> QED BY <2>1, <2>2
<1>5. \A v \in Waves(after.shape) : Finds(k, after, then[v], {d \in now : d.at = SliceOf(after.told, v)}, v)
  <2> SUFFICES ASSUME NEW v \in Waves(kern.shape)
               PROVE  Finds(k, after, then[v], Now(v), v)
    OBVIOUS
  <2>1. Finds(k, kern, then[v], Now(v), v)
    BY <1>4
  <2> HIDE DEF Now, now, then
  <2> QED BY <2>1 DEF Finds
<1> HIDE DEF now, then
<1>6. Kept(k, after, then, now)
  BY <1>1, <1>2, <1>3, <1>5 DEF Kept
<1> QED BY <1>6 DEF now, then

LEMMA EndKeeps ==
    ASSUME NEW k, NEW kern, NEW states, NEW written, Kept(k, kern, states, written),
           NEW w \in Waves(kern.shape), NEW state \in States,
           Finds(k, kern, state, {c \in written : c.at = SliceOf(kern.told, w)}, w)
    PROVE  Kept(k, kern, [states EXCEPT ![w] = state], written)
<1> DEFINE then == [states EXCEPT ![w] = state]
<1>1. then \in [Waves(kern.shape) -> States]
  BY DEF Kept
<1>2. ASSUME NEW v \in Waves(kern.shape)
      PROVE  Finds(k, kern, then[v], {c \in written : c.at = SliceOf(kern.told, v)}, v)
  <2>1. CASE v = w
    BY <2>1, <1>1
  <2>2. CASE v # w
    <3>1. then[v] = states[v]
      BY <2>2, <1>1 DEF Kept
    <3> QED BY <3>1 DEF Kept
  <2> QED BY <2>1, <2>2
<1> HIDE DEF then
<1>3. Kept(k, kern, then, written)
  BY <1>1, <1>2 DEF Kept
<1> QED BY <1>3 DEF then

(* What a probe reads.                                                     *)
LEMMA SliceReads ==
    ASSUME KeptInv, NEW k \in DOMAIN kernels, NEW w \in DOMAIN wave[k]
    PROVE  /\ kernels[k].buf \in DOMAIN bufs /\ kernels[k].buf # Null
           /\ Kept(k, kernels[k], wave[k], slice[kernels[k].buf])
           /\ w \in Waves(kernels[k].shape) /\ wave[k][w] \in States
           /\ Slice(k, w) \in Slots /\ Slice(k, w).at = SliceOf(kernels[k].told, w)
           /\ kernels[k].probes = "perwave" /\ wave[k][w].at # "new" =>
                 Slice(k, w).handle = <<k, w>>
           /\ kernels[k].probes = "count" => wave[k][w].at # "open"
           /\ kernels[k].probes = "count" /\ wave[k][w].at = "new" =>
                 Slice(k, w).counts = wave[k][w].ran
<1> DEFINE i == SliceOf(kernels[k].told, w)
           here == {c \in slice[kernels[k].buf] : c.at = i}
<1>1. kernels[k].buf # Null
  <2>1. CASE kernels[k].buf = Null
    BY <2>1 DEF KeptInv, SlicesInv
  <2> QED BY <2>1
<1>2. kernels[k].buf \in DOMAIN bufs
  BY <1>1 DEF KeptInv, OwnInv, TypeInv
<1>3. Kept(k, kernels[k], wave[k], slice[kernels[k].buf])
  BY <1>1 DEF KeptInv, SlicesInv
<1>4. w \in Waves(kernels[k].shape) /\ wave[k][w] \in States
  BY <1>3 DEF Kept
<1>5. Finds(k, kernels[k], wave[k][w], here, w)
  BY <1>3, <1>4 DEF Kept
<1>6. here \subseteq Slots /\ \A c, d \in here : c = d
  BY <1>3 DEF Kept
<1>7. i \in Nat
  <2>1. Fits(kernels[k].shape, kernels[k].told, bufs[kernels[k].buf])
    BY <1>1 DEF KeptInv, FitsInv
  <2>2. i \in 0 .. bufs[kernels[k].buf] - 1
    BY <1>4, <2>1 DEF Fits
  <2> QED BY <2>2
<1>8. Slice(k, w) = IF here = {} THEN [at |-> i, handle |-> Null, counts |-> Zero]
                    ELSE CHOOSE c \in here : TRUE
  BY DEF Slice
<1> HIDE DEF here, i
<1>9. CASE here = {}
  <2>1. Zero \in [Blocks -> Nat]
    BY DEF Zero
  <2>2. Slice(k, w) = [at |-> i, handle |-> Null, counts |-> Zero]
    BY <1>8, <1>9
  <2>3. Slice(k, w) \in Slots /\ Slice(k, w).at = i /\ Slice(k, w).counts = Zero
    BY <1>7, <2>1, <2>2 DEF Slots
  <2> QED BY <1>1, <1>2, <1>3, <1>4, <1>5, <1>9, <2>3 DEF Finds, i
<1>10. CASE here # {}
  <2>1. PICK c \in here : TRUE
    BY <1>10
  <2>2. Slice(k, w) = c
    BY <1>6, <1>8, <1>10, <2>1
  <2>3. c \in Slots /\ c.at = i
    BY <1>6, <2>1 DEF here
  <2>4. \A d \in here : d = c
    BY <1>6, <2>1
  <2> QED BY <1>1, <1>2, <1>3, <1>4, <1>5, <1>10, <2>2, <2>3, <2>4 DEF Finds, i
<1> QED BY <1>9, <1>10

(* A step of a wavefront that stores into its slice, or only ends.         *)
LEMMA WaveStepSlices ==
    ASSUME KeptInv, NEW k \in DOMAIN kernels, NEW states, NEW written,
           TypeInv, kernels' \in Seq(Kernels), DOMAIN kernels' = DOMAIN kernels,
           \A j \in DOMAIN kernels : j # k => kernels'[j] = kernels[j],
           kernels[k].buf # Null, kernels'[k].buf = kernels[k].buf,
           kernels'[k].shape = kernels[k].shape,
           UNCHANGED <<bufs, pc, g_arg_buf>>,
           Kept(k, kernels'[k], states, written),
           wave' = [wave EXCEPT ![k] = states],
           slice' = [slice EXCEPT ![kernels[k].buf] = written]
    PROVE  SlicesInv'
<1> DEFINE i == kernels[k].buf
<1>1. /\ i \in DOMAIN bufs /\ DOMAIN bufs = DOMAIN slice /\ DOMAIN wave = DOMAIN kernels
      /\ k \in DOMAIN wave /\ i \in DOMAIN slice
  BY DEF KeptInv, SlicesInv, TypeInv
<1>2. slice' \in Seq(SUBSET Slots) /\ Len(slice') = Len(bufs')
  <2>1. written \in SUBSET Slots
    BY DEF Kept
  <2> QED BY <1>1, <2>1 DEF KeptInv, SlicesInv
<1>3. wave' \in Seq(Wavings) /\ Len(wave') = Len(kernels')
  <2>1. states \in [Waves(kernels'[k].shape) -> States] /\ kernels'[k] \in Kernels
    BY <1>1 DEF Kept
  <2>2. kernels'[k].shape \in Dispatched
    BY <2>1 DEF Kernels
  <2>3. states \in Wavings
    BY <2>1, <2>2 DEF Wavings
  <2>4. wave \in Seq(Wavings) /\ Len(wave) = Len(kernels)
    BY DEF KeptInv, SlicesInv
  <2>5. wave' \in Seq(Wavings) /\ Len(wave') = Len(wave)
    BY <1>1, <2>3, <2>4
  <2>6. Len(kernels') = Len(kernels)
    BY DEF TypeInv
  <2> QED BY <2>4, <2>5, <2>6
<1>4. \A t \in Threads : pc'[t] = "launch" => slice'[g_arg_buf'] = {}
  BY <1>1 DEF KeptInv, SlicesInv, OwnInv, PendingInv
<1>5. ASSUME NEW j \in DOMAIN kernels
      PROVE  IF kernels'[j].buf = Null THEN wave'[j] = <<>>
             ELSE Kept(j, kernels'[j], wave'[j], slice'[kernels'[j].buf])
  <2>1. CASE j = k
    <3>1. wave'[k] = states /\ slice'[i] = written
      BY <1>1
    <3> QED BY <2>1, <3>1
  <2>2. CASE j # k
    <3>1. kernels'[j] = kernels[j] /\ wave'[j] = wave[j]
      BY <1>1, <2>2
    <3>2. IF kernels[j].buf = Null THEN wave[j] = <<>>
          ELSE Kept(j, kernels[j], wave[j], slice[kernels[j].buf])
      BY DEF KeptInv, SlicesInv
    <3>3. kernels[j].buf # Null => slice'[kernels[j].buf] = slice[kernels[j].buf]
      <4>1. kernels[j].buf # Null => kernels[j].buf # i
        BY <2>2 DEF KeptInv, OwnInv, BufferPerLaunch
      <4>2. kernels[j].buf # Null => kernels[j].buf \in DOMAIN slice
        BY <1>1 DEF TypeInv
      <4> QED BY <4>1, <4>2
    <3> QED BY <3>1, <3>2, <3>3
  <2> QED BY <2>1, <2>2
<1> QED BY <1>2, <1>3, <1>4, <1>5 DEF SlicesInv

LEMMA WaveStep ==
    ASSUME KeptInv, NEW k \in DOMAIN kernels, NEW w \in DOMAIN wave[k],
           Open(k, w) \/ BlockEntry(k, w) \/ Flush(k, w) \/ FlushCounts(k, w)
    PROVE  SlicesInv'
<1> DEFINE kern == kernels[k]
           i == kernels[k].buf
           c == Slice(k, w)
           Here == {d \in slice[i] : d.at = SliceOf(kern.told, w)}
<1>1. /\ i \in DOMAIN bufs /\ i # Null
      /\ Kept(k, kern, wave[k], slice[i])
      /\ w \in Waves(kern.shape) /\ wave[k][w] \in States
      /\ c \in Slots /\ c.at = SliceOf(kern.told, w)
      /\ kern.probes = "count" => wave[k][w].at # "open"
      /\ kern.probes = "count" /\ wave[k][w].at = "new" => c.counts = wave[k][w].ran
  BY SliceReads
<1>2. \A v, u \in Waves(kern.shape) : SliceOf(kern.told, v) = SliceOf(kern.told, u) => v = u
  BY <1>1 DEF KeptInv, FitsInv, Fits
<1>3. /\ kernels' \in Seq(Kernels) /\ DOMAIN kernels' = DOMAIN kernels
      /\ \A j \in DOMAIN kernels :
            /\ kernels'[j].shape = kernels[j].shape /\ kernels'[j].told = kernels[j].told
            /\ kernels'[j].buf = kernels[j].buf /\ kernels'[j].probes = kernels[j].probes
      /\ UNCHANGED <<g_arg_buf, bufs, asked, pc>>
  BY WaveStepKernels DEF KeptInv, OwnInv
<1>4. /\ TypeInv /\ k \in DOMAIN wave /\ i \in DOMAIN slice
      /\ slice \in Seq(SUBSET Slots) /\ wave \in Seq(Wavings)
  BY <1>1 DEF KeptInv, OwnInv, SlicesInv, TypeInv
<1> HIDE DEF c
<1>5. CASE Open(k, w)
  <2> DEFINE state == [wave[k][w] EXCEPT !.at = "open"]
             d == [c EXCEPT !.handle = <<k, w>>, !.counts = Zero]
  <2>1. /\ kern.probes = "perwave" /\ kernels' = kernels
        /\ wave' = [wave EXCEPT ![k] = [wave[k] EXCEPT ![w] = state]]
        /\ slice' = [slice EXCEPT ![i] = {e \in slice[i] : e.at # d.at} \union {d}]
    BY <1>5 DEF Open, Store, c
  <2>2. state \in States
    BY <1>1 DEF States
  <2>3. d \in Slots /\ d.at = SliceOf(kern.told, w) /\ d.handle = <<k, w>>
    <3>1. <<k, w>> \in Handles
      <4>1. k \in Nat
        BY DEF KeptInv, OwnInv, TypeInv
      <4>2. kern \in Kernels
        BY DEF KeptInv, OwnInv, TypeInv
      <4>3. kern.shape \in Dispatched
        BY <4>2 DEF Kernels
      <4> QED BY <1>1, <4>1, <4>3 DEF Handles
    <3>2. Zero \in [Blocks -> Nat]
      BY DEF Zero
    <3> QED BY <1>1, <3>1, <3>2 DEF Slots
  <2>4. Finds(k, kern, state, {d}, w)
    BY <2>1, <2>3 DEF Finds
  <2> HIDE DEF state, d
  <2>5. Kept(k, kern, [wave[k] EXCEPT ![w] = state], {e \in slice[i] : e.at # d.at} \union {d})
    BY <1>1, <1>2, <2>2, <2>3, <2>4, StoreKeeps
  <2> QED BY <1>1, <1>3, <1>4, <2>1, <2>5, WaveStepSlices
<1>6. CASE BlockEntry(k, w)
  <2>1. PICK b \in Blocks : /\ wave' = [wave EXCEPT ![k][w].ran[b] = @ + 1]
                            /\ Store(k, bb_inc_one(Slice(k, w), b))
    BY <1>6 DEF BlockEntry
  <2> DEFINE state == [wave[k][w] EXCEPT !.ran[b] = @ + 1]
             d == [c EXCEPT !.counts[b] = @ + 1]
  <2>2. /\ kern.probes = "count" /\ wave[k][w].at = "new"
        /\ kernels' = [kernels EXCEPT ![k].left = @ - 1]
        /\ wave' = [wave EXCEPT ![k] = [wave[k] EXCEPT ![w] = state]]
        /\ slice' = [slice EXCEPT ![i] = {e \in slice[i] : e.at # d.at} \union {d}]
    BY <1>6, <2>1 DEF BlockEntry, Store, bb_inc_one, c
  <2>3. state \in States /\ state.at = "new" /\ state.ran = [wave[k][w].ran EXCEPT ![b] = @ + 1]
    BY <1>1, <2>2 DEF States
  <2>4. d \in Slots /\ d.at = SliceOf(kern.told, w) /\ d.counts = [c.counts EXCEPT ![b] = @ + 1]
    BY <1>1 DEF Slots
  <2>5. Finds(k, kern, state, {d}, w)
    BY <1>1, <2>2, <2>3, <2>4 DEF Finds
  <2> HIDE DEF state, d
  <2>6. Kept(k, kernels'[k], [wave[k] EXCEPT ![w] = state], {e \in slice[i] : e.at # d.at} \union {d})
    BY <1>1, <1>2, <1>3, <2>3, <2>4, <2>5, StoreKeeps
  <2>7. \A j \in DOMAIN kernels : j # k => kernels'[j] = kernels[j]
    BY <2>2
  <2> QED BY <1>1, <1>3, <1>4, <2>2, <2>6, <2>7, WaveStepSlices
<1>7. CASE Flush(k, w) \/ FlushCounts(k, w)
  <2> DEFINE state == [wave[k][w] EXCEPT !.at = "done", !.ran = Zero]
  <2>1. /\ kernels' = kernels
        /\ wave' = [wave EXCEPT ![k] = [wave[k] EXCEPT ![w] = state]]
        /\ slice' = slice
        /\ wave[k][w].at = "open" \/ kern.probes = "count"
    BY <1>7 DEF Flush, FlushCounts
  <2>2. state \in States /\ state.at = "done"
    <3>1. Zero \in [Blocks -> Nat]
      BY DEF Zero
    <3> QED BY <1>1, <3>1 DEF States
  <2>3. Finds(k, kern, state, Here, w)
    <3>1. Finds(k, kern, wave[k][w], Here, w)
      BY <1>1 DEF Kept
    <3> QED BY <2>1, <2>2, <3>1 DEF Finds
  <2> HIDE DEF state
  <2>4. Kept(k, kern, [wave[k] EXCEPT ![w] = state], slice[i])
    BY <1>1, <2>2, <2>3, EndKeeps
  <2>5. slice' = [slice EXCEPT ![i] = slice[i]]
    BY <1>4, <2>1
  <2> QED BY <1>1, <1>3, <1>4, <2>1, <2>4, <2>5, WaveStepSlices
<1> QED BY <1>5, <1>6, <1>7

(* A kernel whose buffer nobody has written to yet.                        *)
LEMMA LaunchSlices ==
    ASSUME KeptInv, NEW kernel \in Kernels, kernels' = Append(kernels, kernel),
           kernel.probes # "none", kernel.buf # Null,
           wave' = Append(wave, [w \in Waves(kernel.shape) |-> [at |-> "new", ran |-> Zero]]),
           slice' \in Seq(SUBSET Slots), Len(slice') = Len(bufs'), slice'[kernel.buf] = {},
           \A i \in DOMAIN bufs : slice'[i] = slice[i] /\ bufs'[i] = bufs[i],
           \A t \in Threads : pc'[t] = "launch" => slice'[g_arg_buf'] = {},
           Fits(kernel.shape, kernel.told, bufs'[kernel.buf])
    PROVE  SlicesInv' /\ FitsInv'
<1> DEFINE new == [w \in Waves(kernel.shape) |-> [at |-> "new", ran |-> Zero]]
           n == Len(kernels) + 1
<1>1. new \in [Waves(kernel.shape) -> States] /\ \A w \in Waves(kernel.shape) :
          new[w].at = "new" /\ new[w].ran = Zero
  BY DEF States, Zero
<1> HIDE DEF new
<1>2. new \in Wavings
  BY <1>1 DEF Wavings, Kernels
<1>3. /\ DOMAIN kernels = 1 .. Len(kernels) /\ DOMAIN kernels' = 1 .. n /\ Len(kernels') = n
      /\ \A k \in 1 .. Len(kernels) : kernels'[k] = kernels[k]
      /\ kernels'[n] = kernel
  BY AppendFacts DEF KeptInv, OwnInv, TypeInv
<1>4. /\ wave' \in Seq(Wavings) /\ Len(wave') = n
      /\ \A k \in 1 .. Len(kernels) : wave'[k] = wave[k]
      /\ wave'[n] = new
  <2>1. wave' = Append(wave, new)
    BY DEF new
  <2>2. wave \in Seq(Wavings) /\ Len(wave) = Len(kernels)
    BY DEF KeptInv, SlicesInv
  <2> QED BY <1>2, <2>1, <2>2, AppendFacts
<1>5. \A k \in DOMAIN kernels : kernels[k].buf # Null =>
          /\ slice'[kernels[k].buf] = slice[kernels[k].buf]
          /\ bufs'[kernels[k].buf] = bufs[kernels[k].buf]
  BY DEF KeptInv, OwnInv, TypeInv
<1>6. Kept(n, kernel, new, {})
  <2>1. \A w \in Waves(kernel.shape) : Finds(n, kernel, new[w], {}, w)
    BY <1>1 DEF Finds
  <2> QED BY <1>1, <2>1 DEF Kept
<1>7. ASSUME NEW k \in 1 .. n
      PROVE  IF kernels'[k].buf = Null THEN wave'[k] = <<>>
             ELSE Kept(k, kernels'[k], wave'[k], slice'[kernels'[k].buf])
  <2>1. CASE k = n
    BY <1>3, <1>4, <1>6, <2>1
  <2>2. CASE k # n
    <3>1. k \in 1 .. Len(kernels) /\ k \in DOMAIN kernels
      BY <1>3, <2>2
    <3>2. IF kernels[k].buf = Null THEN wave[k] = <<>>
          ELSE Kept(k, kernels[k], wave[k], slice[kernels[k].buf])
      BY <3>1 DEF KeptInv, SlicesInv
    <3> QED BY <1>3, <1>4, <1>5, <3>1, <3>2
  <2> QED BY <2>1, <2>2
<1>8. SlicesInv'
  BY <1>3, <1>4, <1>7 DEF SlicesInv
<1>9. ASSUME NEW k \in 1 .. n, kernels'[k].buf # Null
      PROVE  Fits(kernels'[k].shape, kernels'[k].told, bufs'[kernels'[k].buf])
  <2>1. CASE k = n
    BY <1>3, <2>1
  <2>2. CASE k # n
    <3>1. k \in 1 .. Len(kernels) /\ k \in DOMAIN kernels
      BY <1>3, <2>2
    <3> QED BY <1>3, <1>5, <1>9, <3>1 DEF KeptInv, FitsInv
  <2> QED BY <2>1, <2>2
<1>10. FitsInv'
  BY <1>3, <1>9 DEF FitsInv
<1> QED BY <1>8, <1>10

LEMMA KeptInit == Init => KeptInv
<1> SUFFICES ASSUME Init PROVE KeptInv
  OBVIOUS
<1>1. OwnInv
  BY OwnInit
<1>2. FitsInv /\ SlicesInv
  BY DEF Init, FitsInv, SlicesInv
<1> QED BY <1>1, <1>2 DEF KeptInv

LEMMA KeptStep ==
    ASSUME Single, OneGroup, KeptInv, [Next]_vars
    PROVE  KeptInv'
<1>1. OwnInv'
  BY OwnStep DEF KeptInv
<1>2. /\ bufs \in Seq(Nat) /\ slice \in Seq(SUBSET Slots) /\ Len(slice) = Len(bufs)
      /\ kernels \in Seq(Kernels) /\ wave \in Seq(Wavings) /\ Len(wave) = Len(kernels)
      /\ DOMAIN bufs = 1 .. Len(bufs) /\ Len(bufs) \in Nat
  BY DEF KeptInv, OwnInv, TypeInv, SlicesInv
<1>3. /\ Len(Append(slice, {})) = Len(bufs) + 1 /\ Append(slice, {}) \in Seq(SUBSET Slots)
      /\ \A i \in DOMAIN bufs : Append(slice, {})[i] = slice[i]
      /\ Append(slice, {})[Len(bufs) + 1] = {}
  <2>1. {} \in SUBSET Slots
    OBVIOUS
  <2> QED BY <1>2, <2>1, AppendFacts
<1>4. \A n \in Nat : /\ Len(Append(bufs, n)) = Len(bufs) + 1
                      /\ \A i \in DOMAIN bufs : Append(bufs, n)[i] = bufs[i]
                      /\ Append(bufs, n)[Len(bufs) + 1] = n
  BY <1>2, AppendFacts
<1>5. ASSUME NEW t \in Threads, Allocate(t) PROVE FitsInv' /\ SlicesInv'
  <2>1. PICK s \in Shapes : bufs' = Append(bufs, NWaves(s.grid, s.block))
    BY <1>5 DEF Allocate
  <2>2. NWaves(s.grid, s.block) \in Nat
    BY ShapeType
  <2>3. /\ slice' = Append(slice, {}) /\ g_arg_buf' = Len(bufs') /\ UNCHANGED <<kernels, wave>>
    BY <1>5 DEF Allocate
  <2>4. /\ Len(bufs') = Len(bufs) + 1 /\ g_arg_buf' = Len(bufs) + 1
        /\ \A i \in DOMAIN bufs : bufs'[i] = bufs[i] /\ slice'[i] = slice[i]
        /\ slice'[g_arg_buf'] = {}
    BY <1>3, <1>4, <2>1, <2>2, <2>3
  <2>5. \A k \in DOMAIN kernels : kernels[k].buf # Null => kernels[k].buf \in DOMAIN bufs
    BY DEF KeptInv, OwnInv, TypeInv
  <2>6. FitsInv'
    BY <2>3, <2>4, <2>5 DEF KeptInv, FitsInv
  <2>7. SlicesInv'
    BY <1>2, <1>3, <2>3, <2>4, <2>5 DEF KeptInv, SlicesInv
  <2> QED BY <2>6, <2>7
<1>6. ASSUME NEW t \in Threads, AllocateFails(t) PROVE FitsInv' /\ SlicesInv'
  <2>1. PICK s \in Shapes :
          kernels' = Append(kernels, [shape |-> s, told |-> s, buf |-> Null, probes |-> "none",
                                      left |-> 0])
    BY <1>6 DEF AllocateFails
  <2> DEFINE kernel == [shape |-> s, told |-> s, buf |-> Null, probes |-> "none", left |-> 0]
  <2>2. kernel \in Kernels /\ kernel.buf = Null
    BY DEF Kernels, Dispatched, Tellable
  <2>3. wave' = Append(wave, <<>>) /\ <<>> \in Wavings /\ UNCHANGED <<g_arg_buf, bufs, slice, pc>>
    BY <1>6 DEF AllocateFails, Wavings
  <2> HIDE DEF kernel
  <2>4. kernels' = Append(kernels, kernel)
    BY <2>1 DEF kernel
  <2>5. /\ DOMAIN kernels = 1 .. Len(kernels) /\ DOMAIN kernels' = 1 .. Len(kernels) + 1
        /\ Len(kernels') = Len(kernels) + 1
        /\ \A k \in 1 .. Len(kernels) : kernels'[k] = kernels[k]
        /\ kernels'[Len(kernels) + 1] = kernel
    BY <1>2, <2>2, <2>4, AppendFacts
  <2>6. /\ wave' \in Seq(Wavings) /\ Len(wave') = Len(kernels) + 1
        /\ \A k \in 1 .. Len(kernels) : wave'[k] = wave[k]
        /\ wave'[Len(kernels) + 1] = <<>>
    BY <1>2, <2>3, AppendFacts
  <2>7. FitsInv'
    BY <2>2, <2>3, <2>5 DEF KeptInv, FitsInv
  <2>8. SlicesInv'
    BY <2>2, <2>3, <2>5, <2>6 DEF KeptInv, SlicesInv
  <2> QED BY <2>7, <2>8
<1>7. ASSUME NEW t \in Threads, Launch(t) PROVE FitsInv' /\ SlicesInv'
  <2>1. PICK probes \in {"perwave", "count"} :
          kernels' = Append(kernels, [shape |-> asked[t], told |-> asked[t], buf |-> g_arg_buf,
                                      probes |-> probes, left |-> MaxRuns])
    BY <1>7 DEF Launch
  <2> DEFINE kernel == [shape |-> asked[t], told |-> asked[t], buf |-> g_arg_buf,
                        probes |-> probes, left |-> MaxRuns]
  <2>2. /\ pc[t] = "launch" /\ pc' = [pc EXCEPT ![t] = "idle"] /\ UNCHANGED <<g_arg_buf, bufs, slice>>
        /\ wave' = Append(wave, [w \in Waves(asked[t]) |-> [at |-> "new", ran |-> Zero]])
    BY <1>7 DEF Launch
  <2>3. /\ asked[t] \in Shapes /\ g_arg_buf \in DOMAIN bufs /\ slice[g_arg_buf] = {}
        /\ bufs[g_arg_buf] = NWaves(asked[t].grid, asked[t].block)
    BY <2>2 DEF KeptInv, OwnInv, PendingInv, SlicesInv
  <2>4. g_arg_buf \in Nat /\ g_arg_buf # Null
    BY <1>2, <2>3, BuffersAssumption
  <2>5. /\ kernel \in Kernels /\ kernel.buf = g_arg_buf /\ kernel.probes # "none"
        /\ kernel.shape = asked[t] /\ kernel.told = asked[t]
    BY <2>3, <2>4, BuffersAssumption DEF Kernels, Dispatched, Tellable
  <2>6. \A u \in Threads : pc'[u] # "launch"
    BY <2>2 DEF Single, KeptInv, OwnInv, TypeInv
  <2>7. Fits(asked[t], asked[t], bufs[g_arg_buf])
    BY <2>3, GridFits
  <2>8. kernels' = Append(kernels, kernel)
    BY <2>1
  <2> HIDE DEF kernel
  <2> QED BY <1>2, <2>2, <2>3, <2>4, <2>5, <2>6, <2>7, <2>8, LaunchSlices
<1>8. ASSUME NEW s \in Dispatched, NEW told \in Tellable, NEW n \in Nat,
             Fits(s, told, n), Dispatch(s, told, n)
      PROVE  FitsInv' /\ SlicesInv'
  <2>1. /\ bufs' = Append(bufs, n) /\ slice' = Append(slice, {}) /\ UNCHANGED <<g_arg_buf, asked, pc>>
        /\ wave' = Append(wave, [w \in Waves(s) |-> [at |-> "new", ran |-> Zero]])
    BY <1>8 DEF Dispatch
  <2>2. /\ Len(bufs') = Len(bufs) + 1 /\ Len(slice') = Len(bufs) + 1 /\ slice' \in Seq(SUBSET Slots)
        /\ \A i \in DOMAIN bufs : bufs'[i] = bufs[i] /\ slice'[i] = slice[i]
        /\ bufs'[Len(bufs) + 1] = n /\ slice'[Len(bufs) + 1] = {}
    BY <1>3, <1>4, <2>1
  <2>3. PICK probes \in {"perwave", "count"} :
          kernels' = Append(kernels, [shape |-> s, told |-> told, buf |-> Len(bufs) + 1,
                                      probes |-> probes, left |-> MaxRuns])
    BY <1>8, <2>2 DEF Dispatch
  <2> DEFINE kernel == [shape |-> s, told |-> told, buf |-> Len(bufs) + 1,
                        probes |-> probes, left |-> MaxRuns]
  <2>4. /\ kernel \in Kernels /\ kernel.buf = Len(bufs) + 1 /\ kernel.probes # "none"
        /\ kernel.buf # Null /\ kernel.shape = s /\ kernel.told = told
    BY <1>2, BuffersAssumption DEF Kernels
  <2>5. kernels' = Append(kernels, kernel)
    BY <2>3
  <2>6. \A t \in Threads : pc'[t] = "launch" => slice'[g_arg_buf'] = {}
    BY <2>1, <2>2 DEF KeptInv, OwnInv, PendingInv, SlicesInv
  <2> HIDE DEF kernel
  <2> QED BY <1>8, <2>1, <2>2, <2>4, <2>5, <2>6, LaunchSlices
<1>9. ASSUME NEW r \in Runs, Launcher(r) PROVE FitsInv' /\ SlicesInv'
  <2>1. Packet(r) \in Dispatched /\ HiddenArgs(r) \in Tellable /\ LauncherSlots(r) \in Nat
    BY SlotsType DEF Dispatched, Tellable
  <2>2. Fits(Packet(r), HiddenArgs(r), LauncherSlots(r))
    BY RunFits
  <2> QED BY <1>8, <1>9, <2>1, <2>2 DEF Launcher
<1>10. ASSUME NEW s \in NDRuns, LauncherND(s) PROVE FitsInv' /\ SlicesInv'
  <2>1. s \in Dispatched /\ s \in Tellable /\ NDSlots(s) = NWaves(s.grid, s.block) /\ NDSlots(s) \in Nat
    BY ShapeType DEF Dispatched, Tellable, NDSlots, NWaves
  <2>2. Fits(s, s, NDSlots(s))
    BY <2>1, GridFits
  <2> QED BY <1>8, <1>10, <2>1, <2>2 DEF LauncherND
<1>11. ASSUME NEW k \in DOMAIN kernels, NEW w \in DOMAIN wave[k],
              Open(k, w) \/ BlockEntry(k, w) \/ Flush(k, w) \/ FlushCounts(k, w)
       PROVE  FitsInv' /\ SlicesInv'
  <2>1. SlicesInv'
    BY <1>11, WaveStep
  <2>2. /\ DOMAIN kernels' = DOMAIN kernels /\ bufs' = bufs
        /\ \A j \in DOMAIN kernels : /\ kernels'[j].shape = kernels[j].shape
                                     /\ kernels'[j].told = kernels[j].told
                                     /\ kernels'[j].buf = kernels[j].buf
    BY <1>11, WaveStepKernels DEF KeptInv, OwnInv
  <2>3. FitsInv'
    BY <2>2 DEF KeptInv, FitsInv
  <2> QED BY <2>1, <2>3
<1>12. ASSUME UNCHANGED vars PROVE FitsInv' /\ SlicesInv'
  <2>1. FitsInv'
    BY <1>12 DEF vars, KeptInv, FitsInv
  <2>2. SlicesInv'
    BY <1>12 DEF vars, KeptInv, SlicesInv
  <2> QED BY <2>1, <2>2
<1>13. FitsInv' /\ SlicesInv'
  BY <1>5, <1>6, <1>7, <1>9, <1>10, <1>11, <1>12 DEF Next
<1> QED BY <1>1, <1>13 DEF KeptInv

-----------------------------------------------------------------------------
LEMMA KeptAlways ==
    ASSUME Single, OneGroup
    PROVE  Spec => []KeptInv
<1>1. KeptInv /\ [Next]_vars => KeptInv'
  BY KeptStep
<1> QED BY <1>1, KeptInit, PTL DEF Spec

(* Persistent per-wave state (user_probe.cpp:90-93): what a wavefront      *)
(* reads back at its exit is in the buffer and its own, whatever else runs *)
(* on the device, as long as one thread launches and launcher.cpp keeps to *)
(* one workgroup.                                                          *)
THEOREM SlicesKept ==
    ASSUME Single, OneGroup
    PROVE  Spec => []SliceKept
<1>1. ASSUME KeptInv PROVE SliceKept
  <2> SUFFICES ASSUME NEW k \in DOMAIN kernels, NEW w \in DOMAIN wave[k]
               PROVE  /\ wave[k][w].at = "open" => Slice(k, w).handle = <<k, w>>
                      /\ kernels[k].probes = "count" /\ wave[k][w].at = "new" =>
                            Slice(k, w).counts = wave[k][w].ran
                      /\ wave[k][w].at # "done" =>
                            SliceOf(kernels[k].told, w) < bufs[kernels[k].buf]
    BY DEF SliceKept
  <2>1. /\ kernels[k].buf # Null /\ w \in Waves(kernels[k].shape)
        /\ kernels[k].probes = "perwave" /\ wave[k][w].at # "new" =>
              Slice(k, w).handle = <<k, w>>
        /\ kernels[k].probes = "count" => wave[k][w].at # "open"
        /\ kernels[k].probes = "count" /\ wave[k][w].at = "new" =>
              Slice(k, w).counts = wave[k][w].ran
    BY <1>1, SliceReads
  <2>2. kernels[k].probes \in {"perwave", "count"}
    <3>1. kernels[k] \in Kernels /\ kernels[k].probes # "none"
      BY <1>1, <2>1 DEF KeptInv, OwnInv, TypeInv
    <3> QED BY <3>1 DEF Kernels
  <2>3. SliceOf(kernels[k].told, w) < bufs[kernels[k].buf]
    <3>1. Fits(kernels[k].shape, kernels[k].told, bufs[kernels[k].buf])
      BY <1>1, <2>1 DEF KeptInv, FitsInv
    <3> QED BY <2>1, <3>1 DEF Fits
  <2> QED BY <2>1, <2>2, <2>3
<1> QED BY <1>1, KeptAlways, PTL

(* A buffer has a slice for every wavefront of its launch                  *)
(* (launcher.cpp:166-167), and all are written when every wavefront has    *)
(* been at its entry (launcher_nd.cpp:195): there are as many slices as    *)
(* wavefronts.                                                             *)
THEOREM SlotForEveryWave ==
    ASSUME Single, OneGroup
    PROVE  Spec => []OneSlotPerWave
<1>1. ASSUME KeptInv PROVE OneSlotPerWave
  <2> SUFFICES ASSUME NEW k \in DOMAIN kernels, kernels[k].buf # Null
               PROVE  /\ bufs[kernels[k].buf] >= Cardinality(DOMAIN wave[k])
                      /\ kernels[k].probes = "perwave"
                           /\ (\A w \in DOMAIN wave[k] : wave[k][w].at # "new") =>
                             Written(k) = bufs[kernels[k].buf]
    BY DEF OneSlotPerWave
  <2> DEFINE n == bufs[kernels[k].buf]
             W == Waves(kernels[k].shape)
             S == slice[kernels[k].buf]
             told == kernels[k].told
  <2>1. Fits(kernels[k].shape, told, n) /\ Kept(k, kernels[k], wave[k], S)
    BY <1>1 DEF KeptInv, FitsInv, SlicesInv
  <2>2. DOMAIN wave[k] = W
    BY <2>1 DEF Kept
  <2>3. n \in Nat /\ IsFiniteSet(0 .. n - 1) /\ Cardinality(0 .. n - 1) = n
    <3>1. n \in Nat
      BY <2>1 DEF Fits
    <3>2. 0 \in Int /\ n - 1 \in Int
      BY <3>1
    <3>3. IsFiniteSet(0 .. n - 1) /\ Cardinality(0 .. n - 1) = IF 0 > n - 1 THEN 0 ELSE (n - 1) - 0 + 1
      BY <3>2, FS_Interval
    <3> QED BY <3>1, <3>3
  <2>4. Cardinality(W) <= n
    <3> DEFINE f == [w \in W |-> SliceOf(told, w)]
    <3>1. f \in Injection(W, 0 .. n - 1)
      BY <2>1 DEF Fits, Injection, IsInjective
    <3> HIDE DEF f
    <3> QED BY <2>3, <3>1, FS_Injection
  <2>5. ASSUME kernels[k].probes = "perwave", \A w \in W : wave[k][w].at # "new"
        PROVE  Cardinality(S) = n
    <3> DEFINE f == [c \in S |-> c.at]
    <3>1. \A i \in 0 .. n - 1 : \E c \in S : c.at = i
      <4> SUFFICES ASSUME NEW i \in 0 .. n - 1 PROVE \E c \in S : c.at = i
        OBVIOUS
      <4>1. PICK w \in W : SliceOf(told, w) = i
        BY <2>1 DEF Fits
      <4>2. Finds(k, kernels[k], wave[k][w], {c \in S : c.at = SliceOf(told, w)}, w)
        BY <2>1 DEF Kept
      <4> QED BY <2>5, <4>1, <4>2 DEF Finds
    <3>2. \A c \in S : c.at \in 0 .. n - 1
      BY <2>1 DEF Kept, Fits
    <3>3. \A c, d \in S : c.at = d.at => c = d
      BY <2>1 DEF Kept
    <3> HIDE DEF S, n
    <3>4. f \in Injection(S, 0 .. n - 1) /\ f \in Surjection(S, 0 .. n - 1)
      BY <3>1, <3>2, <3>3 DEF Injection, IsInjective, Surjection
    <3> HIDE DEF f
    <3> QED BY <2>3, <3>4, FS_Injection
  <2> QED BY <2>2, <2>3, <2>4, <2>5, FS_CardinalityType DEF Written
<1> QED BY <1>1, KeptAlways, PTL
===============================================================================
