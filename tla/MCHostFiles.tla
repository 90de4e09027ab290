---------------------------- MODULE MCHostFiles ----------------------------
(* The programs the instrumenters insert: the trace with site ids, one     *)
(* file per wave, one file for all, a read, and the trace with hc_write.   *)
EXTENDS HostFiles, TLC

CONSTANTS w1, w2, w3, Own1, Own2, Input

Trace(id)  == <<Do("hc_open", Null)>> \o UserProbe(id) \o <<Do("hc_close", Null)>>
PerWave(p) == RealWrite(p, 3) \o <<Do("gpu_fwrite_256", 3)>>
AllInOne   == OpenFile \o WriteLine
Reader     == <<Open(Input, "r"), Do("gpu_fread", 3), Do("gpu_fwrite", 1)>>
Messages   == <<Do("hc_open", Null), Do("hc_write", Null), Do("hc_close", Null)>>

MixedPrograms ==
    w1 :> {Trace(1), PerWave(Own1)} @@
    w2 :> {Trace(2), AllInOne, ByValueWrite(Own2, 1)} @@
    w3 :> {AllInOne, Reader}
TracePrograms == w1 :> {Messages, Trace(1)} @@ w2 :> {PerWave(Own2)}
=============================================================================
