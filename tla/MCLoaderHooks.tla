---------------------------- MODULE MCLoaderHooks ----------------------------
(* Two threads, two readers and two executables; every handle is as good   *)
(* as any other of its kind.  The application has a fat binary of each of  *)
(* two code objects, and any one file may be unreadable.                   *)
EXTENDS LoaderHooks, TLC

CONSTANTS t1, t2, r1, r2, x1, x2, m1, m2, ca, cb

FatOf(c) == << [triple |-> "host", co |-> Null], [triple |-> "amdgcn", co |-> <<c, "orig">>] >>

MCFats == {FatOf(ca), FatOf(cb)}
MCManifest == <<ca, cb>>
MCOutages == {{}, {<<Null, "lib">>}, {<<Null, "manifest">>}} \union {{<<ca, file>>} : file \in {"orig", "inst", "bundle"}}

LoaderSymmetry == Permutations(Threads) \union Permutations(Readers)
                  \union Permutations(Exes) \union Permutations(Mailboxes)
=============================================================================
