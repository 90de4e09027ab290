--------------------------- MODULE MCInstPipeline ---------------------------
(* Three functions, the third of which the first two may call.             *)
EXTENDS InstPipeline

CONSTANTS f1, f2, f3, kadd, kmul

MCFuncs == {f1, f2, f3}

(* The room of .dynsym ends after five symbols.                            *)
MCSections == {[name |-> ".dynsym", addr |-> 2, size |-> 1, alloc |-> TRUE, ro |-> TRUE],
               [name |-> ".rodata", addr |-> 8, size |-> 4, alloc |-> TRUE, ro |-> TRUE],
               [name |-> ".text", addr |-> 20, size |-> 8, alloc |-> TRUE, ro |-> FALSE],
               [name |-> ".symtab", addr |-> 0, size |-> 9, alloc |-> FALSE, ro |-> FALSE]}

MCDynTables == {s \in MCSections : s.name = ".dynsym"}

MCKinds == [MCFuncs -> {"static", "exported", "undefined"}]

MCHashes == {h \in [Names -> {0, 3, 5}] : h[<<f1>>] # 5}

Usage(f, own, refs) ==
    [j \in 1..2 |-> [name |-> <<f, REGUSAGE_KEYS[j]>>, own |-> own,
                     refs |-> [i \in DOMAIN refs |-> <<refs[i], REGUSAGE_KEYS[j]>>]]]

(* f1 calls any of the three and an external function, f2 one or none, and *)
(* f3 is a leaf, described twice, or absent.                               *)
MCAsms ==
    {Usage(f1, 2, r1) \o Usage(f2, 1, r2) \o leaf :
        r1 \in UNION {[1..n -> MCFuncs \union {"amdgpu"}] : n \in 0..2},
        r2 \in UNION {[1..n -> MCFuncs] : n \in 0..1},
        leaf \in {Usage(f3, 3, <<>>), Usage(f3, 1, <<>>) \o Usage(f3, 4, <<>>), <<>>}}

MCUses == ({"dynsym", "symtab", "both"} \X {None}) \union ({"symtab"} \X MCAsms)

(* A kernel alone, with a signature of launcher_nd.cpp; two with as many   *)
(* arguments; a second kernel with fewer, with more, or with one of the    *)
(* launchers' signatures after a first that has its hidden arguments       *)
(* there too or elsewhere.                                                 *)
Kernel(name, sizes, named) == [name |-> name, sizes |-> sizes, named |-> named]

MCCodeObjects ==
    {<<Kernel(kadd, s, Len(s) # 5)>> : s \in NDSizes}
    \union {<<Kernel(kadd, s[1], TRUE), Kernel(kmul, s[2], TRUE)>> :
               s \in {<< <<8, 4>>, <<4, 8>> >>, << <<8, 8, 4>>, <<8>> >>,
                       << <<8, 8, 8, 4>>, <<8, 8, 8, 4, 4>> >>, << <<8, 4>>, <<8, 8, 8, 4, 4>> >>}}
=============================================================================
