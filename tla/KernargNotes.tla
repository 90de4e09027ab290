---------------------------- MODULE KernargNotes ----------------------------
(***************************************************************************)
(* The metadata note of an instrumented code object: the editors that keep *)
(* it in step with the instrumented kernels (tools/sync_note_from_kd.py,   *)
(* tools/expand_args.py) and the readers on the host that scan it without  *)
(* parsing it (runtime/host/co_stride.h).                                  *)
(***************************************************************************)
EXTENDS Integers, Sequences, SequencesExt, FiniteSetsExt

CONSTANTS Unread,   \* what a reader returns when it finds nothing
          All       \* no --kernel: every kernel is expanded

(* It is -1, no offset and no count.                                       *)
ASSUME UnreadAssumption == Unread \notin Nat

_align(x) == ((x + 7) \div 8) * 8

-----------------------------------------------------------------------------
(* A kernel of the note has arguments, and an argument is a list of        *)
(* <<key, value>> pairs in the order they are packed in.                   *)

Get(arg, key) == arg[Min({i \in DOMAIN arg : arg[i][1] = key})][2]
Has(arg, key) == \E i \in DOMAIN arg : arg[i][1] = key

(* Assigning to a dictionary leaves a key that is there in its place.      *)
Put(arg, key, val) ==
    IF Has(arg, key)
    THEN [i \in DOMAIN arg |-> IF arg[i][1] = key THEN <<key, val>> ELSE arg[i]]
    ELSE Append(arg, <<key, val>>)

hidden == {"hidden_block_count_x", "hidden_group_size_x", "hidden_remainder_x"}

(* rewrite_note of expand_args.py, for one kernel: count clones of its     *)
(* first buffer argument go to the end of the list and of the segment.     *)
ExpandKernel(k, count) ==
    LET buffers == {i \in DOMAIN k.args : Get(k.args[i], ".value_kind") = "global_buffer"}
        at(i) == _align(k.ksize) + 8 * (i - 1)
        clone(i) == Put(Put(Put(k.args[Min(buffers)], ".offset", at(i)), ".size", 8), ".name", "__pw_extra")
    IN  IF buffers = {} \/ count = 0 THEN k
        ELSE [k EXCEPT !.args = k.args \o [i \in 1..count |-> clone(i)],
                       !.ksize = at(count) + 8]

Expanded(note, target, count) ==
    [i \in DOMAIN note |->
        IF target \in {note[i].name, All} THEN ExpandKernel(note[i], count) ELSE note[i]]

(* parse_elf_kds: the counts a descriptor's granules stand for.            *)
parse_elf_kd(kd) == [priv |-> kd.priv, vgpr |-> (kd.vg + 1) * 4, sgpr |-> (kd.sg + 1) * 8]

(* rewrite_note of sync_note_from_kd.py; kds holds the descriptors that    *)
(* the symbol table names.                                                 *)
Synced(note, kds) ==
    [i \in DOMAIN note |->
        IF note[i].name \notin DOMAIN kds THEN note[i]
        ELSE LET kd == parse_elf_kd(kds[note[i].name]) IN
             [note[i] EXCEPT !.priv = kd.priv, !.vgpr = kd.vgpr, !.sgpr = kd.sgpr]]

(* Each editor takes the section out, adds the new one elsewhere in the    *)
(* file, and makes the program header point to it.                         *)
(* A slip: the header still points to the section that was taken out. *)
LeavePtNote(file) == file
repoint_pt_note(file) == [file EXCEPT !.segment = file.note]
Replaced(file, note) == repoint_pt_note([file EXCEPT !.note = note])

-----------------------------------------------------------------------------
(* The readers see the packed keys and values one after the other.         *)
Packed(note) ==
    FlattenSeq([i \in DOMAIN note |-> FlattenSeq(note[i].args)])

(* The offset that stands nearest before the first mention of kind.        *)
co_read_kernarg_offset(note, kind) ==
    LET p == Packed(note)
        P == {i \in DOMAIN p : p[i] = <<".value_kind", kind>>}
        Q == {i \in DOMAIN p : p[i][1] = ".offset" /\ i < Min(P)}
    IN  IF P = {} THEN Unread ELSE IF Q = {} THEN Unread ELSE p[Max(Q)][2]

(* A slip: the search does not stop at the hidden arguments. *)
CountAllArgs(note) == Len(note[1].args)

(* The arguments before the first hidden one, or all there are.            *)
co_read_explicit_arg_count(note) ==
    LET p == Packed(note)
        kinds == {i \in DOMAIN p : p[i][1] = ".value_kind"}
        H == {i \in kinds : p[i][2] \in hidden}
    IN  IF kinds = {} THEN Unread
        ELSE Cardinality({i \in kinds : \A h \in H : i < h})

co_read_symbol_u32(symbols, name, dflt) ==
    IF name \in DOMAIN symbols THEN symbols[name] ELSE dflt

(* hostcall_hooks.h: the gate and the index of the buffer's argument.      *)
pw_nargs(note, symbols) ==
    IF co_read_symbol_u32(symbols, "__dyninst_pw_stride", 0) = 0 THEN Unread
    ELSE co_read_explicit_arg_count(note)
=============================================================================
