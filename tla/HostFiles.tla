------------------------------ MODULE HostFiles ------------------------------
(***************************************************************************)
(* What the hostcalls mean: the device functions of                        *)
(* runtime/device/hostcall_lib.cpp fill the fields of a slot, service_slot *)
(* (runtime/host/hostcall_service.cpp) acts on those fields.  A field that *)
(* a device function leaves alone keeps the value of the slot's previous   *)
(* occupant, and the host reads it all the same.                           *)
(*                                                                         *)
(* HostcallRing shows that between Post and Return the slot belongs to one *)
(* wave and that the host sees it complete, so posting, servicing and      *)
(* returning are single steps here.  The service loop takes the posted     *)
(* slots in scan order; here it may take any.                              *)
(***************************************************************************)
EXTENDS Naturals, Sequences

CONSTANTS Waves,
          NSLOTS,      \* HC_NSLOTS
          DataSize,    \* HC_DATA_SIZE
          MsgSize,     \* length of hc_write's message, at most DataSize
          LineSize,    \* length of pw_writeln's line
          PrefixSize,  \* length of "wave <id>: " in a record
          Paths,       \* file names
          TracePath,   \* "dyninst_trace.txt"
          CapturedPath,\* "captured.txt"
          Unopenable,  \* paths the host's fopen may refuse
          FileSize,    \* bytes in a file that is opened for reading
          Programs,    \* Programs[w]: the hostcall sequences wave w may run
          Null,        \* a null FILE*, a zeroed field
          Error        \* -1

ASSUME FilesAssumption ==
    /\ NSLOTS \in Nat \ {0}
    /\ {DataSize, LineSize, PrefixSize, FileSize} \subseteq Nat
    /\ MsgSize \in 0 .. DataSize
    /\ {TracePath, CapturedPath} \subseteq Paths
    /\ Unopenable \subseteq Paths

(* A null pointer is no path, ticket or mode, and -1 no byte count.        *)
ASSUME NullAssumption ==
    /\ Null \notin Paths \union Nat \union {"r", "w"}
    /\ Error \notin Nat

Slots == 0 .. NSLOTS - 1

(* A call is [fn, arg, mode]: arg is the file name, the byte count or the  *)
(* site id, mode that of gpu_fopen.  The other wrappers (hc_write_nl, _bid,*)
(* _bdim, _tid, _ftid) differ from hc_write_id only in the number they log.*)
Call ==
    [fn : {"gpu_fopen"}, arg : Paths, mode : {"w", "r"}] \union
    [fn : {"gpu_fwrite", "gpu_fwrite_256", "gpu_fread", "hc_write_id"}, arg : Nat,
     mode : {Null}] \union
    [fn : {"hc_open", "hc_write", "hc_close"}, arg : {Null}, mode : {Null}]

ASSUME ProgramsAssumption == \A w \in Waves : Programs[w] \subseteq Seq(Call)

Opcode(fn) ==
    IF      fn \in {"gpu_fopen", "hc_open"}       THEN "FOPEN"
    ELSE IF fn \in {"gpu_fwrite_256", "hc_write"} THEN "FWRITE"
    ELSE IF fn = "gpu_fwrite"                     THEN "FWRITE_PTR"
    ELSE IF fn = "gpu_fread"                      THEN "FREAD"
    ELSE IF fn = "hc_write_id"                    THEN "WRITE_ID"
    ELSE                                               "FCLOSE"

-----------------------------------------------------------------------------
(* The hostcalls of the probes of instrumentation/user_lib, of which the   *)
(* programs of the waves are put together.                                 *)
Do(fn, arg)   == [fn |-> fn, arg |-> arg, mode |-> Null]
Open(p, mode) == [fn |-> "gpu_fopen", arg |-> p, mode |-> mode]

UserProbe(lanes) == <<Do("hc_write_id", lanes)>>

OpenFile  == <<Open(CapturedPath, "w")>>
WriteLine == <<Do("gpu_fwrite_256", LineSize)>>

(* The prefix is written whole and the record ends in a newline, however   *)
(* few bytes the mutator asks for.                                         *)
RecordLength(nbytes) == IF nbytes > PrefixSize THEN nbytes ELSE PrefixSize + 1

RealWrite(p, nbytes)    == <<Open(p, "w"), Do("gpu_fwrite", RecordLength(nbytes))>>
ByValueWrite(p, nbytes) == <<Open(p, "w"), Do("gpu_fwrite_256", RecordLength(nbytes))>>

-----------------------------------------------------------------------------
VARIABLES
    enqueue_pos, turn, status,   \* tickets, as in HostcallRing, unwrapped
    slot,       \* slot[i]: the other fields of slot i
    ticket,     \* ticket[w]: the ticket wave w holds, or Null
    todo,       \* todo[w]: the calls wave w has still to make
    handle,     \* handle[w]: what the last gpu_fopen of w returned
    files,      \* the service loop's map, in which every path starts out as
                \* Null: files[p] is Null or the mode of the one FILE of p,
                \* whose handle is p
    primary,    \* the first file that opened
    content,    \* content[p]: what has been written to the file on disk
    unread,     \* unread[p]: bytes of p behind the FILE*'s read position
    log         \* log[w]: the calls of w that have returned: call, handle
                \* passed, retval and handle returned (history)

ring == <<enqueue_pos, turn, status, ticket>>
host == <<files, primary, content, unread>>
vars == <<ring, slot, todo, handle, host, log>>

Blank == [opcode |-> Null, handle |-> Null, size |-> 0, retval |-> 0,
          arg |-> Null, path |-> Null, mode |-> Null, data |-> Null]

Init ==
    /\ enqueue_pos = 0
    /\ turn = [i \in Slots |-> i]
    /\ status = [i \in Slots |-> 0]
    /\ slot = [i \in Slots |-> Blank]
    /\ ticket = [w \in Waves |-> Null]
    /\ todo \in {f \in [Waves -> UNION {Programs[w] : w \in Waves}] :
                    \A w \in Waves : f[w] \in Programs[w]}
    /\ handle = [w \in Waves |-> Null]
    /\ files = [p \in Paths |-> Null]
    /\ primary = Null
    /\ content = [p \in Paths |-> << >>]
    /\ unread = [p \in Paths |-> 0]
    /\ log = [w \in Waves |-> << >>]

Smaller(a, b) == IF a < b THEN a ELSE b
Cell(w)  == ticket[w] % NSLOTS
Doing(w) == Head(todo[w])

-----------------------------------------------------------------------------
(* The device side.                                                        *)

TakeTicket(w) ==
    /\ ticket[w] = Null
    /\ todo[w] # << >>
    /\ ticket' = [ticket EXCEPT ![w] = enqueue_pos]
    /\ enqueue_pos' = enqueue_pos + 1
    /\ UNCHANGED <<turn, status, slot, todo, handle, host, log>>

(* The fields each function stores before hc_call_and_wait; the others     *)
(* keep what is there.  A payload is known by its wave and its length.     *)
Copied  == {"gpu_fwrite_256", "gpu_fwrite", "hc_write"}
Passing == {"gpu_fwrite_256", "gpu_fwrite", "gpu_fread"}
Length(c) == IF      c.fn = "hc_write"   THEN MsgSize
             ELSE IF c.fn = "gpu_fwrite" THEN c.arg
             ELSE                             Smaller(c.arg, DataSize)

Marshalled(s, w, c) ==
    [opcode |-> Opcode(c.fn),
     path   |-> IF      c.fn = "gpu_fopen" THEN c.arg
                ELSE IF c.fn = "hc_open"   THEN TracePath ELSE s.path,
     mode   |-> IF      c.fn = "gpu_fopen" THEN c.mode
                ELSE IF c.fn = "hc_open"   THEN "w" ELSE s.mode,
     handle |-> IF c.fn \in Passing THEN handle[w] ELSE s.handle,
     size   |-> IF c.fn \in Copied \union Passing THEN Length(c) ELSE s.size,
     data   |-> IF c.fn \in Copied THEN [by |-> w, bytes |-> Length(c)] ELSE s.data,
     arg    |-> IF c.fn = "hc_write_id" THEN c.arg ELSE s.arg,
     retval |-> s.retval]

Post(w) ==
    /\ ticket[w] # Null
    /\ turn[Cell(w)] = ticket[w]
    /\ status[Cell(w)] = 0
    /\ slot' = [slot EXCEPT ![Cell(w)] = Marshalled(@, w, Doing(w))]
    /\ status' = [status EXCEPT ![Cell(w)] = 1]
    /\ UNCHANGED <<enqueue_pos, turn, ticket, todo, handle, host, log>>

(* gpu_fopen hands the returned handle to every lane.                      *)
Return(w) ==
    /\ ticket[w] # Null
    /\ status[Cell(w)] = 2
    /\ turn[Cell(w)] = ticket[w]
    /\ status' = [status EXCEPT ![Cell(w)] = 0]
    /\ turn' = [turn EXCEPT ![Cell(w)] = ticket[w] + NSLOTS]
    /\ ticket' = [ticket EXCEPT ![w] = Null]
    /\ handle' = IF Doing(w).fn = "gpu_fopen"
                 THEN [handle EXCEPT ![w] = slot[Cell(w)].handle] ELSE handle
    /\ log' = [log EXCEPT ![w] =
                 Append(@, [call |-> Doing(w), with |-> handle[w],
                            retval |-> slot[Cell(w)].retval,
                            handle |-> slot[Cell(w)].handle])]
    /\ todo' = [todo EXCEPT ![w] = Tail(@)]
    /\ UNCHANGED <<enqueue_pos, slot, host>>

-----------------------------------------------------------------------------
(* service_slot.                                                           *)

Opened(p) == files[p] # Null

(* A slip: the result goes to the wrong field. *)
AnswerInHandle(i, n) == slot' = [slot EXCEPT ![i].handle = n]

Answer(i, n) == slot' = [slot EXCEPT ![i].retval = n]

(* A slip: every fopen opens the file afresh. *)
ServeOpenAlways(i) ==
    LET p == slot[i].path IN
    /\ slot[i].opcode = "FOPEN"
    /\ files' = [files EXCEPT ![p] = slot[i].mode]
    /\ primary' = IF primary = Null THEN p ELSE primary
    /\ content' = IF slot[i].mode = "w" THEN [content EXCEPT ![p] = << >>] ELSE content
    /\ unread' = [unread EXCEPT ![p] = IF slot[i].mode = "r" THEN FileSize ELSE 0]
    /\ slot' = [slot EXCEPT ![i].handle = p, ![i].retval = 0]

(* files[name] makes a null entry; the file is opened only while it is     *)
(* null.  Mode "w" empties it.  primary stays null after a failed open.    *)
ServeOpen(i) ==
    LET p == slot[i].path
        mode == slot[i].mode IN
    /\ slot[i].opcode = "FOPEN"
    /\ \/ /\ Opened(p)
          /\ slot' = [slot EXCEPT ![i].handle = p, ![i].retval = 0]
          /\ UNCHANGED host
       \/ /\ ~ Opened(p)
          /\ files' = [files EXCEPT ![p] = mode]
          /\ primary' = IF primary = Null THEN p ELSE primary
          /\ content' = IF mode = "w" THEN [content EXCEPT ![p] = << >>] ELSE content
          /\ unread' = [unread EXCEPT ![p] = IF mode = "r" THEN FileSize ELSE 0]
          /\ slot' = [slot EXCEPT ![i].handle = p, ![i].retval = 0]
       \/ /\ ~ Opened(p)
          /\ p \in Unopenable
          /\ slot' = [slot EXCEPT ![i].handle = Null, ![i].retval = Error]
          /\ UNCHANGED host

(* fwrite and fprintf on a FILE that was opened for reading write nothing. *)
Appended(p, record) ==
    IF p # Null /\ files[p] # "r" THEN [content EXCEPT ![p] = Append(@, record)] ELSE content

ServeWrite(i) ==
    LET f == slot[i].handle IN
    /\ slot[i].opcode \in {"FWRITE", "FWRITE_PTR"}
    /\ content' = Appended(f, [slot[i].data EXCEPT !.bytes = slot[i].size])
    /\ Answer(i, IF      f = Null       THEN Error
                 ELSE IF files[f] = "r" THEN 0
                 ELSE                        slot[i].size)
    /\ UNCHANGED <<files, primary, unread>>

ServeRead(i) ==
    LET f == slot[i].handle
        n == IF f = Null THEN 0 ELSE Smaller(slot[i].size, unread[f]) IN
    /\ slot[i].opcode = "FREAD"
    /\ unread' = IF f = Null THEN unread ELSE [unread EXCEPT ![f] = @ - n]
    /\ slot' = [slot EXCEPT ![i].retval = IF f = Null THEN Error ELSE n,
                            ![i].data = IF n = 0 THEN @ ELSE [by |-> f, bytes |-> n]]
    /\ UNCHANGED <<files, primary, content>>

(* A slip: FCLOSE closes the file for good. *)
ServeCloseForGood(i) ==
    /\ slot[i].opcode = "FCLOSE"
    /\ Answer(i, 0)
    /\ files' = IF slot[i].handle = Null THEN files
                ELSE [files EXCEPT ![slot[i].handle] = Null]
    /\ UNCHANGED <<primary, content, unread>>

(* A flush only; the files are closed when the service loop ends.          *)
ServeClose(i) ==
    /\ slot[i].opcode = "FCLOSE"
    /\ Answer(i, 0)
    /\ UNCHANGED host

(* A slip: ids go to the file the slot's handle names. *)
ServeWriteIdToHandle(i) ==
    /\ slot[i].opcode = "WRITE_ID"
    /\ content' = Appended(slot[i].handle, [site |-> slot[i].arg])
    /\ Answer(i, 0)
    /\ UNCHANGED <<files, primary, unread>>

(* Without a primary file the id is dropped, and the answer is 0 as well.  *)
ServeWriteId(i) ==
    /\ slot[i].opcode = "WRITE_ID"
    /\ content' = Appended(primary, [site |-> slot[i].arg])
    /\ Answer(i, 0)
    /\ UNCHANGED <<files, primary, unread>>

Serve(i) ==
    /\ status[i] = 1
    /\ \/ ServeOpen(i) \/ ServeWrite(i) \/ ServeRead(i)
       \/ ServeClose(i) \/ ServeWriteId(i)
    /\ status' = [status EXCEPT ![i] = 2]
    /\ UNCHANGED <<enqueue_pos, turn, ticket, todo, handle, log>>

Finished ==
    /\ \A w \in Waves : todo[w] = << >>
    /\ UNCHANGED vars

Next ==
    \/ \E w \in Waves : TakeTicket(w) \/ Post(w) \/ Return(w)
    \/ \E i \in Slots : Serve(i)
    \/ Finished

Spec == Init /\ [][Next]_vars

-----------------------------------------------------------------------------
TypeOK ==
    /\ status \in [Slots -> 0 .. 2]
    /\ \A i \in Slots : slot[i].handle \in Paths \union {Null}
    /\ \A w \in Waves : handle[w] \in Paths \union {Null}
    /\ files \in [Paths -> {Null, "r", "w"}]
    /\ primary \in Paths \union {Null}

(* No FILE* the host may be asked to use is stale, although hc_write and   *)
(* hc_close send the handle that the slot's previous occupant left behind  *)
(* and the host follows it: every handle in a slot or in a wave's variable *)
(* names a FILE that is open ("defer real close to teardown").             *)
HandlesOpen ==
    /\ \A i \in Slots : slot[i].handle # Null => Opened(slot[i].handle)
    /\ \A w \in Waves : handle[w] # Null => Opened(handle[w])
    /\ primary # Null => Opened(primary)

Idle(w) == ticket[w] = Null

(* The elements of s at the places in picks. *)
Picked(s, picks) ==
    LET Upto[n \in 0 .. Len(s)] ==
            IF n = 0 THEN << >>
            ELSE IF n \in picks THEN Append(Upto[n - 1], s[n]) ELSE Upto[n - 1]
    IN  Upto[Len(s)]

IsWrite(e, p) ==
    e.call.fn \in {"gpu_fwrite", "gpu_fwrite_256"} /\ e.with = p /\ files[p] = "w"
Written(w, p) == Picked(log[w], {k \in DOMAIN log[w] : IsWrite(log[w][k], p)})
IsOf(r, w)    == "by" \in DOMAIN r /\ r.by = w
Found(w, p)   == Picked(content[p], {k \in DOMAIN content[p] : IsOf(content[p][k], w)})

(* What a wave has written to a handle is in that file, record by record,  *)
(* in the wave's order and at the length the calls promise (whole for      *)
(* gpu_fwrite, the first DataSize bytes for gpu_fwrite_256), whatever      *)
(* other waves open, write or close meanwhile; and nothing else is.        *)
WritesLand ==
    \A w \in Waves, p \in Paths :
        Idle(w) /\ (\A k \in DOMAIN log[w] : log[w][k].call.fn # "hc_write") =>
            LET done == Written(w, p) IN
            Found(w, p) = [k \in DOMAIN done |->
                [by |-> w,
                 bytes |-> IF done[k].call.fn = "gpu_fwrite" THEN done[k].call.arg
                           ELSE Smaller(done[k].call.arg, DataSize)]]

(* A wave that has opened the trace gets every site id it logs afterwards  *)
(* into the primary file, even if the slots it uses were last used for     *)
(* other files, provided the primary file can be written.                  *)
SiteIdsKept ==
    \A w \in Waves : Idle(w) =>
        \A j, k \in DOMAIN log[w] :
            /\ j < k
            /\ log[w][j].call.fn = "hc_open" /\ log[w][j].retval = 0
            /\ log[w][k].call.fn = "hc_write_id"
            /\ files[primary] = "w"
            => \E l \in DOMAIN content[primary] :
                   content[primary][l] = [site |-> log[w][k].call.arg]

(* "the host server keeps a single trace FILE* across the open -> write... *)
(* -> close sequence (fopen sets it, fwrite/fclose use it)"                *)
(* (hostcall_lib.cpp:179): a message written after the trace was opened is *)
(* in the trace.                                                           *)
TraceKeepsWrites ==
    \A w \in Waves : Idle(w) =>
        \A j, k \in DOMAIN log[w] :
            /\ j < k
            /\ log[w][j].call.fn = "hc_open" /\ log[w][j].retval = 0
            /\ log[w][k].call.fn = "hc_write"
            => \E l \in DOMAIN content[TracePath] :
                   content[TracePath][l] = [by |-> w, bytes |-> MsgSize]
=============================================================================
