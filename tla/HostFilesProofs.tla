--------------------------- MODULE HostFilesProofs ---------------------------
(***************************************************************************)
(* Proofs about HostFiles for any number of waves, slots and files and any *)
(* programs of the waves: no handle goes stale, a wave that has opened the *)
(* trace finds its site ids in the primary file, and what a wave writes to *)
(* a handle is in that file, in order and at its length.                   *)
(***************************************************************************)
EXTENDS HostFiles, Integers, SequenceTheorems, WellFoundedInduction, TLAPS

-----------------------------------------------------------------------------
(***************************************************************************)
(* Least elements and induction over naturals, stated with a set.          *)
(***************************************************************************)

(* A set of naturals has a least element.                                  *)
LEMMA LeastNumber ==
    ASSUME NEW S \in SUBSET Nat, S # {}
    PROVE  \E n \in S : \A m \in S : n <= m
<1>1. IsWellFoundedOn(OpToRel(<, Nat), Nat)
  BY NatLessThanWellFounded
<1>2. PICK n \in S : \A m \in S : ~ (<<m, n>> \in OpToRel(<, Nat))
  BY <1>1, WFMin
<1>3. n \in Nat /\ \A m \in S : m \in Nat
  OBVIOUS
<1>4. \A m \in S : ~ (m < n)
  BY <1>2, <1>3 DEF OpToRel
<1>5. \A m \in S : n <= m
  BY <1>3, <1>4
<1> QED BY <1>5

(* Induction, for a set of naturals.                                       *)
LEMMA SetInduction ==
    ASSUME NEW S, 0 \in S, \A n \in Nat : n \in S => n + 1 \in S
    PROVE  Nat \subseteq S
<1> SUFFICES ASSUME Nat \ S # {} PROVE FALSE
  OBVIOUS
<1>1. PICK n \in Nat \ S : \A m \in Nat \ S : n <= m
  BY LeastNumber
<1>2. n - 1 \in Nat /\ n - 1 \notin Nat \ S /\ (n - 1) + 1 = n
  BY <1>1
<1> QED BY <1>1, <1>2

-----------------------------------------------------------------------------
Modes   == {"r", "w"}
Opcodes == {"FOPEN", "FWRITE", "FWRITE_PTR", "FREAD", "WRITE_ID", "FCLOSE"}
Payload == [by : Waves \union Paths, bytes : Nat]
Retval  == Nat \union {Error}
SlotOf  ==
    [opcode : Opcodes \union {Null}, handle : Paths \union {Null}, size : Nat,
     retval : Retval, arg : Nat \union {Null}, path : Paths \union {Null},
     mode : Modes \union {Null}, data : Payload \union {Null}]
Entry   == [call : Call, with : Paths \union {Null}, retval : Retval,
            handle : Paths \union {Null}]
Record  == Payload \union [site : Nat]

(* The operands an opcode needs are stored with it.                        *)
Operands(s) ==
    /\ s.opcode = "FOPEN" => s.path \in Paths /\ s.mode \in Modes
    /\ s.opcode \in {"FWRITE", "FWRITE_PTR"} => s.data \in Payload
    /\ s.opcode = "WRITE_ID" => s.arg \in Nat

WaveTypes ==
    /\ enqueue_pos \in Nat
    /\ ticket \in [Waves -> Nat \union {Null}]
    /\ todo \in [Waves -> Seq(Call)]
    /\ \A w \in Waves : ticket[w] # Null => todo[w] # << >>
    /\ handle \in [Waves -> Paths \union {Null}]
    /\ log \in [Waves -> Seq(Entry)]

SlotTypes ==
    /\ turn \in [Slots -> Nat]
    /\ status \in [Slots -> 0 .. 2]
    /\ slot \in [Slots -> SlotOf]
    /\ \A i \in Slots : status[i] # 0 => Operands(slot[i])

HostTypes ==
    /\ files \in [Paths -> Modes \union {Null}]
    /\ primary \in Paths \union {Null}
    /\ content \in [Paths -> Seq(Record)]
    /\ unread \in [Paths -> Nat]

TypeInv == WaveTypes /\ SlotTypes /\ HostTypes
HandleInv == TypeInv /\ HandlesOpen

(* A wave whose turn it is, and the host's view of its slot.               *)
Holds(w) == ticket[w] # Null /\ turn[Cell(w)] = ticket[w]

(* A ticket is one wave's.                                                 *)
TicketInv ==
    /\ \A w \in Waves : ticket[w] # Null => ticket[w] < enqueue_pos
    /\ \A v, w \in Waves : ticket[v] # Null /\ ticket[v] = ticket[w] => v = w

(* A slot in use is that of the wave whose turn it is, with its request.   *)
OwnerInv == \A i \in Slots : status[i] # 0 =>
    \E w \in Waves : /\ Holds(w) /\ Cell(w) = i
                     /\ slot[i].opcode = Opcode(Doing(w).fn)
                     /\ Doing(w).fn = "hc_write_id" => slot[i].arg = Doing(w).arg

(* An open that succeeded has left a primary file behind.                  *)
PrimaryInv ==
    /\ \A i \in Slots :
          status[i] = 2 /\ slot[i].opcode = "FOPEN" /\ slot[i].retval = 0 => primary # Null
    /\ \A p \in Paths : files[p] # Null => primary # Null
    /\ \A w \in Waves : \A j \in DOMAIN log[w] :
          log[w][j].call.fn = "hc_open" /\ log[w][j].retval = 0 => primary # Null

HasOpened(w) == \E j \in DOMAIN log[w] : log[w][j].call.fn = "hc_open" /\ log[w][j].retval = 0
Stored(id) == \E l \in DOMAIN content[primary] : content[primary][l] = [site |-> id]

(* Site ids the host has serviced, returned or not, are in the file.       *)
StoredInv == \A w \in Waves :
    /\ Holds(w) /\ status[Cell(w)] = 2 /\ Doing(w).fn = "hc_write_id" /\ HasOpened(w)
          /\ files[primary] = "w" => Stored(Doing(w).arg)
    /\ \A j, k \in DOMAIN log[w] :
          /\ j < k
          /\ log[w][j].call.fn = "hc_open" /\ log[w][j].retval = 0
          /\ log[w][k].call.fn = "hc_write_id"
          /\ files[primary] = "w"
          => Stored(log[w][k].call.arg)

SiteInv == HandleInv /\ TicketInv /\ OwnerInv /\ PrimaryInv /\ StoredInv

(* Until the host has served it, a request is what its wave has stored.    *)
RequestInv == \A w \in Waves : Holds(w) /\ status[Cell(w)] = 1 =>
    /\ Doing(w).fn \in Copied =>
          slot[Cell(w)].data.by = w /\ slot[Cell(w)].size = Length(Doing(w))
    /\ Doing(w).fn \in Passing => slot[Cell(w)].handle = handle[w]

(* Waves have written to open files only, and only a file that is open for *)
(* writing has anything in it.                                             *)
KnownInv ==
    /\ \A w \in Waves : \A k \in DOMAIN log[w] :
          log[w][k].with # Null => files[log[w][k].with] # Null
    /\ \A p \in Paths : files[p] # "w" => content[p] = << >>

Serviced(w) == Holds(w) /\ status[Cell(w)] = 2

(* A wave whose writes all say which file they mean.                       *)
Plain(w) ==
    /\ \A k \in DOMAIN log[w] : log[w][k].call.fn # "hc_write"
    /\ Serviced(w) => Doing(w).fn # "hc_write"

(* The host has served a write of w to p that has not yet returned.        *)
Landing(w, p) ==
    /\ Serviced(w) /\ Doing(w).fn \in {"gpu_fwrite", "gpu_fwrite_256"}
    /\ handle[w] = p /\ files[p] = "w"

Landed(w, c) ==
    [by |-> w, bytes |-> IF c.fn = "gpu_fwrite" THEN c.arg ELSE Smaller(c.arg, DataSize)]
Records(w, done) == [k \in DOMAIN done |-> Landed(w, done[k].call)]

(* The records in the file are those of the calls that have returned and   *)
(* of the one that has landed.                                             *)
LandedInv == \A w \in Waves, p \in Paths : Plain(w) =>
    Found(w, p) = IF Landing(w, p)
                  THEN Append(Records(w, Written(w, p)), Landed(w, Doing(w)))
                  ELSE Records(w, Written(w, p))

LandInv == HandleInv /\ TicketInv /\ OwnerInv /\ RequestInv /\ KnownInv /\ LandedInv

-----------------------------------------------------------------------------
(* Types.                                                                  *)

LEMMA CallParts ==
    ASSUME NEW c \in Call
    PROVE  /\ c.fn \in {"gpu_fopen", "gpu_fwrite", "gpu_fwrite_256", "gpu_fread", "hc_write_id",
                        "hc_open", "hc_write", "hc_close"}
           /\ c.fn = "gpu_fopen" => c.arg \in Paths /\ c.mode \in Modes
           /\ c.fn \in {"gpu_fwrite", "gpu_fwrite_256", "gpu_fread", "hc_write_id"} =>
                 c.arg \in Nat
BY DEF Call, Modes

LEMMA OpcodeType ==
    ASSUME NEW c \in Call
    PROVE  /\ Opcode(c.fn) \in Opcodes
           /\ Opcode(c.fn) = "FOPEN" <=> c.fn \in {"gpu_fopen", "hc_open"}
           /\ Opcode(c.fn) \in {"FWRITE", "FWRITE_PTR"} <=> c.fn \in Copied
           /\ Opcode(c.fn) = "WRITE_ID" <=> c.fn = "hc_write_id"
BY CallParts DEF Opcode, Opcodes, Copied

LEMMA LengthType ==
    ASSUME NEW c \in Call, c.fn \in Copied \union Passing
    PROVE  Length(c) \in Nat
BY CallParts, FilesAssumption DEF Length, Smaller, Copied, Passing

LEMMA MarshalledType ==
    ASSUME NEW s \in SlotOf, NEW w \in Waves, NEW c \in Call,
           handle[w] \in Paths \union {Null}
    PROVE  LET m == Marshalled(s, w, c) IN
           /\ m \in SlotOf /\ Operands(m)
           /\ m.opcode = Opcode(c.fn)
           /\ m.handle \in {s.handle, handle[w]}
           /\ c.fn = "hc_write_id" => m.arg = c.arg
<1> DEFINE m == Marshalled(s, w, c)
<1>1. TracePath \in Paths /\ Opcode(c.fn) \in Opcodes
  BY FilesAssumption, OpcodeType
<1>2. /\ m.opcode = Opcode(c.fn)
      /\ m.path = IF c.fn = "gpu_fopen" THEN c.arg
                  ELSE IF c.fn = "hc_open" THEN TracePath ELSE s.path
      /\ m.mode = IF c.fn = "gpu_fopen" THEN c.mode
                  ELSE IF c.fn = "hc_open" THEN "w" ELSE s.mode
      /\ m.handle = IF c.fn \in Passing THEN handle[w] ELSE s.handle
      /\ m.size = IF c.fn \in Copied \union Passing THEN Length(c) ELSE s.size
      /\ m.data = IF c.fn \in Copied THEN [by |-> w, bytes |-> Length(c)] ELSE s.data
      /\ m.arg = IF c.fn = "hc_write_id" THEN c.arg ELSE s.arg
      /\ m.retval = s.retval
  BY DEF Marshalled
<1> HIDE DEF m
<1>3. m.path \in Paths \union {Null} /\ m.mode \in Modes \union {Null} /\ m.arg \in Nat \union {Null}
  BY <1>1, <1>2, CallParts DEF Modes, SlotOf
<1>4. m.size \in Nat
  BY <1>2, LengthType DEF SlotOf
<1>5. m.data \in Payload \union {Null} /\ (c.fn \in Copied => m.data \in Payload)
  BY <1>2, LengthType DEF SlotOf, Payload
<1>6. m \in SlotOf
  <2>1. m.opcode \in Opcodes /\ m.handle \in Paths \union {Null} /\ m.retval \in Retval
    BY <1>1, <1>2 DEF SlotOf
  <2> QED BY <2>1, <1>3, <1>4, <1>5 DEF Marshalled, SlotOf, m
<1>7. Operands(m)
  BY <1>1, <1>2, <1>5, OpcodeType, CallParts DEF Operands, Modes
<1> QED BY <1>2, <1>6, <1>7 DEF m

LEMMA CellType ==
    ASSUME WaveTypes, NEW w \in Waves, ticket[w] # Null
    PROVE  Cell(w) \in Slots
BY FilesAssumption DEF WaveTypes, Cell, Slots

LEMMA TypeInit == Init => TypeInv
<1> SUFFICES ASSUME Init PROVE TypeInv
  OBVIOUS
<1>1. Blank \in SlotOf
  BY DEF Blank, SlotOf, Retval
<1>2. todo \in [Waves -> Seq(Call)]
  BY ProgramsAssumption DEF Init
<1>3. WaveTypes
  BY <1>2 DEF Init, WaveTypes
<1>4. SlotTypes
  BY <1>1 DEF Init, SlotTypes, Slots
<1>5. HostTypes
  BY DEF Init, HostTypes
<1> QED BY <1>3, <1>4, <1>5 DEF TypeInv

LEMMA TakeTicketTypes ==
    ASSUME TypeInv, NEW w \in Waves, TakeTicket(w)
    PROVE  TypeInv'
<1>1. WaveTypes'
  BY DEF TypeInv, WaveTypes, TakeTicket
<1>2. SlotTypes' /\ HostTypes'
  BY DEF TypeInv, SlotTypes, HostTypes, TakeTicket, host
<1> QED BY <1>1, <1>2 DEF TypeInv

LEMMA DoingType ==
    ASSUME WaveTypes, NEW w \in Waves, ticket[w] # Null
    PROVE  Doing(w) \in Call /\ Tail(todo[w]) \in Seq(Call)
BY HeadTailProperties DEF WaveTypes, Doing

LEMMA PostTypes ==
    ASSUME TypeInv, NEW w \in Waves, Post(w)
    PROVE  TypeInv'
<1>1. WaveTypes' /\ HostTypes'
  BY DEF TypeInv, WaveTypes, HostTypes, Post, host
<1>2. Cell(w) \in Slots /\ Doing(w) \in Call /\ handle[w] \in Paths \union {Null}
  BY CellType, DoingType DEF TypeInv, WaveTypes, Post
<1> DEFINE m == Marshalled(slot[Cell(w)], w, Doing(w))
<1>3. m \in SlotOf /\ Operands(m)
  <2>1. slot[Cell(w)] \in SlotOf
    BY <1>2 DEF TypeInv, SlotTypes
  <2> QED BY <1>2, <2>1, MarshalledType
<1>4. slot' = [slot EXCEPT ![Cell(w)] = m]
  BY DEF Post
<1> HIDE DEF m
<1>5. SlotTypes'
  BY <1>2, <1>3, <1>4 DEF TypeInv, SlotTypes, Post
<1> QED BY <1>1, <1>5 DEF TypeInv

LEMMA ReturnTypes ==
    ASSUME TypeInv, NEW w \in Waves, Return(w)
    PROVE  TypeInv'
<1> USE DEF TypeInv
<1>1. Cell(w) \in Slots /\ Doing(w) \in Call /\ Tail(todo[w]) \in Seq(Call)
  BY CellType, DoingType DEF Return
<1>2. slot[Cell(w)].retval \in Retval /\ slot[Cell(w)].handle \in Paths \union {Null}
  BY <1>1 DEF SlotTypes, SlotOf
<1> DEFINE e == [call |-> Doing(w), with |-> handle[w], retval |-> slot[Cell(w)].retval,
                 handle |-> slot[Cell(w)].handle]
<1>3. e \in Entry
  BY <1>1, <1>2 DEF Entry, WaveTypes
<1>4. log' = [log EXCEPT ![w] = Append(log[w], e)]
  BY DEF Return
<1> HIDE DEF e
<1>5. log' \in [Waves -> Seq(Entry)]
  <2>1. Append(log[w], e) \in Seq(Entry)
    BY <1>3, AppendProperties DEF WaveTypes
  <2> QED BY <1>4, <2>1 DEF WaveTypes
<1>6. WaveTypes'
  <2>1. todo' \in [Waves -> Seq(Call)] /\ handle' \in [Waves -> Paths \union {Null}]
    BY <1>1, <1>2 DEF WaveTypes, Return
  <2>2. /\ enqueue_pos' \in Nat /\ ticket' \in [Waves -> Nat \union {Null}]
        /\ \A v \in Waves : ticket'[v] # Null => todo'[v] # << >>
    BY DEF WaveTypes, Return
  <2> QED BY <1>5, <2>1, <2>2 DEF WaveTypes
<1>7. SlotTypes'
  BY <1>1, FilesAssumption DEF SlotTypes, WaveTypes, Return
<1>8. HostTypes'
  BY DEF HostTypes, Return, host
<1> QED BY <1>6, <1>7, <1>8

(* Both writers append a whole record to a file, or nothing.               *)
LEMMA AppendedType ==
    ASSUME HostTypes, NEW p \in Paths \union {Null}, NEW r \in Record
    PROVE  /\ Appended(p, r) \in [Paths -> Seq(Record)]
           /\ \A q \in Paths : q # p => Appended(p, r)[q] = content[q]
           /\ p # Null /\ files[p] = "w" => Appended(p, r)[p] = Append(content[p], r)
           /\ p # Null => Appended(p, r)[p] \in {content[p], Append(content[p], r)}
<1>1. CASE p = Null
  BY <1>1, NullAssumption DEF Appended, HostTypes
<1>2. CASE p # Null
  <2>1. p \in Paths /\ content[p] \in Seq(Record)
    BY <1>2 DEF HostTypes
  <2>2. Append(content[p], r) \in Seq(Record)
    BY <2>1, AppendProperties
  <2> QED BY <1>2, <2>1, <2>2 DEF Appended, HostTypes
<1> QED BY <1>1, <1>2

(* What the host does to a slot it serves.                                 *)
LEMMA ServeFrame ==
    ASSUME TypeInv, NEW i \in Slots, Serve(i)
    PROVE  /\ status[i] = 1 /\ status' = [status EXCEPT ![i] = 2]
           /\ slot' \in [Slots -> SlotOf]
           /\ \A j \in Slots \ {i} : slot'[j] = slot[j]
           /\ slot'[i].opcode = slot[i].opcode /\ slot'[i].arg = slot[i].arg
           /\ Operands(slot'[i])
           /\ UNCHANGED <<enqueue_pos, turn, ticket, todo, handle, log>>
<1> USE DEF TypeInv
<1>1. slot \in [Slots -> SlotOf] /\ slot[i] \in SlotOf /\ Operands(slot[i]) /\ status[i] = 1
  BY DEF SlotTypes, Serve
<1> DEFINE New(s) == /\ s \in SlotOf /\ Operands(s)
                     /\ s.opcode = slot[i].opcode /\ s.arg = slot[i].arg
<1>2. SUFFICES \E s : New(s) /\ slot' = [slot EXCEPT ![i] = s]
  <2>1. PICK s : New(s) /\ slot' = [slot EXCEPT ![i] = s]
    BY <1>2
  <2> QED BY <1>1, <2>1 DEF Serve
<1>3. ASSUME NEW n \in Retval PROVE New([slot[i] EXCEPT !.retval = n])
  BY <1>1, <1>3 DEF SlotOf, Operands
<1>4. ASSUME NEW h \in Paths \union {Null}, NEW n \in Retval
      PROVE  New([slot[i] EXCEPT !.handle = h, !.retval = n])
  BY <1>1, <1>4 DEF SlotOf, Operands
<1>5. ASSUME NEW d \in Payload \union {Null}, NEW n \in Retval, slot[i].opcode = "FREAD"
      PROVE  New([slot[i] EXCEPT !.retval = n, !.data = d])
  BY <1>1, <1>5 DEF SlotOf, Operands
<1> HIDE DEF New
<1>6. CASE ServeOpen(i)
  <2>1. slot[i].path \in Paths /\ 0 \in Retval /\ Error \in Retval
    BY <1>1, <1>6 DEF ServeOpen, Operands, Retval
  <2>2. CASE slot' = [slot EXCEPT ![i].handle = slot[i].path, ![i].retval = 0]
    BY <1>1, <1>4, <2>1, <2>2
  <2>3. CASE slot' = [slot EXCEPT ![i].handle = Null, ![i].retval = Error]
    BY <1>1, <1>4, <2>1, <2>3
  <2> QED BY <1>6, <2>2, <2>3 DEF ServeOpen
<1>7. CASE ServeWrite(i) \/ ServeClose(i) \/ ServeWriteId(i)
  <2>1. PICK n \in Retval : Answer(i, n)
    BY <1>1, <1>7 DEF ServeWrite, ServeClose, ServeWriteId, Retval, SlotOf
  <2> QED BY <1>1, <1>3, <2>1 DEF Answer
<1>8. CASE ServeRead(i)
  <2> DEFINE f == slot[i].handle
             n == IF f = Null THEN 0 ELSE Smaller(slot[i].size, unread[f])
             d == IF n = 0 THEN slot[i].data ELSE [by |-> f, bytes |-> n]
             r == IF f = Null THEN Error ELSE n
  <2>1. f \in Paths \union {Null} /\ n \in Nat /\ (f = Null => n = 0)
    BY <1>1 DEF SlotOf, HostTypes, Smaller
  <2>2. slot' = [slot EXCEPT ![i].retval = r, ![i].data = d]
    BY <1>8 DEF ServeRead
  <2>3. slot[i].opcode = "FREAD"
    BY <1>8 DEF ServeRead
  <2>4. slot[i].data \in Payload \union {Null}
    BY <1>1 DEF SlotOf
  <2>5. d \in Payload \union {Null} /\ r \in Retval
    BY <2>1, <2>4 DEF Payload, Retval
  <2> HIDE DEF d, r
  <2> QED BY <1>1, <1>5, <2>2, <2>3, <2>5
<1> QED BY <1>6, <1>7, <1>8 DEF Serve

(* Serving a slot keeps the host's types.                                  *)
LEMMA ServeTypes ==
    ASSUME TypeInv, NEW i \in Slots, Serve(i)
    PROVE  TypeInv'
<1> USE DEF TypeInv
<1>1. slot[i] \in SlotOf /\ Operands(slot[i])
  BY DEF SlotTypes, Serve
<1>2. WaveTypes'
  BY ServeFrame DEF WaveTypes
<1>3. SlotTypes'
  <2>1. turn' \in [Slots -> Nat] /\ status' \in [Slots -> 0 .. 2] /\ slot' \in [Slots -> SlotOf]
    BY ServeFrame DEF SlotTypes
  <2>2. ASSUME NEW j \in Slots, status'[j] # 0 PROVE Operands(slot'[j])
    BY <2>2, ServeFrame DEF SlotTypes
  <2> QED BY <2>1, <2>2 DEF SlotTypes, Operands
<1>4. CASE ServeOpen(i)
  <2>1. slot[i].path \in Paths /\ slot[i].mode \in Modes
    BY <1>1, <1>4 DEF ServeOpen, Operands
  <2>2. FileSize \in Nat /\ << >> \in Seq(Record)
    BY FilesAssumption
  <2> DEFINE p == slot[i].path
  <2>3. CASE UNCHANGED host
    BY <1>2, <1>3, <2>3 DEF HostTypes, host
  <2>4. CASE ~ UNCHANGED host
    <3>1. /\ files' = [files EXCEPT ![p] = slot[i].mode]
          /\ primary' = IF primary = Null THEN p ELSE primary
          /\ content' = IF slot[i].mode = "w" THEN [content EXCEPT ![p] = << >>] ELSE content
          /\ unread' = [unread EXCEPT ![p] = IF slot[i].mode = "r" THEN FileSize ELSE 0]
      BY <1>4, <2>4 DEF ServeOpen
    <3>2. files' \in [Paths -> Modes \union {Null}] /\ primary' \in Paths \union {Null}
      BY <2>1, <3>1 DEF HostTypes
    <3>3. content' \in [Paths -> Seq(Record)]
      BY <2>1, <2>2, <3>1 DEF HostTypes
    <3>4. unread' \in [Paths -> Nat]
      BY <2>1, <2>2, <3>1 DEF HostTypes
    <3> QED BY <1>2, <1>3, <3>2, <3>3, <3>4 DEF HostTypes
  <2> QED BY <2>3, <2>4
<1>5. CASE ServeWrite(i)
  <2> DEFINE r == [slot[i].data EXCEPT !.bytes = slot[i].size]
  <2>1. r \in Record /\ slot[i].handle \in Paths \union {Null}
    BY <1>1, <1>5 DEF ServeWrite, Operands, SlotOf, Payload, Record
  <2> HIDE DEF r
  <2>2. content' = Appended(slot[i].handle, r)
    BY <1>5 DEF ServeWrite, r
  <2>3. HostTypes'
    BY <1>5, <2>1, <2>2, AppendedType DEF ServeWrite, HostTypes
  <2> QED BY <1>2, <1>3, <2>3
<1>6. CASE ServeRead(i)
  <2> DEFINE f == slot[i].handle
             n == IF f = Null THEN 0 ELSE Smaller(slot[i].size, unread[f])
  <2>1. f \in Paths \union {Null} /\ slot[i].size \in Nat
    BY <1>1 DEF SlotOf
  <2>2. f # Null => unread[f] - n \in Nat
    BY <2>1 DEF HostTypes, Smaller
  <2>3. unread' = IF f = Null THEN unread ELSE [unread EXCEPT ![f] = unread[f] - n]
    BY <1>6 DEF ServeRead
  <2>4. unread' \in [Paths -> Nat]
    BY <2>1, <2>2, <2>3 DEF HostTypes
  <2>5. HostTypes'
    BY <1>6, <2>4 DEF ServeRead, HostTypes
  <2> QED BY <1>2, <1>3, <2>5
<1>7. CASE ServeClose(i)
  BY <1>2, <1>3, <1>7 DEF ServeClose, HostTypes, host
<1>8. CASE ServeWriteId(i)
  <2>1. [site |-> slot[i].arg] \in Record
    BY <1>1, <1>8 DEF ServeWriteId, Operands, Record
  <2>2. HostTypes'
    BY <1>8, <2>1, AppendedType DEF ServeWriteId, HostTypes
  <2> QED BY <1>2, <1>3, <2>2
<1> QED BY <1>4, <1>5, <1>6, <1>7, <1>8 DEF Serve

LEMMA TypeNext == TypeInv /\ [Next]_vars => TypeInv'
<1> SUFFICES ASSUME TypeInv, [Next]_vars PROVE TypeInv'
  OBVIOUS
<1>1. ASSUME UNCHANGED vars PROVE TypeInv'
  BY <1>1 DEF vars, ring, host, TypeInv, WaveTypes, SlotTypes, HostTypes, Operands
<1> QED BY <1>1, TakeTicketTypes, PostTypes, ReturnTypes, ServeTypes DEF Next, Finished

LEMMA TypeInvariant == Spec => []TypeInv
BY TypeInit, TypeNext, PTL DEF Spec

-----------------------------------------------------------------------------
(* Handles.                                                                *)

(* Only the host touches its map, and it replaces nothing in it.           *)
LEMMA FilesStay ==
    ASSUME TypeInv, [Next]_vars
    PROVE  /\ \A p \in Paths : files[p] # Null => files'[p] = files[p]
           /\ primary # Null => primary' = primary
           /\ primary' # primary => files'[primary'] # Null
<1> USE DEF TypeInv, HostTypes
<1>1. CASE UNCHANGED <<files, primary>>
  BY <1>1
<1>2. CASE ~ UNCHANGED <<files, primary>>
  <2>1. PICK i \in Slots : Serve(i)
    BY <1>2 DEF Next, TakeTicket, Post, Return, Finished, vars, host
  <2>2. ServeOpen(i)
    BY <1>2, <2>1 DEF Serve, ServeWrite, ServeRead, ServeClose, ServeWriteId, host
  <2>3. slot[i].path \in Paths /\ slot[i].mode \in Modes /\ Null \notin Modes
    BY <2>1, <2>2, NullAssumption DEF SlotTypes, Serve, ServeOpen, Operands, Modes
  <2>4. /\ ~ Opened(slot[i].path)
        /\ files' = [files EXCEPT ![slot[i].path] = slot[i].mode]
        /\ primary' = IF primary = Null THEN slot[i].path ELSE primary
    BY <1>2, <2>2 DEF ServeOpen, host
  <2> QED BY <2>3, <2>4 DEF Opened
<1> QED BY <1>1, <1>2

(* The handle the host leaves in a slot is the one it found or a file it   *)
(* has open.                                                               *)
LEMMA ServedHandle ==
    ASSUME TypeInv, NEW i \in Slots, Serve(i)
    PROVE  slot'[i].handle \in {slot[i].handle, Null}
              \/ (slot'[i].handle \in Paths /\ files'[slot'[i].handle] # Null)
<1>1. /\ slot \in [Slots -> SlotOf] /\ slot[i] \in SlotOf
      /\ files \in [Paths -> Modes \union {Null}]
  BY DEF TypeInv, SlotTypes, HostTypes
<1>2. CASE ServeOpen(i)
  <2>1. slot[i].path \in Paths /\ slot[i].mode \in Modes /\ Null \notin Modes
    BY <1>2, NullAssumption DEF TypeInv, SlotTypes, Serve, ServeOpen, Operands, Modes
  <2>2. CASE slot' = [slot EXCEPT ![i].handle = Null, ![i].retval = Error]
    BY <1>1, <2>2 DEF SlotOf
  <2>3. CASE slot' # [slot EXCEPT ![i].handle = Null, ![i].retval = Error]
    <3>1. /\ slot' = [slot EXCEPT ![i].handle = slot[i].path, ![i].retval = 0]
          /\ \/ Opened(slot[i].path) /\ UNCHANGED host
             \/ files' = [files EXCEPT ![slot[i].path] = slot[i].mode]
      BY <1>2, <2>3 DEF ServeOpen
    <3>2. slot'[i].handle = slot[i].path
      BY <1>1, <3>1 DEF SlotOf
    <3>3. files'[slot[i].path] # Null
      BY <1>1, <2>1, <3>1 DEF Opened, host
    <3> QED BY <2>1, <3>2, <3>3
  <2> QED BY <2>2, <2>3
<1>3. CASE ServeWrite(i) \/ ServeClose(i) \/ ServeWriteId(i)
  <2>1. PICK n : Answer(i, n)
    BY <1>3 DEF ServeWrite, ServeClose, ServeWriteId
  <2> QED BY <1>1, <2>1 DEF Answer, SlotOf
<1>4. CASE ServeRead(i)
  <2>1. PICK n, d : slot' = [slot EXCEPT ![i].retval = n, ![i].data = d]
    BY <1>4 DEF ServeRead
  <2> QED BY <1>1, <2>1 DEF SlotOf
<1> QED BY <1>2, <1>3, <1>4 DEF Serve

LEMMA HandlesNext == HandleInv /\ [Next]_vars => HandlesOpen'
<1> SUFFICES ASSUME HandleInv, [Next]_vars PROVE HandlesOpen'
  OBVIOUS
<1> USE DEF HandleInv
<1>1. /\ \A p \in Paths : files[p] # Null => files'[p] # Null
      /\ primary' # Null => files'[primary'] # Null
  BY FilesStay DEF TypeInv, HostTypes, HandlesOpen, Opened
<1>2. ASSUME NEW i \in Slots, slot'[i].handle # Null PROVE files'[slot'[i].handle] # Null
  <2>1. CASE slot'[i].handle = slot[i].handle
    BY <1>1, <1>2, <2>1 DEF TypeInv, SlotTypes, SlotOf, HandlesOpen, Opened
  <2>2. ASSUME NEW w \in Waves, Post(w), slot'[i].handle # slot[i].handle
        PROVE  files'[slot'[i].handle] # Null
    <3>1. Cell(w) \in Slots /\ Doing(w) \in Call /\ handle[w] \in Paths \union {Null}
      BY <2>2, CellType, DoingType DEF TypeInv, WaveTypes, Post
    <3>2. slot' = [slot EXCEPT ![Cell(w)] = Marshalled(slot[Cell(w)], w, Doing(w))]
      BY <2>2 DEF Post
    <3>3. i = Cell(w) /\ slot[i] \in SlotOf
      BY <2>2, <3>1, <3>2 DEF TypeInv, SlotTypes
    <3>4. Marshalled(slot[i], w, Doing(w)).handle \in {slot[i].handle, handle[w]}
      BY <3>1, <3>3, MarshalledType
    <3>5. slot'[i].handle = handle[w]
      BY <2>2, <3>1, <3>2, <3>3, <3>4 DEF TypeInv, SlotTypes
    <3> QED BY <1>1, <1>2, <3>1, <3>5 DEF HandlesOpen, Opened
  <2>3. ASSUME NEW j \in Slots, Serve(j), slot'[i].handle # slot[i].handle
        PROVE  files'[slot'[i].handle] # Null
    <3>1. i = j
      BY <2>3, ServeFrame
    <3> QED BY <1>2, <2>3, <3>1, ServedHandle
  <2>4. ASSUME \/ \E w \in Waves : TakeTicket(w) \/ Return(w)
               \/ Finished \/ UNCHANGED vars
        PROVE  slot'[i].handle = slot[i].handle
    BY <2>4 DEF TakeTicket, Return, Finished, vars
  <2> QED BY <2>1, <2>2, <2>3, <2>4 DEF Next
<1>3. ASSUME NEW w \in Waves, handle'[w] # Null PROVE files'[handle'[w]] # Null
  <2>1. CASE handle'[w] = handle[w]
    BY <1>1, <1>3, <2>1 DEF TypeInv, WaveTypes, HandlesOpen, Opened
  <2>2. CASE handle'[w] # handle[w]
    <3>1. PICK v \in Waves : Return(v)
      BY <2>2, ServeFrame DEF Next, TakeTicket, Post, Finished, vars
    <3>2. Cell(v) \in Slots
      BY <3>1, CellType DEF TypeInv, Return
    <3>3. handle'[w] = slot[Cell(v)].handle /\ slot[Cell(v)] \in SlotOf
      BY <2>2, <3>1, <3>2 DEF Return, TypeInv, WaveTypes, SlotTypes
    <3> QED BY <1>1, <1>3, <3>2, <3>3 DEF HandlesOpen, Opened, SlotOf
  <2> QED BY <2>1, <2>2
<1> QED BY <1>1, <1>2, <1>3 DEF HandlesOpen, Opened

LEMMA HandleInvariant == Spec => []HandleInv
<1>1. Init => HandlesOpen
  <2> SUFFICES ASSUME Init PROVE HandlesOpen
    OBVIOUS
  <2>1. \A i \in Slots : slot[i].handle = Null
    BY DEF Init, Blank
  <2> QED BY <2>1 DEF Init, HandlesOpen
<1> QED BY <1>1, TypeInit, TypeNext, HandlesNext, PTL DEF Spec, HandleInv

-----------------------------------------------------------------------------
(* Tickets and the requests in the slots.                                  *)

LEMMA TicketNext == TypeInv /\ TicketInv /\ [Next]_vars => TicketInv'
<1> SUFFICES ASSUME TypeInv, TicketInv, [Next]_vars PROVE TicketInv'
  OBVIOUS
<1> USE DEF TypeInv, WaveTypes, TicketInv
<1>1. ASSUME NEW w \in Waves, TakeTicket(w) PROVE TicketInv'
  <2>1. /\ enqueue_pos' = enqueue_pos + 1 /\ ticket'[w] = enqueue_pos
        /\ \A v \in Waves \ {w} : ticket'[v] = ticket[v]
    BY <1>1 DEF TakeTicket
  <2>2. /\ enqueue_pos \in Nat
        /\ \A v \in Waves : ticket[v] # Null => ticket[v] \in Nat /\ ticket[v] < enqueue_pos
    OBVIOUS
  <2>3. ASSUME NEW v \in Waves, ticket'[v] # Null PROVE ticket'[v] < enqueue_pos'
    BY <2>1, <2>2, <2>3
  <2>4. ASSUME NEW u \in Waves, NEW v \in Waves, ticket'[u] # Null, ticket'[u] = ticket'[v]
        PROVE  u = v
    <3>1. CASE u # w /\ v # w
      BY <2>1, <2>4, <3>1
    <3>2. CASE u = w \/ v = w
      BY <2>1, <2>2, <2>4, <3>2
    <3> QED BY <3>1, <3>2
  <2> QED BY <2>3, <2>4
<1>2. ASSUME NEW w \in Waves, Return(w) PROVE TicketInv'
  BY <1>2 DEF Return
<1>3. ASSUME \/ \E w \in Waves : Post(w)
             \/ \E i \in Slots : Serve(i)
             \/ Finished \/ UNCHANGED vars
      PROVE  TicketInv'
  BY <1>3 DEF Post, Serve, Finished, vars, ring
<1> QED BY <1>1, <1>2, <1>3 DEF Next

(* The holder of a slot in use is its owner.                               *)
LEMMA OwnRequest ==
    ASSUME TypeInv, TicketInv, OwnerInv, NEW w \in Waves, Holds(w), status[Cell(w)] # 0
    PROVE  /\ slot[Cell(w)].opcode = Opcode(Doing(w).fn)
           /\ Doing(w).fn = "hc_write_id" => slot[Cell(w)].arg = Doing(w).arg
<1>1. Cell(w) \in Slots
  BY CellType DEF TypeInv, Holds
<1>2. PICK v \in Waves : /\ Holds(v) /\ Cell(v) = Cell(w)
                         /\ slot[Cell(w)].opcode = Opcode(Doing(v).fn)
                         /\ Doing(v).fn = "hc_write_id" => slot[Cell(w)].arg = Doing(v).arg
  BY <1>1 DEF OwnerInv
<1>3. v = w
  BY <1>2 DEF TicketInv, Holds
<1> QED BY <1>2, <1>3

LEMMA OwnerNext == TypeInv /\ TicketInv /\ OwnerInv /\ [Next]_vars => OwnerInv'
<1> DEFINE Owns(w, i) == /\ Holds(w) /\ Cell(w) = i
                         /\ slot[i].opcode = Opcode(Doing(w).fn)
                         /\ Doing(w).fn = "hc_write_id" => slot[i].arg = Doing(w).arg
<1> SUFFICES ASSUME TypeInv, TicketInv, OwnerInv, [Next]_vars, NEW i \in Slots, status'[i] # 0
             PROVE  \E w \in Waves : Owns(w, i)'
  BY DEF OwnerInv
<1>a. status[i] # 0 => \E w \in Waves : Owns(w, i)
  BY DEF OwnerInv
<1>b. ASSUME NEW w \in Waves, Owns(w, i), ticket'[w] = ticket[w], todo'[w] = todo[w],
             turn'[i] = turn[i],
             slot'[i].opcode = slot[i].opcode, slot'[i].arg = slot[i].arg
      PROVE  Owns(w, i)'
  BY <1>b DEF Holds, Cell, Doing
<1> USE DEF TypeInv, WaveTypes, SlotTypes
<1>1. ASSUME NEW w \in Waves, TakeTicket(w) PROVE \E v \in Waves : Owns(v, i)'
  <2>1. PICK v \in Waves : Owns(v, i)
    BY <1>1, <1>a DEF TakeTicket
  <2>2. v # w
    BY <1>1, <2>1 DEF TakeTicket, Holds
  <2>3. ticket'[v] = ticket[v] /\ todo' = todo /\ turn' = turn /\ slot' = slot
    BY <1>1, <2>2 DEF TakeTicket
  <2> QED BY <1>b, <2>1, <2>3
<1>2. ASSUME NEW w \in Waves, Post(w) PROVE \E v \in Waves : Owns(v, i)'
  <2>1. /\ Cell(w) \in Slots /\ Doing(w) \in Call /\ handle[w] \in Paths \union {Null}
        /\ Holds(w)
    BY <1>2, CellType, DoingType DEF Post, Holds
  <2> DEFINE m == Marshalled(slot[Cell(w)], w, Doing(w))
  <2>2. /\ slot' = [slot EXCEPT ![Cell(w)] = m] /\ status' = [status EXCEPT ![Cell(w)] = 1]
        /\ ticket' = ticket /\ todo' = todo /\ turn' = turn
    BY <1>2 DEF Post
  <2>3. m.opcode = Opcode(Doing(w).fn) /\ (Doing(w).fn = "hc_write_id" => m.arg = Doing(w).arg)
    BY <2>1, MarshalledType
  <2> HIDE DEF m
  <2>4. CASE i = Cell(w)
    <3>1. slot'[i] = m
      BY <2>2, <2>4
    <3>2. Holds(w)' /\ Cell(w)' = i /\ Doing(w)' = Doing(w)
      BY <2>1, <2>2, <2>4 DEF Holds, Cell, Doing
    <3>3. Owns(w, i)'
      BY <2>3, <3>1, <3>2
    <3> QED BY <3>3
  <2>5. CASE i # Cell(w)
    <3>1. slot'[i] = slot[i] /\ status'[i] = status[i]
      BY <2>1, <2>2, <2>5
    <3> QED BY <1>a, <1>b, <2>2, <3>1
  <2> QED BY <2>4, <2>5
<1>3. ASSUME NEW w \in Waves, Return(w) PROVE \E v \in Waves : Owns(v, i)'
  <2>1. Cell(w) \in Slots
    BY <1>3, CellType DEF Return
  <2>2. i # Cell(w) /\ status'[i] = status[i] /\ turn'[i] = turn[i] /\ slot' = slot
    BY <1>3, <2>1 DEF Return
  <2>3. PICK v \in Waves : Owns(v, i)
    BY <1>a, <2>2
  <2>4. v # w
    BY <2>2, <2>3
  <2>5. ticket'[v] = ticket[v] /\ todo'[v] = todo[v]
    BY <1>3, <2>4 DEF Return
  <2> QED BY <1>b, <2>2, <2>3, <2>5
<1>4. ASSUME NEW j \in Slots, Serve(j) PROVE \E v \in Waves : Owns(v, i)'
  <2>1. /\ status[j] = 1 /\ status' = [status EXCEPT ![j] = 2]
        /\ \A k \in Slots \ {j} : slot'[k] = slot[k]
        /\ slot'[j].opcode = slot[j].opcode /\ slot'[j].arg = slot[j].arg
        /\ UNCHANGED <<enqueue_pos, turn, ticket, todo, handle, log>>
    BY <1>4, ServeFrame
  <2>2. /\ status[i] # 0
        /\ slot'[i].opcode = slot[i].opcode /\ slot'[i].arg = slot[i].arg
    BY <2>1
  <2> QED BY <1>a, <1>b, <2>1, <2>2
<1>5. ASSUME Finished \/ UNCHANGED vars PROVE \E v \in Waves : Owns(v, i)'
  BY <1>5, <1>a, <1>b DEF Finished, vars, ring
<1> QED BY <1>1, <1>2, <1>3, <1>4, <1>5 DEF Next

(* A slot in use stays with its holder and its call until the call returns.*)
LEMMA HolderNext ==
    ASSUME TypeInv, TicketInv, OwnerInv, [Next]_vars, NEW w \in Waves,
           Holds(w)', status'[Cell(w)'] # 0
    PROVE  /\ Holds(w) /\ Cell(w) \in Slots /\ Doing(w) \in Call
           /\ ticket'[w] = ticket[w] /\ todo'[w] = todo[w]
           /\ handle'[w] = handle[w] /\ log'[w] = log[w]
           /\ \/ Post(w) /\ status[Cell(w)] = 0 /\ status'[Cell(w)] = 1
              \/ Serve(Cell(w)) /\ status[Cell(w)] = 1 /\ status'[Cell(w)] = 2
              \/ status'[Cell(w)] = status[Cell(w)] /\ slot'[Cell(w)] = slot[Cell(w)]
<1> DEFINE Kept == /\ ticket'[w] = ticket[w] /\ todo'[w] = todo[w]
                   /\ handle'[w] = handle[w] /\ log'[w] = log[w]
           Same == status'[Cell(w)] = status[Cell(w)] /\ slot'[Cell(w)] = slot[Cell(w)]
           Step == \/ Post(w) /\ status[Cell(w)] = 0 /\ status'[Cell(w)] = 1
                   \/ Serve(Cell(w)) /\ status[Cell(w)] = 1 /\ status'[Cell(w)] = 2
                   \/ Same
<1> SUFFICES Holds(w) /\ Kept /\ Step
  BY CellType, DoingType DEF Holds, TypeInv
<1> USE DEF TypeInv, WaveTypes, SlotTypes
<1>1. ASSUME Kept PROVE Cell(w)' = Cell(w) /\ Cell(w) \in Slots /\ ticket[w] # Null
  BY <1>1, CellType DEF Holds, Cell
<1>2. ASSUME NEW v \in Waves, TakeTicket(v) PROVE Holds(w) /\ Kept /\ Step
  <2>1. v # w
    <3>1. SUFFICES ASSUME v = w PROVE FALSE
      OBVIOUS
    <3>2. ticket'[w] = enqueue_pos /\ turn' = turn /\ status' = status
      BY <1>2, <3>1 DEF TakeTicket
    <3>3. turn[Cell(w)'] = enqueue_pos /\ status[Cell(w)'] # 0 /\ Cell(w)' \in Slots
      <4>1. Cell(w)' = enqueue_pos % NSLOTS
        BY <3>2 DEF Cell
      <4>2. enqueue_pos % NSLOTS \in Slots
        BY FilesAssumption DEF Slots
      <4> QED BY <3>2, <4>1, <4>2 DEF Holds
    <3>4. PICK u \in Waves : Holds(u) /\ Cell(u) = Cell(w)'
      BY <3>3 DEF OwnerInv
    <3>5. ticket[u] = enqueue_pos /\ ticket[u] < enqueue_pos
      BY <3>3, <3>4 DEF Holds, TicketInv
    <3> QED BY <3>5
  <2>2. Kept /\ turn' = turn /\ status' = status /\ slot' = slot
    BY <1>2, <2>1 DEF TakeTicket
  <2> QED BY <1>1, <2>2 DEF Holds
<1>3. ASSUME NEW v \in Waves, Post(v) PROVE Holds(w) /\ Kept /\ Step
  <2>1. /\ Kept /\ turn' = turn
        /\ status[Cell(v)] = 0 /\ status' = [status EXCEPT ![Cell(v)] = 1]
        /\ slot' = [slot EXCEPT ![Cell(v)] = Marshalled(@, v, Doing(v))]
    BY <1>3 DEF Post
  <2>2. Cell(v) \in Slots
    BY <1>3, CellType DEF Post
  <2>3. Holds(w)
    BY <1>1, <2>1 DEF Holds
  <2>4. CASE Cell(v) = Cell(w)
    <3>1. v = w
      BY <1>3, <2>3, <2>4 DEF Post, Holds, TicketInv
    <3> QED BY <1>3, <2>1, <2>2, <2>3, <3>1
  <2>5. CASE Cell(v) # Cell(w)
    BY <1>1, <2>1, <2>3, <2>5
  <2> QED BY <2>4, <2>5
<1>4. ASSUME NEW v \in Waves, Return(v) PROVE Holds(w) /\ Kept /\ Step
  <2>1. v # w
    BY <1>4 DEF Return, Holds
  <2>2. /\ Kept /\ slot' = slot
        /\ turn' = [turn EXCEPT ![Cell(v)] = ticket[v] + NSLOTS]
        /\ status' = [status EXCEPT ![Cell(v)] = 0]
    BY <1>4, <2>1 DEF Return
  <2>3. Cell(v) # Cell(w)
    BY <1>1, <2>2
  <2> QED BY <1>1, <2>2, <2>3 DEF Holds
<1>5. ASSUME NEW i \in Slots, Serve(i) PROVE Holds(w) /\ Kept /\ Step
  <2>1. /\ Kept /\ turn' = turn
        /\ status[i] = 1 /\ status' = [status EXCEPT ![i] = 2]
        /\ \A j \in Slots \ {i} : slot'[j] = slot[j]
    BY <1>5, ServeFrame
  <2>2. Holds(w)
    BY <1>1, <2>1 DEF Holds
  <2> QED BY <1>1, <1>5, <2>1, <2>2
<1>6. ASSUME Finished \/ UNCHANGED vars PROVE Holds(w) /\ Kept /\ Step
  <2>1. Kept /\ turn' = turn /\ status' = status /\ slot' = slot
    BY <1>6 DEF Finished, vars, ring
  <2> QED BY <1>1, <2>1 DEF Holds
<1> QED BY <1>2, <1>3, <1>4, <1>5, <1>6 DEF Next

-----------------------------------------------------------------------------
(* The primary file and the site ids in it.                                *)

(* An answer of 0 to an open means that there is a primary file.           *)
LEMMA OpenedPrimary ==
    ASSUME TypeInv, PrimaryInv, NEW i \in Slots, ServeOpen(i), Serve(i), slot'[i].retval = 0
    PROVE  primary' # Null
<1>1. /\ slot \in [Slots -> SlotOf] /\ slot[i] \in SlotOf
      /\ slot[i].path \in Paths /\ Null \notin Paths /\ Error # 0
  BY NullAssumption DEF TypeInv, SlotTypes, Serve, ServeOpen, Operands
<1>2. slot' # [slot EXCEPT ![i].handle = Null, ![i].retval = Error]
  BY <1>1 DEF SlotOf
<1>3. \/ Opened(slot[i].path) /\ UNCHANGED host
      \/ primary' = IF primary = Null THEN slot[i].path ELSE primary
  BY <1>2 DEF ServeOpen
<1> QED BY <1>1, <1>3 DEF PrimaryInv, Opened, host

(* A wave's log grows by the call that returns.                            *)
LEMMA LogAppends ==
    ASSUME TypeInv, [Next]_vars, NEW w \in Waves, log'[w] # log[w]
    PROVE  /\ Return(w) /\ Holds(w) /\ Cell(w) \in Slots /\ status[Cell(w)] = 2
           /\ Doing(w) \in Call /\ log[w] \in Seq(Entry)
           /\ \E e \in Entry : /\ e.call = Doing(w) /\ e.with = handle[w]
                               /\ e.retval = slot[Cell(w)].retval
                               /\ log'[w] = Append(log[w], e)
<1> DEFINE e == [call |-> Doing(w), with |-> handle[w], retval |-> slot[Cell(w)].retval,
                 handle |-> slot[Cell(w)].handle]
<1>1. Return(w) /\ log' = [log EXCEPT ![w] = Append(log[w], e)]
  BY DEF Next, TakeTicket, Post, Return, Serve, Finished, vars, TypeInv, WaveTypes
<1>2. /\ Holds(w) /\ Cell(w) \in Slots /\ status[Cell(w)] = 2 /\ Doing(w) \in Call
      /\ log[w] \in Seq(Entry) /\ log \in [Waves -> Seq(Entry)] /\ slot \in [Slots -> SlotOf]
  BY <1>1, CellType, DoingType DEF Return, Holds, TypeInv, WaveTypes, SlotTypes
<1>3. e \in Entry
  BY <1>2 DEF Entry, SlotOf, TypeInv, WaveTypes
<1>4. e.call = Doing(w) /\ e.retval = slot[Cell(w)].retval /\ e.with = handle[w]
  OBVIOUS
<1> HIDE DEF e
<1>5. log'[w] = Append(log[w], e)
  BY <1>1, <1>2
<1> QED BY <1>1, <1>2, <1>3, <1>4, <1>5

LEMMA LogGrows ==
    ASSUME TypeInv, [Next]_vars, NEW w \in Waves, log'[w] # log[w]
    PROVE  LET n == Len(log[w]) IN
           /\ Return(w) /\ Holds(w) /\ Cell(w) \in Slots /\ status[Cell(w)] = 2
           /\ Doing(w) \in Call
           /\ n \in Nat /\ DOMAIN log[w] = 1 .. n /\ DOMAIN log'[w] = 1 .. n + 1
           /\ \A k \in 1 .. n : log'[w][k] = log[w][k]
           /\ log'[w][n + 1].call = Doing(w)
           /\ log'[w][n + 1].retval = slot[Cell(w)].retval
           /\ log'[w][n + 1].with = handle[w]
BY LogAppends, AppendProperties

LEMMA PrimaryNext ==
    HandleInv /\ TicketInv /\ OwnerInv /\ PrimaryInv /\ [Next]_vars => PrimaryInv'
<1> SUFFICES ASSUME HandleInv, TicketInv, OwnerInv, PrimaryInv, [Next]_vars PROVE PrimaryInv'
  OBVIOUS
<1>a. TypeInv
  BY DEF HandleInv
<1>b. primary # Null => primary' # Null
  BY <1>a, FilesStay
<1>1. ASSUME NEW i \in Slots, status'[i] = 2, slot'[i].opcode = "FOPEN", slot'[i].retval = 0
      PROVE  primary' # Null
  <2>1. ASSUME NEW j \in Slots, Serve(j) PROVE primary' # Null
    <3>1. /\ status' = [status EXCEPT ![j] = 2] /\ slot'[j].opcode = slot[j].opcode
          /\ \A k \in Slots \ {j} : slot'[k] = slot[k]
      BY <1>a, <2>1, ServeFrame
    <3>2. CASE i = j
      <4>1. ServeOpen(j)
        BY <1>1, <2>1, <3>1, <3>2 DEF Serve, ServeWrite, ServeRead, ServeClose, ServeWriteId
      <4> QED BY <1>1, <1>a, <2>1, <3>2, <4>1, OpenedPrimary
    <3>3. CASE i # j
      <4>1. status[i] = 2 /\ slot'[i] = slot[i]
        BY <1>1, <1>a, <3>1, <3>3 DEF TypeInv, SlotTypes
      <4> QED BY <1>1, <1>b, <4>1 DEF PrimaryInv
    <3> QED BY <3>2, <3>3
  <2>2. ASSUME NEW w \in Waves, Post(w) PROVE primary' # Null
    <3>1. Cell(w) \in Slots
      BY <1>a, <2>2, CellType DEF TypeInv, Post
    <3>2. i # Cell(w) /\ status'[i] = status[i]
      BY <1>1, <1>a, <2>2, <3>1 DEF TypeInv, SlotTypes, Post
    <3>3. slot'[i] = slot[i]
      BY <1>a, <2>2, <3>1, <3>2 DEF TypeInv, SlotTypes, Post
    <3> QED BY <1>1, <1>b, <3>2, <3>3 DEF PrimaryInv
  <2>3. ASSUME NEW w \in Waves, Return(w) PROVE primary' # Null
    <3>1. status[i] = 2 /\ slot' = slot
      BY <1>1, <1>a, <2>3 DEF TypeInv, SlotTypes, Return
    <3> QED BY <1>1, <1>b, <3>1 DEF PrimaryInv
  <2>4. ASSUME \/ \E w \in Waves : TakeTicket(w)
               \/ Finished \/ UNCHANGED vars
        PROVE  primary' # Null
    BY <1>1, <1>b, <2>4 DEF PrimaryInv, TakeTicket, Finished, vars, ring
  <2> QED BY <2>1, <2>2, <2>3, <2>4 DEF Next
<1>2. ASSUME NEW p \in Paths, files'[p] # Null PROVE primary' # Null
  <2>1. CASE files' = files
    BY <1>2, <1>b, <2>1 DEF PrimaryInv
  <2>2. CASE files' # files
    <3>1. PICK i \in Slots : Serve(i) /\ ServeOpen(i)
      BY <2>2 DEF Next, TakeTicket, Post, Return, Serve, ServeWrite, ServeRead, ServeClose,
                  ServeWriteId, Finished, vars, host
    <3>2. slot[i].path \in Paths /\ Null \notin Paths
      BY <1>a, <3>1, NullAssumption DEF TypeInv, SlotTypes, Serve, ServeOpen, Operands
    <3>3. primary' = IF primary = Null THEN slot[i].path ELSE primary
      BY <2>2, <3>1 DEF ServeOpen, host
    <3> QED BY <3>2, <3>3
  <2> QED BY <2>1, <2>2
<1>3. ASSUME NEW w \in Waves, NEW j \in DOMAIN log'[w],
             log'[w][j].call.fn = "hc_open", log'[w][j].retval = 0
      PROVE  primary' # Null
  <2>1. CASE log'[w] = log[w]
    BY <1>3, <1>b, <2>1 DEF PrimaryInv
  <2>2. CASE log'[w] # log[w]
    <3> DEFINE n == Len(log[w])
    <3>1. /\ Holds(w) /\ Cell(w) \in Slots /\ status[Cell(w)] = 2 /\ Doing(w) \in Call
          /\ DOMAIN log[w] = 1 .. n /\ j \in 1 .. n + 1
          /\ \A k \in 1 .. n : log'[w][k] = log[w][k]
          /\ log'[w][n + 1].call = Doing(w)
          /\ log'[w][n + 1].retval = slot[Cell(w)].retval
      BY <1>3, <1>a, <2>2, LogGrows
    <3>2. n \in Nat
      BY <1>a, <2>2, LogGrows
    <3> HIDE DEF n
    <3>6. CASE j \in 1 .. n
      BY <1>3, <1>b, <3>1, <3>6 DEF PrimaryInv
    <3>7. CASE j = n + 1
      <4>1. Doing(w).fn = "hc_open" /\ slot[Cell(w)].retval = 0
        BY <1>3, <3>1, <3>7
      <4>2. slot[Cell(w)].opcode = "FOPEN"
        BY <1>a, <3>1, <4>1, OwnRequest, OpcodeType
      <4> QED BY <1>b, <3>1, <4>1, <4>2 DEF PrimaryInv
    <3> QED BY <3>1, <3>2, <3>6, <3>7
  <2> QED BY <2>1, <2>2
<1> QED BY <1>1, <1>2, <1>3 DEF PrimaryInv

(* What is in the primary file stays there.                                *)
LEMMA StoredStays ==
    ASSUME HandleInv, [Next]_vars, primary # Null, NEW id, Stored(id)
    PROVE  Stored(id)'
<1>1. TypeInv /\ primary \in Paths /\ primary' = primary /\ content[primary] \in Seq(Record)
  BY FilesStay DEF HandleInv, TypeInv, HostTypes
<1>2. SUFFICES \A l \in DOMAIN content[primary] :
                  l \in DOMAIN content'[primary] /\ content'[primary][l] = content[primary][l]
  BY <1>1, <1>2 DEF Stored
<1>3. CASE content'[primary] = content[primary]
  BY <1>3
<1>4. CASE content'[primary] # content[primary]
  <2>1. PICK i \in Slots : Serve(i)
    BY <1>4 DEF Next, TakeTicket, Post, Return, Finished, vars, host
  <2>2. ~ ServeOpen(i)
    <3>1. ASSUME ServeOpen(i) PROVE FALSE
      <4>1. slot[i].path \in Paths
        BY <1>1, <2>1, <3>1 DEF TypeInv, SlotTypes, Serve, ServeOpen, Operands
      <4>2. ~ Opened(slot[i].path)
        BY <1>4, <3>1 DEF ServeOpen, host
      <4>3. slot[i].path # primary
        BY <1>1, <4>2 DEF HandleInv, HandlesOpen
      <4>4. content'[primary] = content[primary]
        BY <1>1, <3>1, <4>1, <4>3 DEF ServeOpen, host, TypeInv, HostTypes
      <4> QED BY <1>4, <4>4
    <3> QED BY <3>1
  <2>3. PICK p \in Paths \union {Null}, r \in Record : content' = Appended(p, r)
    <3>1. slot[i] \in SlotOf /\ Operands(slot[i])
      BY <1>1, <2>1 DEF TypeInv, SlotTypes, Serve
    <3>2. CASE ServeWrite(i)
      <4>1. [slot[i].data EXCEPT !.bytes = slot[i].size] \in Record
        BY <3>1, <3>2 DEF ServeWrite, Operands, SlotOf, Payload, Record
      <4> QED BY <3>1, <3>2, <4>1 DEF ServeWrite, SlotOf
    <3>3. CASE ServeWriteId(i)
      <4>1. [site |-> slot[i].arg] \in Record
        BY <3>1, <3>3 DEF ServeWriteId, Operands, Record
      <4> QED BY <1>1, <3>3, <4>1 DEF ServeWriteId
    <3> QED BY <1>4, <2>1, <2>2, <3>2, <3>3 DEF Serve, ServeRead, ServeClose, host
  <2>4. content'[primary] = Append(content[primary], r)
    BY <1>1, <1>4, <2>3, AppendedType DEF TypeInv
  <2> QED BY <1>1, <2>3, <2>4, AppendProperties
<1> QED BY <1>3, <1>4

(* Servicing a site id puts it into the primary file.                      *)
LEMMA IdServed ==
    ASSUME TypeInv, NEW i \in Slots, Serve(i), slot[i].opcode = "WRITE_ID",
           primary # Null, files[primary] = "w"
    PROVE  Stored(slot[i].arg)'
<1>1. /\ slot[i].arg \in Nat /\ primary \in Paths /\ content[primary] \in Seq(Record)
  BY DEF TypeInv, SlotTypes, HostTypes, Serve, Operands
<1>2. content' = Appended(primary, [site |-> slot[i].arg]) /\ primary' = primary
  BY DEF Serve, ServeOpen, ServeWrite, ServeRead, ServeClose, ServeWriteId
<1>3. [site |-> slot[i].arg] \in Record
  BY <1>1 DEF Record
<1>4. content'[primary] = Append(content[primary], [site |-> slot[i].arg])
  BY <1>1, <1>2, <1>3, AppendedType DEF TypeInv
<1>5. slot'[i].arg = slot[i].arg
  BY ServeFrame
<1>6. /\ Len(content[primary]) + 1 \in DOMAIN content'[primary]
      /\ content'[primary][Len(content[primary]) + 1] = [site |-> slot[i].arg]
  BY <1>1, <1>3, <1>4, AppendProperties
<1> QED BY <1>2, <1>5, <1>6 DEF Stored

(* A wave that has opened the trace writes to the same primary file for    *)
(* the rest of its life.                                                   *)
LEMMA SamePrimary ==
    ASSUME HandleInv, PrimaryInv, [Next]_vars, NEW w \in Waves, HasOpened(w), files'[primary'] = "w"
    PROVE  primary # Null /\ primary' = primary /\ files[primary] = "w"
<1>1. primary # Null
  BY DEF PrimaryInv, HasOpened
<1> QED BY <1>1, FilesStay DEF HandleInv, HandlesOpen, Opened, TypeInv, HostTypes

LEMMA StoredNext == SiteInv /\ [Next]_vars => StoredInv'
<1> SUFFICES ASSUME SiteInv, [Next]_vars, NEW w \in Waves, files'[primary'] = "w"
             PROVE  /\ /\ Holds(w)' /\ status'[Cell(w)'] = 2 /\ (Doing(w).fn)' = "hc_write_id"
                       /\ HasOpened(w)'
                       => Stored(Doing(w).arg)'
                    /\ \A j, k \in DOMAIN log'[w] :
                          /\ j < k
                          /\ log'[w][j].call.fn = "hc_open" /\ log'[w][j].retval = 0
                          /\ log'[w][k].call.fn = "hc_write_id"
                          => Stored(log[w][k].call.arg)'
  BY DEF StoredInv
<1>a. HandleInv /\ TypeInv /\ TicketInv /\ OwnerInv /\ PrimaryInv /\ StoredInv
  BY DEF SiteInv, HandleInv
<1>b. HasOpened(w) => /\ primary # Null /\ files[primary] = "w"
                      /\ \A id : Stored(id) => Stored(id)'
  BY <1>a, SamePrimary, StoredStays
<1>1. ASSUME Holds(w)', status'[Cell(w)'] = 2, (Doing(w).fn)' = "hc_write_id", HasOpened(w)'
      PROVE  Stored(Doing(w).arg)'
  <2>1. /\ Holds(w) /\ Cell(w) \in Slots /\ Doing(w) \in Call
        /\ ticket'[w] = ticket[w] /\ todo'[w] = todo[w] /\ log'[w] = log[w]
        /\ \/ Serve(Cell(w)) /\ status[Cell(w)] = 1
           \/ status'[Cell(w)] = status[Cell(w)]
    BY <1>1, <1>a, HolderNext DEF Cell
  <2>2. Doing(w)' = Doing(w) /\ Cell(w)' = Cell(w) /\ HasOpened(w)
    BY <1>1, <2>1 DEF Doing, Cell, HasOpened
  <2>3. CASE status'[Cell(w)] = status[Cell(w)]
    <3>1. Stored(Doing(w).arg)
      BY <1>1, <1>a, <1>b, <2>1, <2>2, <2>3 DEF StoredInv
    <3> QED BY <1>b, <2>2, <3>1
  <2>4. CASE Serve(Cell(w)) /\ status[Cell(w)] = 1
    <3>1. slot[Cell(w)].opcode = "WRITE_ID" /\ slot[Cell(w)].arg = Doing(w).arg
      BY <1>1, <1>a, <2>1, <2>2, <2>4, OwnRequest, OpcodeType
    <3>2. Stored(slot[Cell(w)].arg)'
      BY <1>a, <1>b, <2>1, <2>2, <2>4, <3>1, IdServed
    <3>3. slot'[Cell(w)].arg = slot[Cell(w)].arg
      BY <1>a, <2>1, <2>4, ServeFrame
    <3> QED BY <2>2, <3>1, <3>2, <3>3
  <2> QED BY <2>1, <2>3, <2>4
<1>2. ASSUME NEW j \in DOMAIN log'[w], NEW k \in DOMAIN log'[w], j < k,
             log'[w][j].call.fn = "hc_open", log'[w][j].retval = 0,
             log'[w][k].call.fn = "hc_write_id"
      PROVE  Stored(log[w][k].call.arg)'
  <2>1. CASE log'[w] = log[w]
    <3>1. HasOpened(w)
      BY <1>2, <2>1 DEF HasOpened
    <3>2. Stored(log[w][k].call.arg)
      BY <1>2, <1>a, <1>b, <2>1, <3>1 DEF StoredInv
    <3> QED BY <1>b, <2>1, <3>1, <3>2
  <2>2. CASE log'[w] # log[w]
    <3> DEFINE n == Len(log[w])
    <3>1. /\ Return(w) /\ Holds(w) /\ status[Cell(w)] = 2
          /\ n \in Nat /\ DOMAIN log[w] = 1 .. n /\ DOMAIN log'[w] = 1 .. n + 1
          /\ \A l \in 1 .. n : log'[w][l] = log[w][l]
          /\ log'[w][n + 1].call = Doing(w)
      BY <1>a, <2>2, LogGrows
    <3> HIDE DEF n
    <3>2. j \in DOMAIN log[w] /\ log'[w][j] = log[w][j]
      BY <1>2, <3>1
    <3>3. HasOpened(w)
      BY <1>2, <3>2 DEF HasOpened
    <3>4. CASE k = n + 1
      <4>1. Stored(Doing(w).arg)
        BY <1>2, <1>a, <1>b, <3>1, <3>3, <3>4 DEF StoredInv
      <4> QED BY <1>b, <3>1, <3>3, <3>4, <4>1
    <3>5. CASE k \in 1 .. n
      <4>1. Stored(log[w][k].call.arg)
        BY <1>2, <1>a, <1>b, <3>1, <3>2, <3>3, <3>5 DEF StoredInv
      <4> QED BY <1>b, <3>1, <3>3, <3>5, <4>1
    <3> QED BY <1>2, <3>1, <3>4, <3>5
  <2> QED BY <2>1, <2>2
<1> QED BY <1>1, <1>2

LEMMA SiteInvariant == Spec => []SiteInv
<1>1. Init => TicketInv /\ OwnerInv /\ PrimaryInv /\ StoredInv
  <2> SUFFICES ASSUME Init PROVE TicketInv /\ OwnerInv /\ PrimaryInv /\ StoredInv
    OBVIOUS
  <2>1. TicketInv /\ OwnerInv
    BY DEF Init, TicketInv, OwnerInv
  <2>2. \A w \in Waves : DOMAIN log[w] = {} /\ ~ Holds(w)
    <3>1. \A w \in Waves : log[w] = << >> /\ ticket[w] = Null
      BY DEF Init
    <3>2. DOMAIN << >> = {}
      OBVIOUS
    <3> QED BY <3>1, <3>2 DEF Holds
  <2>3. PrimaryInv
    BY <2>2 DEF Init, PrimaryInv
  <2>4. StoredInv
    BY <2>2 DEF StoredInv
  <2> QED BY <2>1, <2>3, <2>4
<1>2. SiteInv /\ [Next]_vars => SiteInv'
  BY TypeNext, HandlesNext, TicketNext, OwnerNext, PrimaryNext, StoredNext DEF SiteInv, HandleInv
<1> QED BY <1>1, <1>2, HandleInvariant, PTL DEF Spec, SiteInv

-----------------------------------------------------------------------------
(* Picking from a sequence.                                                *)

Picks(f, s, A, n) ==
    f = [k \in 0 .. n |-> IF k = 0 THEN << >>
                          ELSE IF k \in A THEN Append(f[k - 1], s[k]) ELSE f[k - 1]]

LEMMA PicksExist ==
    ASSUME NEW s, NEW A, NEW n \in Nat
    PROVE  \E f : Picks(f, s, A, n)
<1> DEFINE S == {k \in Nat : \E f : Picks(f, s, A, k)}
           Step(k, x) == IF k \in A THEN Append(x, s[k]) ELSE x
<1>1. 0 \in S
  <2> DEFINE f == [i \in 0 .. 0 |-> << >>]
  <2>1. Picks(f, s, A, 0)
    BY DEF Picks
  <2> QED BY <2>1
<1>2. ASSUME NEW k \in Nat, k \in S PROVE k + 1 \in S
  <2>1. PICK f : Picks(f, s, A, k)
    BY <1>2
  <2> DEFINE G(h) == [i \in 0 .. k + 1 |-> IF i = 0 THEN << >>
                          ELSE IF i \in A THEN Append(h[i - 1], s[i]) ELSE h[i - 1]]
             g == G(f)
  <2>2. \A i \in 0 .. k : g[i] = f[i]
    <3>1. \A i \in 0 .. k : i \in 0 .. k + 1
      OBVIOUS
    <3> QED BY <2>1, <3>1 DEF Picks
  <2>3. \A i \in 0 .. k + 1 : i # 0 => i - 1 \in 0 .. k
    OBVIOUS
  <2>4. \A i \in 0 .. k + 1 : i # 0 => f[i - 1] = g[i - 1]
    BY <2>2, <2>3
  <2>5. g = G(g)
    <3> HIDE DEF g
    <3>1. g = G(f)
      BY DEF g
    <3>2. \A i \in 0 .. k + 1 : G(f)[i] = G(g)[i]
      BY <2>4
    <3>3. G(f) = G(g)
      BY <3>2
    <3> QED BY <3>1, <3>3
  <2>6. Picks(g, s, A, k + 1)
    BY <2>5 DEF Picks
  <2> QED BY <2>6
<1>3. Nat \subseteq S
  <2> HIDE DEF S
  <2> QED BY <1>1, <1>2, SetInduction
<1> QED BY <1>3

LEMMA PickedStages ==
    ASSUME NEW s, NEW A, Len(s) \in Nat
    PROVE  \E f : Picks(f, s, A, Len(s)) /\ Picked(s, A) = f[Len(s)]
<1> DEFINE f == CHOOSE g : Picks(g, s, A, Len(s))
<1>1. Picks(f, s, A, Len(s))
  BY PicksExist
<1>2. Picked(s, A) = f[Len(s)]
  BY DEF Picked, Picks
<1> QED BY <1>1, <1>2

LEMMA PicksStep ==
    ASSUME NEW f, NEW s, NEW A, NEW n \in Nat, Picks(f, s, A, n)
    PROVE  /\ f[0] = << >>
           /\ \A k \in Nat : k + 1 \in 0 .. n =>
                 f[k + 1] = IF k + 1 \in A THEN Append(f[k], s[k + 1]) ELSE f[k]
<1> DEFINE F(k) == IF k = 0 THEN << >>
                   ELSE IF k \in A THEN Append(f[k - 1], s[k]) ELSE f[k - 1]
<1>1. f = [k \in 0 .. n |-> F(k)]
  BY DEF Picks
<1>2. \A k \in 0 .. n : f[k] = F(k)
  <2> HIDE DEF F
  <2> QED BY <1>1
<1>3. 0 \in 0 .. n /\ \A k \in Nat : k + 1 # 0 /\ (k + 1) - 1 = k
  OBVIOUS
<1> QED BY <1>2, <1>3

(* What is picked depends on the elements and the places alone.            *)
Agree(s, t, A, B, n) == \A k \in 1 .. n : s[k] = t[k] /\ (k \in A <=> k \in B)

LEMMA PicksAgree ==
    ASSUME NEW f, NEW g, NEW s, NEW t, NEW A, NEW B, NEW m \in Nat, NEW n \in Nat, NEW l \in Nat,
           l <= m, l <= n, Picks(f, s, A, m), Picks(g, t, B, n), Agree(s, t, A, B, l)
    PROVE  f[l] = g[l]
<1> DEFINE S == {k \in Nat : k <= l => f[k] = g[k]}
<1>1. 0 \in S
  BY PicksStep
<1>2. ASSUME NEW k \in Nat, k \in S PROVE k + 1 \in S
  <2> SUFFICES ASSUME k + 1 <= l PROVE f[k + 1] = g[k + 1]
    OBVIOUS
  <2>1. k + 1 \in 0 .. m /\ k + 1 \in 0 .. n /\ k + 1 \in 1 .. l /\ f[k] = g[k]
    BY <1>2
  <2>2. f[k + 1] = IF k + 1 \in A THEN Append(f[k], s[k + 1]) ELSE f[k]
    BY <2>1, PicksStep
  <2>3. g[k + 1] = IF k + 1 \in B THEN Append(g[k], t[k + 1]) ELSE g[k]
    BY <2>1, PicksStep
  <2> QED BY <2>1, <2>2, <2>3 DEF Agree
<1>3. Nat \subseteq S
  <2> HIDE DEF S
  <2> QED BY <1>1, <1>2, SetInduction
<1> QED BY <1>3

LEMMA PickedType ==
    ASSUME NEW S, NEW s \in Seq(S), NEW A
    PROVE  Picked(s, A) \in Seq(S)
<1>1. Len(s) \in Nat /\ \A k \in 1 .. Len(s) : s[k] \in S
  BY LenProperties, ElementOfSeq
<1>2. PICK f : Picks(f, s, A, Len(s)) /\ Picked(s, A) = f[Len(s)]
  BY <1>1, PickedStages
<1> DEFINE T == {k \in Nat : k <= Len(s) => f[k] \in Seq(S)}
<1>3. 0 \in T
  <2>1. f[0] = << >>
    BY <1>1, <1>2, PicksStep
  <2> QED BY <2>1, EmptySeq
<1>4. ASSUME NEW k \in Nat, k \in T PROVE k + 1 \in T
  <2> SUFFICES ASSUME k + 1 <= Len(s) PROVE f[k + 1] \in Seq(S)
    OBVIOUS
  <2>1. k + 1 \in 0 .. Len(s) /\ k + 1 \in 1 .. Len(s) /\ f[k] \in Seq(S)
    BY <1>1, <1>4
  <2>2. f[k + 1] = IF k + 1 \in A THEN Append(f[k], s[k + 1]) ELSE f[k]
    BY <1>1, <1>2, <2>1, PicksStep
  <2> QED BY <1>1, <2>1, <2>2, AppendProperties
<1>5. Nat \subseteq T
  <2> HIDE DEF T
  <2> QED BY <1>3, <1>4, SetInduction
<1> QED BY <1>1, <1>2, <1>5

LEMMA PickedSame ==
    ASSUME NEW s, NEW A, NEW B, Len(s) \in Nat, \A k \in 1 .. Len(s) : k \in A <=> k \in B
    PROVE  Picked(s, A) = Picked(s, B)
<1>1. PICK f : Picks(f, s, A, Len(s)) /\ Picked(s, A) = f[Len(s)]
  BY PickedStages
<1>2. PICK g : Picks(g, s, B, Len(s)) /\ Picked(s, B) = g[Len(s)]
  BY PickedStages
<1>3. Len(s) <= Len(s) /\ Agree(s, s, A, B, Len(s))
  BY DEF Agree
<1>4. f[Len(s)] = g[Len(s)]
  BY <1>1, <1>2, <1>3, PicksAgree
<1> QED BY <1>1, <1>2, <1>4

LEMMA PickedAppend ==
    ASSUME NEW S, NEW s \in Seq(S), NEW e \in S, NEW A, NEW B, Agree(s, s, A, B, Len(s))
    PROVE  Picked(Append(s, e), B) =
              IF Len(s) + 1 \in B THEN Append(Picked(s, A), e) ELSE Picked(s, A)
<1> DEFINE t == Append(s, e)
           n == Len(s)
           m == n + 1
<1>1. /\ n \in Nat /\ Len(t) = m /\ t[m] = e
      /\ \A k \in 1 .. n : s[k] = t[k]
  BY LenProperties, AppendProperties
<1>2. m \in Nat /\ n <= n /\ n <= m /\ m \in 0 .. m
  BY <1>1
<1>3. PICK f : Picks(f, s, A, n) /\ Picked(s, A) = f[n]
  BY <1>1, PickedStages
<1>4. Agree(s, t, A, B, n)
  BY <1>1 DEF Agree
<1> HIDE DEF t, m
<1>5. PICK g : Picks(g, t, B, m) /\ Picked(t, B) = g[m]
  BY <1>1, <1>2, PickedStages
<1>6. g[m] = IF m \in B THEN Append(g[n], t[m]) ELSE g[n]
  BY <1>1, <1>2, <1>5, PicksStep DEF m
<1> HIDE DEF n
<1>7. f[n] = g[n]
  BY <1>1, <1>2, <1>3, <1>4, <1>5, PicksAgree
<1>8. Picked(t, B) = IF m \in B THEN Append(Picked(s, A), e) ELSE Picked(s, A)
  BY <1>1, <1>3, <1>5, <1>6, <1>7
<1> QED BY <1>8 DEF t, m, n

LEMMA PickedNone == \A A : Picked(<< >>, A) = << >>
<1> TAKE A
<1>1. Len(<< >>) = 0
  OBVIOUS
<1>2. PICK f : Picks(f, << >>, A, Len(<< >>)) /\ Picked(<< >>, A) = f[Len(<< >>)]
  BY <1>1, PickedStages
<1> QED BY <1>1, <1>2, PicksStep

-----------------------------------------------------------------------------
(* What waves write.                                                       *)

(* What a wave stores of its call and of the file it means.                *)
LEMMA MarshalledRequest ==
    ASSUME NEW s \in SlotOf, NEW w \in Waves, NEW c \in Call
    PROVE  LET m == Marshalled(s, w, c) IN
           /\ c.fn \in Copied => m.data.by = w /\ m.size = Length(c)
           /\ c.fn \in Passing => m.handle = handle[w]
BY DEF Marshalled, Copied

LEMMA RequestNext ==
    TypeInv /\ TicketInv /\ OwnerInv /\ RequestInv /\ [Next]_vars => RequestInv'
<1> SUFFICES ASSUME TypeInv, TicketInv, OwnerInv, RequestInv, [Next]_vars, NEW w \in Waves,
                    Holds(w)', status'[Cell(w)'] = 1
             PROVE  /\ Doing(w)'.fn \in Copied =>
                          /\ slot'[Cell(w)'].data.by = w
                          /\ slot'[Cell(w)'].size = Length(Doing(w)')
                    /\ Doing(w)'.fn \in Passing => slot'[Cell(w)'].handle = handle'[w]
  BY DEF RequestInv, Copied, Passing, Length, Smaller
<1> DEFINE i == Cell(w)
<1>1. /\ Holds(w) /\ i \in Slots /\ Doing(w) \in Call
      /\ i' = i /\ Doing(w)' = Doing(w) /\ handle'[w] = handle[w]
  BY HolderNext DEF Cell, Doing
<1>2. \/ Post(w)
      \/ status[i] = 1 /\ slot'[i] = slot[i]
  BY <1>1, HolderNext DEF Cell
<1>3. CASE Post(w)
  <2>1. slot'[i] = Marshalled(slot[i], w, Doing(w)) /\ slot[i] \in SlotOf
    BY <1>1, <1>3 DEF Post, TypeInv, SlotTypes
  <2> QED BY <1>1, <2>1, MarshalledRequest
<1>4. CASE status[i] = 1 /\ slot'[i] = slot[i]
  BY <1>1, <1>4 DEF RequestInv
<1> QED BY <1>2, <1>3, <1>4

(* How serving a slot changes a file, and the map of the files.            *)
LEMMA ServedFile ==
    ASSUME HandleInv, KnownInv, [Next]_vars, NEW p \in Paths
    PROVE  /\ files[p] # Null => files'[p] = files[p]
           /\ content'[p] # content[p] =>
                 \E i \in Slots :
                    /\ Serve(i) /\ files[p] = "w"
                    /\ \/ /\ ServeWrite(i) /\ slot[i].handle = p
                          /\ content'[p] = Append(content[p],
                                               [slot[i].data EXCEPT !.bytes = slot[i].size])
                       \/ /\ ServeWriteId(i)
                          /\ content'[p] = Append(content[p], [site |-> slot[i].arg])
<1>a. TypeInv /\ HostTypes /\ HandlesOpen
  BY DEF HandleInv, TypeInv
<1>1. files[p] # Null => files'[p] = files[p]
  BY <1>a, FilesStay
<1>2. SUFFICES ASSUME content'[p] # content[p]
      PROVE  \E i \in Slots :
                    /\ Serve(i) /\ files[p] = "w"
                    /\ \/ /\ ServeWrite(i) /\ slot[i].handle = p
                          /\ content'[p] = Append(content[p],
                                               [slot[i].data EXCEPT !.bytes = slot[i].size])
                       \/ /\ ServeWriteId(i)
                          /\ content'[p] = Append(content[p], [site |-> slot[i].arg])
  BY <1>1
<1>3. PICK i \in Slots : Serve(i)
  BY <1>2 DEF Next, TakeTicket, Post, Return, Finished, vars, host
<1>4. slot[i] \in SlotOf /\ Operands(slot[i])
  BY <1>a, <1>3 DEF TypeInv, SlotTypes, Serve
<1>5. ASSUME NEW f \in Paths \union {Null}, NEW r \in Record, content' = Appended(f, r),
             f # Null => Opened(f)
      PROVE  f = p /\ files[p] = "w" /\ content'[p] = Append(content[p], r)
  <2>1. f = p /\ p # Null
    <3>1. CASE f = Null
      BY <1>2, <1>5, <3>1 DEF Appended
    <3>2. CASE f # Null
      BY <1>2, <1>5, <1>a, <3>2, AppendedType, NullAssumption
    <3> QED BY <3>1, <3>2
  <2>2. files[p] # "r"
    BY <1>2, <1>5, <2>1 DEF Appended
  <2>3. files[p] = "w"
    BY <1>5, <1>a, <2>1, <2>2 DEF Opened, HostTypes, Modes
  <2> QED BY <1>5, <1>a, <2>1, <2>3, AppendedType
<1>6. CASE ServeOpen(i)
  <2>1. slot[i].path \in Paths
    BY <1>4, <1>6 DEF ServeOpen, Operands
  <2>2. files[slot[i].path] = Null /\ content' = [content EXCEPT ![slot[i].path] = << >>]
    BY <1>2, <1>6 DEF ServeOpen, host, Opened
  <2>3. Null # "w"
    BY NullAssumption
  <2>4. content[slot[i].path] = << >>
    BY <2>1, <2>2, <2>3 DEF KnownInv
  <2> QED BY <1>2, <1>a, <2>1, <2>2, <2>4 DEF HostTypes
<1>7. CASE ServeWrite(i)
  <2> DEFINE r == [slot[i].data EXCEPT !.bytes = slot[i].size]
  <2>1. r \in Record /\ slot[i].handle \in Paths \union {Null}
    BY <1>4, <1>7 DEF ServeWrite, Operands, SlotOf, Payload, Record
  <2>2. content' = Appended(slot[i].handle, r)
    BY <1>7 DEF ServeWrite
  <2>3. slot[i].handle # Null => Opened(slot[i].handle)
    BY <1>a DEF HandlesOpen
  <2> HIDE DEF r
  <2>4. slot[i].handle = p /\ files[p] = "w" /\ content'[p] = Append(content[p], r)
    BY <1>5, <2>1, <2>2, <2>3
  <2> QED BY <1>3, <1>7, <2>4 DEF r
<1>8. CASE ServeWriteId(i)
  <2> DEFINE r == [site |-> slot[i].arg]
  <2>1. r \in Record /\ primary \in Paths \union {Null}
    BY <1>a, <1>4, <1>8 DEF ServeWriteId, Operands, Record, HostTypes
  <2>2. content' = Appended(primary, r) /\ (primary # Null => Opened(primary))
    BY <1>a, <1>8 DEF ServeWriteId, HandlesOpen
  <2> HIDE DEF r
  <2>3. files[p] = "w" /\ content'[p] = Append(content[p], r)
    BY <1>5, <2>1, <2>2
  <2> QED BY <1>3, <1>8, <2>3 DEF r
<1>9. CASE ServeRead(i) \/ ServeClose(i)
  BY <1>2, <1>9 DEF ServeRead, ServeClose, host
<1> QED BY <1>3, <1>6, <1>7, <1>8, <1>9 DEF Serve

LEMMA KnownNext == HandleInv /\ KnownInv /\ [Next]_vars => KnownInv'
<1> SUFFICES ASSUME HandleInv, KnownInv, [Next]_vars PROVE KnownInv'
  OBVIOUS
<1>a. TypeInv
  BY DEF HandleInv
<1>1. ASSUME NEW w \in Waves, NEW k \in DOMAIN log'[w], log'[w][k].with # Null
      PROVE  files'[log'[w][k].with] # Null
  <2>1. CASE log'[w] = log[w]
    <3>1. log[w] \in Seq(Entry) /\ k \in 1 .. Len(log[w])
      BY <1>a, <2>1, LenProperties DEF TypeInv, WaveTypes
    <3>2. log[w][k] \in Entry
      BY <3>1, ElementOfSeq
    <3>3. log[w][k].with \in Paths /\ files[log[w][k].with] # Null
      BY <1>1, <2>1, <3>2 DEF KnownInv, Entry
    <3> QED BY <1>a, <2>1, <3>3, FilesStay
  <2>2. CASE log'[w] # log[w]
    <3> DEFINE n == Len(log[w])
    <3>1. /\ Return(w) /\ n \in Nat /\ DOMAIN log[w] = 1 .. n /\ k \in 1 .. n + 1
          /\ \A l \in 1 .. n : log'[w][l] = log[w][l]
          /\ log'[w][n + 1].with = handle[w]
      BY <1>1, <1>a, <2>2, LogGrows
    <3>2. handle[w] \in Paths \union {Null} /\ files' = files
      BY <1>a, <3>1 DEF TypeInv, WaveTypes, Return, host
    <3> HIDE DEF n
    <3>3. CASE k = n + 1
      BY <1>1, <3>1, <3>2, <3>3 DEF HandleInv, HandlesOpen, Opened
    <3>4. CASE k \in 1 .. n
      BY <1>1, <3>1, <3>2, <3>4 DEF KnownInv
    <3> QED BY <3>1, <3>3, <3>4
  <2> QED BY <2>1, <2>2
<1>2. ASSUME NEW p \in Paths, files'[p] # "w" PROVE content'[p] = << >>
  <2>1. files[p] # "w"
    BY <1>2, ServedFile, NullAssumption
  <2> QED BY <2>1, ServedFile DEF KnownInv
<1> QED BY <1>1, <1>2 DEF KnownInv

LEMMA ServicedNext ==
    ASSUME TypeInv, TicketInv, OwnerInv, [Next]_vars, NEW w \in Waves
    PROVE  /\ Serviced(w)' => /\ Holds(w) /\ Cell(w) \in Slots /\ Doing(w) \in Call
                              /\ todo'[w] = todo[w] /\ handle'[w] = handle[w]
                              /\ log'[w] = log[w]
                              /\ Serviced(w) \/ Serve(Cell(w))
           /\ Serviced(w) /\ ~ Serviced(w)' => Return(w)
           /\ Return(w) => Serviced(w) /\ ~ Serviced(w)'
<1> USE DEF TypeInv, WaveTypes, SlotTypes
<1>1. ASSUME Serviced(w)' PROVE Serviced(w) \/ Serve(Cell(w))
  <2>1. Holds(w) /\ ticket'[w] = ticket[w] /\ status'[Cell(w)'] = 2 /\ Cell(w)' = Cell(w)
    BY <1>1, HolderNext DEF Serviced, Cell
  <2> QED BY <1>1, <2>1, HolderNext DEF Serviced
<1>2. Serviced(w)' => /\ Holds(w) /\ Cell(w) \in Slots /\ Doing(w) \in Call
                      /\ todo'[w] = todo[w] /\ handle'[w] = handle[w] /\ log'[w] = log[w]
  BY HolderNext DEF Serviced
<1>3. ASSUME Return(w) PROVE Serviced(w) /\ ~ Serviced(w)'
  BY <1>3 DEF Return, Serviced, Holds
<1>4. ASSUME Serviced(w), ~ Return(w) PROVE Serviced(w)'
  <2>0. Holds(w) /\ Cell(w) \in Slots /\ status[Cell(w)] = 2
    BY <1>4, CellType DEF Serviced, Holds
  <2>1. SUFFICES ticket'[w] = ticket[w] /\ turn'[Cell(w)] = turn[Cell(w)] /\ status'[Cell(w)] = 2
    BY <2>0, <2>1 DEF Serviced, Holds, Cell
  <2>2. ASSUME NEW v \in Waves, TakeTicket(v)
        PROVE  ticket'[w] = ticket[w] /\ turn' = turn /\ status' = status
    BY <2>0, <2>2 DEF TakeTicket, Holds
  <2>3. ASSUME NEW v \in Waves, Post(v)
        PROVE  ticket' = ticket /\ turn' = turn /\ status'[Cell(w)] = 2
    BY <2>0, <2>3 DEF Post
  <2>4. ASSUME NEW v \in Waves, Return(v)
        PROVE  ticket'[w] = ticket[w] /\ turn'[Cell(w)] = turn[Cell(w)] /\ status'[Cell(w)] = 2
    <3>1. v # w /\ Cell(v) # Cell(w)
      BY <1>4, <2>0, <2>4 DEF Return, Holds, TicketInv
    <3> QED BY <2>0, <2>4, <3>1 DEF Return
  <2>5. ASSUME NEW i \in Slots, Serve(i)
        PROVE  ticket' = ticket /\ turn' = turn /\ status'[Cell(w)] = 2
    BY <2>0, <2>5, ServeFrame
  <2>6. ASSUME Finished \/ UNCHANGED vars
        PROVE  ticket' = ticket /\ turn' = turn /\ status' = status
    BY <2>6 DEF Finished, vars, ring
  <2> QED BY <2>0, <2>2, <2>3, <2>4, <2>5, <2>6 DEF Next
<1> QED BY <1>1, <1>2, <1>3, <1>4

(* The records of s that are by w.                                         *)
By(w, s) == Picked(s, {k \in DOMAIN s : IsOf(s[k], w)})

LEMMA ByAppend ==
    ASSUME NEW s \in Seq(Record), NEW r \in Record, NEW w
    PROVE  By(w, Append(s, r)) = IF IsOf(r, w) THEN Append(By(w, s), r) ELSE By(w, s)
<1> DEFINE t == Append(s, r)
           A == {k \in DOMAIN s : IsOf(s[k], w)}
           B == {k \in DOMAIN t : IsOf(t[k], w)}
           n == Len(s)
<1>1. /\ n \in Nat /\ DOMAIN s = 1 .. n /\ DOMAIN t = 1 .. n + 1
      /\ t[n + 1] = r /\ \A k \in 1 .. n : t[k] = s[k]
  BY LenProperties, AppendProperties
<1>2. Agree(s, s, A, B, n)
  BY <1>1 DEF Agree
<1>3. n + 1 \in B <=> IsOf(r, w)
  BY <1>1
<1> HIDE DEF A, B
<1>4. Picked(t, B) = IF n + 1 \in B THEN Append(Picked(s, A), r) ELSE Picked(s, A)
  BY <1>2, PickedAppend
<1> QED BY <1>3, <1>4 DEF A, B, By

LEMMA RecordsAppend ==
    ASSUME NEW done \in Seq(Entry), NEW e \in Entry, NEW w
    PROVE  Records(w, Append(done, e)) = Append(Records(w, done), Landed(w, e.call))
<1> DEFINE more == Append(done, e)
           n == Len(done)
           R == {Landed(w, c) : c \in Call}
<1>1. /\ n \in Nat /\ DOMAIN done = 1 .. n /\ DOMAIN more = 1 .. n + 1
      /\ more[n + 1] = e /\ \A k \in 1 .. n : more[k] = done[k]
  BY LenProperties, AppendProperties
<1>2. Landed(w, e.call) \in R /\ \A k \in 1 .. n : Landed(w, done[k].call) \in R
  <2>1. e.call \in Call /\ \A k \in 1 .. n : done[k] \in Entry
    BY ElementOfSeq DEF Entry
  <2>2. \A k \in 1 .. n : done[k].call \in Call
    BY <2>1 DEF Entry
  <2> HIDE DEF n
  <2> QED BY <2>1, <2>2
<1>3. Records(w, done) = [k \in 1 .. n |-> Landed(w, done[k].call)]
  BY <1>1 DEF Records
<1>4. Records(w, more) = [k \in 1 .. n + 1 |-> Landed(w, more[k].call)]
  BY <1>1 DEF Records
<1> HIDE DEF more, n, R
<1>5. Records(w, done) \in Seq(R) /\ Len(Records(w, done)) = n
  BY <1>1, <1>2, <1>3
<1>6. Records(w, more) \in Seq(R) /\ Len(Records(w, more)) = n + 1
  <2>1. \A k \in 1 .. n + 1 : Landed(w, more[k].call) \in R
    BY <1>1, <1>2
  <2> QED BY <1>1, <1>4, <2>1
<1> DEFINE both == Append(Records(w, done), Landed(w, e.call))
<1>7. /\ both \in Seq(R) /\ Len(both) = n + 1
      /\ both[n + 1] = Landed(w, e.call)
      /\ \A k \in 1 .. n : both[k] = Records(w, done)[k]
  BY <1>2, <1>5, AppendProperties
<1> HIDE DEF both
<1>8. \A k \in 1 .. n + 1 : Records(w, more)[k] = both[k]
  BY <1>1, <1>3, <1>4, <1>7
<1>9. Records(w, more) = both
  BY <1>6, <1>7, <1>8, SeqEqual
<1> QED BY <1>9 DEF more, both

(* A write that lands adds its record to the file it means.                *)
LEMMA LandingStarts ==
    ASSUME HandleInv, TicketInv, OwnerInv, RequestInv, [Next]_vars, NEW w \in Waves,
           NEW p \in Paths, ~ Landing(w, p), Landing(w, p)'
    PROVE  /\ content'[p] = Append(content[p], Landed(w, Doing(w)))
           /\ Landed(w, Doing(w)) \in Record
<1> DEFINE i == Cell(w)
           c == Doing(w)
<1>a. TypeInv
  BY DEF HandleInv
<1>1. /\ Holds(w) /\ i \in Slots /\ c \in Call
      /\ Serviced(w) \/ Serve(i)
      /\ c.fn \in {"gpu_fwrite", "gpu_fwrite_256"} /\ handle[w] = p /\ files'[p] = "w"
  BY <1>a, ServicedNext DEF Landing, Doing
<1>2. files[p] = "w"
  <2>1. files[p] # Null
    BY <1>1, NullAssumption DEF HandleInv, HandlesOpen, Opened
  <2> QED BY <1>1, <1>a, <2>1, FilesStay
<1>3. Serve(i) /\ status[i] = 1
  BY <1>1, <1>2, <1>a, ServeFrame DEF Landing
<1>4. slot[i].opcode \in {"FWRITE", "FWRITE_PTR"} /\ slot[i] \in SlotOf /\ slot[i].data \in Payload
  <2>1. slot[i].opcode = Opcode(c.fn)
    BY <1>1, <1>3, <1>a, OwnRequest
  <2>2. Opcode(c.fn) \in {"FWRITE", "FWRITE_PTR"}
    BY <1>1, OpcodeType DEF Copied
  <2> QED BY <1>1, <1>3, <1>a, <2>1, <2>2 DEF TypeInv, SlotTypes, Operands
<1>5. slot[i].data.by = w /\ slot[i].size = Length(c) /\ slot[i].handle = p
  BY <1>1, <1>3 DEF RequestInv, Copied, Passing
<1> DEFINE r == [slot[i].data EXCEPT !.bytes = slot[i].size]
<1>6. content' = Appended(p, r)
  BY <1>3, <1>4, <1>5 DEF Serve, ServeOpen, ServeWrite, ServeRead, ServeClose, ServeWriteId
<1>7. r = Landed(w, c)
  BY <1>1, <1>4, <1>5 DEF Landed, Length, Payload
<1>8. r \in Record
  BY <1>4 DEF Record, Payload, SlotOf
<1> HIDE DEF r, c
<1>9. content'[p] = Append(content[p], r)
  BY <1>2, <1>6, <1>8, <1>a, NullAssumption, AppendedType DEF TypeInv
<1> QED BY <1>7, <1>8, <1>9 DEF c

(* Nothing else that is added to a file is by w.                           *)
LEMMA NothingElse ==
    ASSUME HandleInv, TicketInv, OwnerInv, RequestInv, KnownInv, [Next]_vars, NEW w \in Waves,
           NEW p \in Paths, Plain(w)', Landing(w, p)' => Landing(w, p), content'[p] # content[p]
    PROVE  \E r \in Record : ~ IsOf(r, w) /\ content'[p] = Append(content[p], r)
<1>a. TypeInv
  BY DEF HandleInv
<1>1. PICK i \in Slots :
         /\ Serve(i) /\ files[p] = "w"
         /\ \/ /\ ServeWrite(i) /\ slot[i].handle = p
               /\ content'[p] = Append(content[p], [slot[i].data EXCEPT !.bytes = slot[i].size])
            \/ /\ ServeWriteId(i)
               /\ content'[p] = Append(content[p], [site |-> slot[i].arg])
  BY ServedFile
<1>2. slot[i] \in SlotOf /\ Operands(slot[i]) /\ status[i] = 1
  BY <1>a, <1>1 DEF TypeInv, SlotTypes, Serve
<1>3. CASE ServeWriteId(i) /\ content'[p] = Append(content[p], [site |-> slot[i].arg])
  <2>1. [site |-> slot[i].arg] \in Record
    BY <1>2, <1>3 DEF ServeWriteId, Operands, Record
  <2>2. ~ IsOf([site |-> slot[i].arg], w)
    BY DEF IsOf
  <2> QED BY <1>3, <2>1, <2>2
<1>4. CASE /\ ServeWrite(i) /\ slot[i].handle = p
           /\ content'[p] = Append(content[p], [slot[i].data EXCEPT !.bytes = slot[i].size])
  <2> DEFINE r == [slot[i].data EXCEPT !.bytes = slot[i].size]
  <2>1. slot[i].data \in Payload /\ slot[i].opcode \in {"FWRITE", "FWRITE_PTR"}
    BY <1>2, <1>4 DEF ServeWrite, Operands
  <2>2. r \in Record /\ r.by = slot[i].data.by
    BY <1>2, <2>1 DEF Record, Payload, SlotOf
  <2>3. PICK v \in Waves : Holds(v) /\ Cell(v) = i /\ slot[i].opcode = Opcode(Doing(v).fn)
    BY <1>2 DEF OwnerInv
  <2>4. Doing(v) \in Call /\ Doing(v).fn \in Copied
    BY <1>a, <2>1, <2>3, DoingType, OpcodeType DEF Holds, TypeInv
  <2>5. r.by = v
    BY <1>2, <2>2, <2>3, <2>4 DEF RequestInv
  <2>6. v # w
    <3>1. SUFFICES ASSUME v = w PROVE FALSE
      OBVIOUS
    <3>2. Serviced(w)' /\ Doing(w)' = Doing(w) /\ handle'[w] = handle[w]
      <4>1. /\ ticket' = ticket /\ turn' = turn /\ todo' = todo /\ handle' = handle
            /\ status' = [status EXCEPT ![i] = 2]
        BY <1>a, <1>1, ServeFrame
      <4> QED BY <1>a, <2>3, <3>1, <4>1 DEF Serviced, Holds, Cell, Doing, TypeInv, SlotTypes
    <3>3. Doing(w).fn \in {"gpu_fwrite", "gpu_fwrite_256"}
      BY <2>4, <3>1, <3>2 DEF Plain, Copied
    <3>4. handle[w] = p
      BY <1>2, <1>4, <2>3, <3>1, <3>3 DEF RequestInv, Passing
    <3>5. files'[p] = "w"
      BY <1>1, NullAssumption, ServedFile
    <3>6. Landing(w, p)'
      BY <3>2, <3>3, <3>4, <3>5 DEF Landing
    <3>7. ~ Landing(w, p)
      BY <1>2, <2>3, <3>1 DEF Landing, Serviced
    <3> QED BY <3>6, <3>7
  <2>7. ~ IsOf(r, w)
    BY <2>5, <2>6 DEF IsOf
  <2> QED BY <1>4, <2>2, <2>7
<1> QED BY <1>1, <1>3, <1>4

LEMMA FoundNext ==
    ASSUME HandleInv, TicketInv, OwnerInv, RequestInv, KnownInv, [Next]_vars, NEW w \in Waves,
           NEW p \in Paths, Plain(w)'
    PROVE  Found(w, p)' = IF ~ Landing(w, p) /\ Landing(w, p)'
                          THEN Append(Found(w, p), Landed(w, Doing(w))) ELSE Found(w, p)
<1>1. content[p] \in Seq(Record)
  BY DEF HandleInv, TypeInv, HostTypes
<1>a. Found(w, p) = By(w, content[p]) /\ Found(w, p)' = By(w, content'[p])
  BY DEF Found, By, IsOf
<1>2. CASE ~ Landing(w, p) /\ Landing(w, p)'
  <2> DEFINE r == Landed(w, Doing(w))
  <2>1. content'[p] = Append(content[p], r) /\ r \in Record
    BY <1>2, LandingStarts
  <2>2. IsOf(r, w)
    BY DEF Landed, IsOf
  <2> HIDE DEF r
  <2>3. Found(w, p)' = Append(Found(w, p), r)
    BY <1>1, <1>a, <2>1, <2>2, ByAppend
  <2> QED BY <1>2, <2>3 DEF r
<1>3. CASE Landing(w, p)' => Landing(w, p)
  <2>1. CASE content'[p] = content[p]
    BY <1>3, <1>a, <2>1
  <2>2. CASE content'[p] # content[p]
    <3>1. PICK r \in Record : ~ IsOf(r, w) /\ content'[p] = Append(content[p], r)
      BY <1>3, <2>2, NothingElse
    <3>2. Found(w, p)' = Found(w, p)
      BY <1>1, <1>a, <3>1, ByAppend
    <3> QED BY <1>3, <3>2
  <2> QED BY <2>1, <2>2
<1> QED BY <1>2, <1>3

(* What a wave is known to have written to p grows when the call returns.  *)
LEMMA WrittenNext ==
    ASSUME HandleInv, TicketInv, OwnerInv, KnownInv, [Next]_vars, NEW w \in Waves, NEW p \in Paths
    PROVE  /\ Written(w, p) \in Seq(Entry)
           /\ Records(w, Written(w, p))' =
                 IF Landing(w, p) /\ ~ Landing(w, p)'
                 THEN Append(Records(w, Written(w, p)), Landed(w, Doing(w)))
                 ELSE Records(w, Written(w, p))
<1> DEFINE A == {k \in DOMAIN log[w] : IsWrite(log[w][k], p)}
           B == {k \in DOMAIN log'[w] : IsWrite(log[w][k], p)'}
           done == Picked(log[w], A)
           n == Len(log[w])
<1>a. TypeInv /\ log[w] \in Seq(Entry) /\ n \in Nat /\ DOMAIN log[w] = 1 .. n
  BY LenProperties DEF HandleInv, TypeInv, WaveTypes
<1>b. done \in Seq(Entry)
  BY <1>a, PickedType
<1>c. Written(w, p) = done /\ Written(w, p)' = Picked(log'[w], B)
  BY DEF Written, IsWrite
<1>d. Records(w, Written(w, p))' = Records(w, Picked(log'[w], B))
  BY <1>c DEF Records, Landed, Smaller
<1>1. \A k \in DOMAIN log[w] : log[w][k].with = p => (files'[p] = "w" <=> files[p] = "w")
  BY <1>a, FilesStay, NullAssumption DEF KnownInv
<1>2. CASE log'[w] = log[w]
  <2>1. ~ Return(w)
    <3>1. SUFFICES ASSUME Return(w) PROVE FALSE
      OBVIOUS
    <3>2. PICK e : log'[w] = Append(log[w], e)
      BY <1>a, <3>1 DEF Return, TypeInv, WaveTypes
    <3>3. Len(Append(log[w], e)) = Len(log[w]) + 1
      BY <1>a
    <3> QED BY <1>2, <1>a, <3>2, <3>3
  <2>2. Landing(w, p) => Landing(w, p)'
    <3>1. ASSUME Landing(w, p) PROVE Landing(w, p)'
      <4>1. Serviced(w)' /\ Doing(w)' = Doing(w) /\ handle'[w] = handle[w]
        BY <1>a, <2>1, <3>1, ServicedNext DEF Landing, Doing
      <4>2. files'[p] = "w"
        BY <1>a, <3>1, FilesStay, NullAssumption DEF Landing
      <4> QED BY <3>1, <4>1, <4>2 DEF Landing
    <3> QED BY <3>1
  <2>3. \A k \in 1 .. n : k \in A <=> k \in B
    BY <1>1, <1>2, <1>a DEF IsWrite
  <2> HIDE DEF A, B
  <2>4. Picked(log[w], A) = Picked(log[w], B)
    BY <1>a, <2>3, PickedSame
  <2> QED BY <1>2, <1>b, <1>c, <1>d, <2>2, <2>4
<1>3. CASE log'[w] # log[w]
  <2>1. PICK e \in Entry : /\ e.call = Doing(w) /\ e.with = handle[w]
                           /\ log'[w] = Append(log[w], e)
    BY <1>3, <1>a, LogAppends
  <2>2. Return(w) /\ Serviced(w) /\ ~ Serviced(w)' /\ files' = files
    BY <1>3, <1>a, LogAppends, ServicedNext DEF Return, host
  <2>3. ~ Landing(w, p)' /\ (IsWrite(e, p) <=> Landing(w, p))
    BY <2>1, <2>2 DEF Landing, IsWrite
  <2>4. /\ DOMAIN log'[w] = 1 .. n + 1 /\ log'[w][n + 1] = e
        /\ \A k \in 1 .. n : log'[w][k] = log[w][k]
    BY <1>a, <2>1, AppendProperties
  <2>5. Agree(log[w], log[w], A, B, n)
    BY <1>a, <2>2, <2>4 DEF IsWrite, Agree
  <2>6. n + 1 \in B <=> IsWrite(e, p)
    BY <1>a, <2>2, <2>4 DEF IsWrite
  <2> HIDE DEF A, B
  <2>7. Picked(log'[w], B) = IF n + 1 \in B THEN Append(done, e) ELSE done
    <3>1. \A s \in Seq(Entry) : Agree(s, s, A, B, Len(s)) =>
             Picked(Append(s, e), B) =
                IF Len(s) + 1 \in B THEN Append(Picked(s, A), e) ELSE Picked(s, A)
      BY PickedAppend
    <3> QED BY <1>a, <2>1, <2>5, <3>1
  <2>8. Records(w, Append(done, e)) = Append(Records(w, done), Landed(w, Doing(w)))
    BY <1>b, <2>1, RecordsAppend
  <2> QED BY <1>b, <1>c, <1>d, <2>3, <2>6, <2>7, <2>8
<1> QED BY <1>2, <1>3, <1>b, <1>c

LEMMA PlainNext ==
    ASSUME HandleInv, TicketInv, OwnerInv, [Next]_vars, NEW w \in Waves, Plain(w)'
    PROVE  Plain(w)
<1>a. TypeInv
  BY DEF HandleInv
<1>1. CASE log'[w] = log[w] /\ ~ Return(w)
  <2>1. Serviced(w) => Doing(w).fn # "hc_write"
    BY <1>1, <1>a, ServicedNext DEF Plain, Doing
  <2> QED BY <1>1, <2>1 DEF Plain
<1>2. CASE log'[w] # log[w]
  <2> DEFINE n == Len(log[w])
  <2>1. /\ n \in Nat /\ DOMAIN log[w] = 1 .. n /\ DOMAIN log'[w] = 1 .. n + 1
        /\ \A k \in 1 .. n : log'[w][k] = log[w][k]
        /\ log'[w][n + 1].call = Doing(w)
    BY <1>2, <1>a, LogGrows
  <2> HIDE DEF n
  <2>2. Doing(w).fn # "hc_write"
    BY <2>1 DEF Plain
  <2> QED BY <2>1, <2>2 DEF Plain
<1>3. CASE log'[w] = log[w] /\ Return(w)
  <2>1. log[w] \in Seq(Entry)
    BY <1>a DEF TypeInv, WaveTypes
  <2>2. PICK e : log'[w] = Append(log[w], e)
    BY <1>3, <1>a DEF Return, TypeInv, WaveTypes
  <2>3. Len(Append(log[w], e)) = Len(log[w]) + 1 /\ Len(log[w]) \in Nat
    BY <2>1
  <2> QED BY <1>3, <2>2, <2>3
<1> QED BY <1>1, <1>2, <1>3

LEMMA LandedNext == LandInv /\ [Next]_vars => LandedInv'
<1> SUFFICES ASSUME LandInv, [Next]_vars, NEW w \in Waves, NEW p \in Paths, Plain(w)'
             PROVE  Found(w, p)' =
                       IF Landing(w, p)'
                       THEN Append(Records(w, Written(w, p))', Landed(w, Doing(w))')
                       ELSE Records(w, Written(w, p))'
  BY DEF LandedInv
<1>a. /\ HandleInv /\ TypeInv /\ TicketInv /\ OwnerInv /\ RequestInv /\ KnownInv /\ LandedInv
  BY DEF LandInv, HandleInv
<1>1. Found(w, p) = IF Landing(w, p)
                    THEN Append(Records(w, Written(w, p)), Landed(w, Doing(w)))
                    ELSE Records(w, Written(w, p))
  BY <1>a, PlainNext DEF LandedInv
<1>2. Found(w, p)' = IF ~ Landing(w, p) /\ Landing(w, p)'
                     THEN Append(Found(w, p), Landed(w, Doing(w))) ELSE Found(w, p)
  BY <1>a, FoundNext
<1>3. Records(w, Written(w, p))' =
         IF Landing(w, p) /\ ~ Landing(w, p)'
         THEN Append(Records(w, Written(w, p)), Landed(w, Doing(w)))
         ELSE Records(w, Written(w, p))
  BY <1>a, WrittenNext
<1>4. Landing(w, p)' => Landed(w, Doing(w))' = Landed(w, Doing(w))
  BY <1>a, ServicedNext DEF Landing, Landed, Doing, Smaller
<1> QED BY <1>1, <1>2, <1>3, <1>4

LEMMA LandInvariant == Spec => []LandInv
<1>1. Init => TicketInv /\ OwnerInv /\ RequestInv /\ KnownInv /\ LandedInv
  <2> SUFFICES ASSUME Init PROVE TicketInv /\ OwnerInv /\ RequestInv /\ KnownInv /\ LandedInv
    OBVIOUS
  <2>1. TicketInv /\ OwnerInv
    BY DEF Init, TicketInv, OwnerInv
  <2>2. /\ \A w \in Waves : log[w] = << >> /\ ticket[w] = Null
        /\ \A p \in Paths : content[p] = << >>
    BY DEF Init
  <2>3. RequestInv
    BY <2>2 DEF RequestInv, Holds
  <2>4. DOMAIN << >> = {}
    OBVIOUS
  <2>5. KnownInv
    BY <2>2, <2>4 DEF KnownInv
  <2>6. ASSUME NEW w \in Waves, NEW p \in Paths
        PROVE  Found(w, p) = << >> /\ Records(w, Written(w, p)) = << >> /\ ~ Landing(w, p)
    <3>1. Found(w, p) = << >> /\ Written(w, p) = << >>
      BY <2>2, PickedNone DEF Found, Written
    <3>2. Records(w, << >>) = << >>
      BY <2>4 DEF Records
    <3> QED BY <2>2, <3>1, <3>2 DEF Landing, Serviced, Holds
  <2>7. LandedInv
    BY <2>6 DEF LandedInv
  <2> QED BY <2>1, <2>3, <2>5, <2>7
<1>2. LandInv /\ [Next]_vars => LandInv'
  BY TypeNext, HandlesNext, TicketNext, OwnerNext, RequestNext, KnownNext, LandedNext
  DEF LandInv, HandleInv
<1> QED BY <1>1, <1>2, HandleInvariant, PTL DEF Spec, LandInv

-----------------------------------------------------------------------------
(* Whatever the waves' programs send in the fields they share, the host    *)
(* finds statuses, handles and files of their types.                       *)
THEOREM FilesTypes == Spec => []TypeOK
<1>1. TypeInv => TypeOK
  BY DEF TypeInv, WaveTypes, SlotTypes, HostTypes, SlotOf, Modes, TypeOK
<1> QED BY <1>1, TypeInvariant, PTL

(* No handle the host can be asked to use is ever stale, for any number of *)
(* waves, slots and files: the host never closes a file before it ends.    *)
THEOREM NoStaleHandle == Spec => []HandlesOpen
<1>1. HandleInv => HandlesOpen
  BY DEF HandleInv
<1> QED BY <1>1, HandleInvariant, PTL

(* A wave that has opened the trace gets each site id it logs from then on *)
(* into the primary file, whoever used its slots before.                   *)
THEOREM SiteIdsReachPrimary == Spec => []SiteIdsKept
<1>1. SiteInv => SiteIdsKept
  BY DEF SiteInv, StoredInv, Stored, SiteIdsKept
<1> QED BY <1>1, SiteInvariant, PTL

(* What a wave writes to a handle is in that file and nothing else of it   *)
(* is, in the wave's order and at the length its calls promise, as long as *)
(* it writes none of the trace's messages, which carry no handle.          *)
THEOREM WritesReachFile == Spec => []WritesLand
<1>1. LandInv => WritesLand
  <2> SUFFICES ASSUME LandInv, NEW w \in Waves, NEW p \in Paths, Idle(w),
                      \A k \in DOMAIN log[w] : log[w][k].call.fn # "hc_write"
               PROVE  Found(w, p) = Records(w, Written(w, p))
    BY DEF WritesLand, Records, Landed
  <2>1. ~ Serviced(w)
    BY DEF Idle, Serviced, Holds
  <2>2. Plain(w) /\ ~ Landing(w, p)
    BY <2>1 DEF Plain, Landing
  <2> QED BY <2>2 DEF LandInv, LandedInv
<1> QED BY <1>1, LandInvariant, PTL
=============================================================================
