----------------------------- MODULE PrintBuffer -----------------------------
(***************************************************************************)
(* The output buffer of src/print.rs under cJSON_Print, cJSON_PrintBuffered *)
(* and cJSON_PrintPreallocated.  Printing a value is a sequence of steps:   *)
(* reserve room with ensure and write there, or move the offset to the end  *)
(* of the text with update_offset.  The first step that fails ends it all.  *)
(* Of the text only its length and its terminator are kept.                 *)
(***************************************************************************)
EXTENDS Integers, Sequences

CONSTANTS
    Jobs,          \* for every document, a record: ops are its steps; printable, whether
                   \* it has a text; width, how long that is
    Sizes,         \* the sizes a client asks for
    DefaultSize,   \* default_buffer_size
    MaxInt         \* INT_MAX

\* ensure(need); bytes characters and perhaps a NUL; offset += advance
Put(need, bytes, nul, advance) ==
    [do |-> "put", need |-> need, bytes |-> bytes, nul |-> nul, advance |-> advance]

\* update_offset
Update == [do |-> "update"]

\* a value that has no text, or is nested too deep
Stop == [do |-> "stop"]

Step == {Update, Stop} \cup
        [do : {"put"}, need : Nat, bytes : Nat, nul : BOOLEAN, advance : Nat]

\* a step writes no more than it reserves; ensure adds a byte for the NUL
Disciplined(op) == op.do = "put" => op.advance <= op.bytes /\ op.bytes <= op.need

\* the text so far ends in a NUL after such a step, if there is an after
LeavesText(op) == op.do = "stop" \/ (op.do = "put" /\ op.nul)

\* update_offset and the end of the job come right after a text
MeasuresText(ops) ==
    \A k \in 1..(Len(ops) + 1) :
        k = Len(ops) + 1 \/ ops[k].do = "update" => k > 1 /\ LeavesText(ops[k - 1])

ASSUME JobAssumption ==
    \A d \in DOMAIN Jobs :
        /\ Jobs[d].ops \in Seq(Step)
        /\ \A k \in 1..Len(Jobs[d].ops) : Disciplined(Jobs[d].ops[k])
        /\ MeasuresText(Jobs[d].ops)
\* a client gives sizes as an int
ASSUME SizeAssumption ==
    Sizes \subseteq 0..MaxInt /\ MaxInt \in Nat /\ DefaultSize \in Nat \ {0}

\* What the steps come to by themselves, with room for all of them: where the
\* offset and the end of the text are after one and after the first k.
Lay(op, x) ==
    IF op.do = "put" THEN [offset |-> x.offset + op.advance, text |-> x.offset + op.bytes]
    ELSE IF op.do = "update" THEN [offset |-> x.text, text |-> x.text]
    ELSE x

Layout(ops) ==
    LET laid[k \in 0..Len(ops)] ==
            IF k = 0 THEN [offset |-> 0, text |-> 0] ELSE Lay(ops[k], laid[k - 1])
    IN  laid

\* The steps go through when there is a text; then each piece begins where the
\* one before ends, they make up the text, and no reservation is larger than
\* the text and the four bytes cJSON.h allows for, and the NUL.
SpellsText(j) ==
    LET x == Layout(j.ops) IN
    /\ j.printable <=> \A k \in 1..Len(j.ops) : j.ops[k].do # "stop"
    /\ j.printable => x[Len(j.ops)].text = j.width
    /\ j.printable => \A k \in 1..Len(j.ops) : j.ops[k].do = "put" =>
           /\ x[k - 1].offset = x[k - 1].text
           /\ x[k - 1].offset + j.ops[k].need + 1 <= j.width + 5

VARIABLES
    doc,          \* what is printed
    mode,         \* the entry point: "print", "buffered" or "preallocated"
    size,         \* the size asked for
    reallocs,     \* hooks.reallocate is there
    pc,
    todo,         \* the next step of the job
    held,         \* p.buffer is not NULL
    length,       \* p.length
    offset,       \* p.offset
    written,      \* where the text ends
    terminated,   \* a NUL follows it
    high,         \* history: the end of the bytes written to the block
    blocks,       \* the blocks the library has allocated and not freed
    overread      \* history: bytes outside a block or a text were read

task == <<doc, mode, size, reallocs>>
content == <<offset, written, terminated, overread>>
vars == <<task, pc, todo, held, length, content, high, blocks>>

Noalloc == mode = "preallocated"
job == Jobs[doc]
Op == job.ops[todo]

-----------------------------------------------------------------------------
(* ensure: the room from the offset on, NUL included, that a step reserves *)

\* faulty variant: doubled before it is compared with the length
NeededDoubled == 2 * (Op.need + offset + 1)

Needed == Op.need + offset + 1

\* faulty variant: what is in the buffer already does not count
RoomyIgnoresOffset == Op.need < length

Roomy == Needed <= length

OffsetValid == length = 0 \/ offset < length

\* twice what is needed, as far as an int reaches; 0 when that is not enough
NewSize ==
    IF Needed <= MaxInt \div 2 THEN Needed * 2
    ELSE IF Needed <= MaxInt THEN MaxInt ELSE 0

\* faulty variant: the pointer to the freed block stays
GrowthFailsDangling == held

\* what becomes of p.buffer when no larger block is to be had
GrowthFails == FALSE

\* faulty variant: copies what is needed, not what is there
CopyOverreadsNeeded == ~reallocs /\ Needed > length

\* moving the text by hand copies offset + 1 bytes
CopyOverreads == ~reallocs /\ offset + 1 > length

-----------------------------------------------------------------------------
(* The steps *)

Write(newLength, top) ==
    LET end == offset + Op.bytes
        last == IF Op.nul THEN end + 1 ELSE end
    IN  /\ length' = newLength
        /\ offset' = offset + Op.advance
        /\ written' = end /\ terminated' = Op.nul
        /\ high' = IF last > top THEN last ELSE top

Running == pc = "run" /\ todo <= Len(job.ops)
Stepping == Running /\ Op.do = "put" /\ held /\ OffsetValid /\ Op.need <= MaxInt
Advance == todo' = todo + 1 /\ UNCHANGED <<task, pc>>
Abandon == pc' = "fail" /\ UNCHANGED <<task, todo>>

PutInPlace ==
    /\ Stepping /\ Roomy
    /\ Write(length, high)
    /\ Advance /\ UNCHANGED <<held, blocks, overread>>

\* a larger block takes the place of the old one and of the text in it
PutAndGrow ==
    /\ Stepping /\ ~Roomy /\ ~Noalloc /\ NewSize > 0
    /\ Write(NewSize, offset) /\ overread' = (overread \/ CopyOverreads)
    /\ Advance /\ UNCHANGED <<held, blocks>>

\* no larger block: the old one is freed
GrowthRefused ==
    /\ Stepping /\ ~Roomy /\ ~Noalloc /\ NewSize > 0
    /\ held' = GrowthFails /\ length' = 0 /\ blocks' = blocks - 1
    /\ Abandon /\ UNCHANGED <<content, high>>

\* ensure gives up and leaves the buffer as it is
PutRefused ==
    /\ Running /\ Op.do = "put"
    /\ \/ ~held \/ ~OffsetValid \/ Op.need > MaxInt
       \/ ~Roomy /\ (Noalloc \/ NewSize = 0)
    /\ Abandon /\ UNCHANGED <<held, length, content, high, blocks>>

\* faulty variant: the length of what strlen read is taken for the offset
MoveOffsetFromStart ==
    /\ offset' = written - offset /\ overread' = (overread \/ ~terminated)
    /\ UNCHANGED <<written, terminated>>

\* strlen from the offset on
MoveOffset ==
    /\ offset' = written /\ overread' = (overread \/ ~terminated)
    /\ UNCHANGED <<written, terminated>>

UpdateOffset ==
    /\ Running /\ Op.do = "update" /\ MoveOffset
    /\ Advance /\ UNCHANGED <<held, length, high, blocks>>

Unprintable ==
    /\ Running /\ Op.do = "stop"
    /\ Abandon /\ UNCHANGED <<held, length, content, high, blocks>>

-----------------------------------------------------------------------------
(* The entry points *)

Blank ==
    /\ offset = 0 /\ written = 0 /\ high = 0
    /\ terminated = FALSE /\ overread = FALSE

Init ==
    /\ doc \in DOMAIN Jobs /\ reallocs \in BOOLEAN
    /\ \/ mode = "print" /\ size = DefaultSize
       \/ mode \in {"buffered", "preallocated"} /\ size \in Sizes
    /\ pc = "start" /\ todo = 1
    /\ held = FALSE /\ length = 0 /\ Blank /\ blocks = 0

\* the first block, or the client's
Begin ==
    /\ pc = "start"
    /\ \/ pc' = "run" /\ held' = TRUE /\ length' = size
          /\ blocks' = IF Noalloc THEN 0 ELSE 1
       \/ ~Noalloc /\ pc' = "failed" /\ UNCHANGED <<held, length, blocks>>
    /\ UNCHANGED <<task, todo, content, high>>

\* print_impl gives back a block of the right size
Finish ==
    /\ pc = "run" /\ todo > Len(job.ops) /\ mode = "print"
    /\ MoveOffset
    /\ \/ /\ pc' = "done" /\ length' = written + 1
          /\ high' = IF high > written + 1 THEN written + 1 ELSE high
          /\ UNCHANGED <<held, blocks>>
       \/ /\ pc' = "failed" /\ held' = FALSE /\ blocks' = blocks - 1
          /\ UNCHANGED <<length, high>>
    /\ UNCHANGED <<task, todo>>

\* the others return what they have
Return ==
    /\ pc = "run" /\ todo > Len(job.ops) /\ mode # "print"
    /\ pc' = "done"
    /\ UNCHANGED <<task, todo, held, length, content, high, blocks>>

\* a failed print frees the buffer, if there is one left and it is not the
\* client's
Abort ==
    /\ pc = "fail"
    /\ pc' = "failed"
    /\ IF held /\ ~Noalloc THEN blocks' = blocks - 1 /\ held' = FALSE
       ELSE UNCHANGED <<held, blocks>>
    /\ UNCHANGED <<task, todo, length, content, high>>

Next ==
    \/ Begin \/ PutInPlace \/ PutAndGrow \/ GrowthRefused \/ PutRefused
    \/ UpdateOffset \/ Unprintable \/ Finish \/ Return \/ Abort

Spec == Init /\ [][Next]_vars

-----------------------------------------------------------------------------
(* Properties *)

TypeOK ==
    /\ doc \in DOMAIN Jobs /\ mode \in {"print", "buffered", "preallocated"}
    /\ size \in Nat /\ reallocs \in BOOLEAN
    /\ pc \in {"start", "run", "fail", "done", "failed"}
    /\ todo \in 1..(Len(job.ops) + 1)
    /\ held \in BOOLEAN /\ terminated \in BOOLEAN /\ overread \in BOOLEAN
    /\ length \in Nat /\ offset \in Nat /\ written \in Nat /\ high \in Nat
    /\ blocks \in {0, 1}

\* Whatever is printed, and however the buffer grows, nothing is written
\* outside the block: each step writes no more than ensure reserved, the NUL
\* included, and the offset never passes what was reserved.
WritesInside == held => high <= length

\* A print that fails, in ensure, in the last reallocation or at a value
\* without a text, has freed its buffer once; one that succeeds hands out one.
BuffersFreedOnce ==
    /\ pc = "failed" => blocks = 0
    /\ pc = "done" => blocks = IF Noalloc THEN 0 ELSE 1
    /\ pc \in {"run", "fail"} => blocks = IF held /\ ~Noalloc THEN 1 ELSE 0

\* strlen always finds a NUL, and a text is moved by hand only from a block
\* that holds it; the one exception is cJSON_PrintBuffered with a prebuffer
\* of no bytes and no realloc.
OverreadsOnlyNothing == overread => mode = "buffered" /\ size = 0 /\ ~reallocs

\* A print succeeds only for a value that has a text, and then the block holds
\* exactly that text and its NUL, however often it was moved on the way.
TextIsComplete ==
    pc = "done" =>
        /\ job.printable /\ terminated /\ written = job.width
        /\ high > written /\ (mode = "print" => length = written + 1)

\* "to be safe allocate 5 bytes more than you actually need" (cJSON.h): then
\* cJSON_PrintPreallocated succeeds.
FiveBytesMoreAreEnough ==
    Noalloc /\ pc = "failed" => ~job.printable \/ size < job.width + 5
=============================================================================
