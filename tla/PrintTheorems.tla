---------------------------- MODULE PrintTheorems ----------------------------
(***************************************************************************)
(* PrintBuffer is memory-safe for every program of disciplined steps, every *)
(* size and every INT_MAX; and when the steps put a text together, it       *)
(* hands out that text.                                                     *)
(***************************************************************************)
EXTENDS PrintBuffer, LeastNumber

\* The inductive invariant: before the first block nothing is held, and a
\* print goes on only while it has a buffer.
IInv ==
    /\ TypeOK /\ WritesInside /\ BuffersFreedOnce
    /\ pc = "run" => held
    /\ pc = "start" => ~held /\ blocks = 0 /\ high = 0

\* The running step is one of the job's, and a disciplined one.
LEMMA RunningStep ==
    ASSUME TypeOK, Running
    PROVE  Op \in Step /\ Disciplined(Op) /\ todo \in 1..Len(job.ops)
  BY JobAssumption DEF TypeOK, Running, Op, job

\* A put writes and advances by natural numbers no larger than what it needs.
LEMMA PutStep ==
    ASSUME TypeOK, Running, Op.do = "put"
    PROVE  /\ Op.need \in Nat /\ Op.bytes \in Nat /\ Op.advance \in Nat /\ Op.nul \in BOOLEAN
           /\ Op.advance <= Op.bytes /\ Op.bytes <= Op.need
  <1>1. Op \in Step /\ Disciplined(Op)
    BY RunningStep
  <1>2. Op # Update /\ Op # Stop
    <2>1. Update.do # "put" /\ Stop.do # "put"
      BY DEF Update, Stop
    <2> QED BY <2>1
  <1>3. Op \in [do : {"put"}, need : Nat, bytes : Nat, nul : BOOLEAN, advance : Nat]
    BY <1>1, <1>2 DEF Step
  <1> QED BY <1>1, <1>3 DEF Disciplined

\* What Write does to a length with room for what the step needs.
LEMMA WriteInside ==
    ASSUME TypeOK, Running, Op.do = "put",
           NEW newLength \in Nat, NEW top \in Nat,
           Needed <= newLength, top <= newLength, Write(newLength, top)
    PROVE  /\ length' = newLength /\ offset' \in Nat /\ written' \in Nat
           /\ terminated' \in BOOLEAN /\ high' \in Nat /\ high' <= newLength
  <1>1. /\ Op.need \in Nat /\ Op.bytes \in Nat /\ Op.advance \in Nat /\ Op.nul \in BOOLEAN
        /\ Op.advance <= Op.bytes /\ Op.bytes <= Op.need
    BY PutStep
  <1>2. offset \in Nat
    BY DEF TypeOK
  <1>3. offset + Op.bytes + 1 <= newLength
    BY <1>1, <1>2 DEF Needed
  <1> QED BY <1>1, <1>2, <1>3 DEF Write

\* A new size, when there is one, is large enough.
LEMMA NewSizeSuffices ==
    ASSUME TypeOK, Running, Op.do = "put", NewSize > 0
    PROVE  NewSize \in Nat /\ Needed <= NewSize /\ offset <= NewSize
  <1>1. Op.need \in Nat
    BY PutStep
  <1>2. offset \in Nat /\ MaxInt \in Nat
    BY SizeAssumption DEF TypeOK
  <1> QED BY <1>1, <1>2 DEF NewSize, Needed

\* Moving on to the next step leaves a step, or the end.
LEMMA NextStep ==
    ASSUME TypeOK, Running, Advance
    PROVE  todo' \in 1..(Len(job'.ops) + 1) /\ pc' = "run" /\ doc' = doc
  <1>1. todo \in 1..Len(job.ops)
    BY RunningStep
  <1>2. doc' = doc /\ todo' = todo + 1 /\ pc' = pc /\ pc = "run"
    BY DEF Advance, task, Running
  <1>3. Jobs[doc].ops \in Seq(Step)
    BY JobAssumption DEF TypeOK
  <1>4. Len(Jobs[doc].ops) \in Nat
    BY <1>3
  <1> QED BY <1>1, <1>2, <1>4 DEF job

\* The invariant holds at first.
LEMMA InitIInv == Init => IInv
  <1> SUFFICES ASSUME Init PROVE IInv
    OBVIOUS
  <1>1. doc \in DOMAIN Jobs /\ Len(job.ops) \in Nat
    BY JobAssumption DEF Init, job
  <1>2. size \in Nat /\ mode \in {"print", "buffered", "preallocated"}
    <2>1. Sizes \subseteq Nat /\ DefaultSize \in Nat
      BY SizeAssumption
    <2> QED BY <2>1 DEF Init
  <1>3. /\ offset = 0 /\ written = 0 /\ high = 0 /\ length = 0 /\ blocks = 0
        /\ pc = "start" /\ todo = 1
    BY DEF Init, Blank
  <1>4. reallocs \in BOOLEAN /\ held \in BOOLEAN /\ terminated \in BOOLEAN /\ overread \in BOOLEAN
    BY DEF Init, Blank
  <1>5. todo \in 1..(Len(job.ops) + 1)
    BY <1>1, <1>3
  <1>6. TypeOK
    BY <1>1, <1>2, <1>3, <1>4, <1>5 DEF TypeOK
  <1>7. ~held
    BY DEF Init
  <1>8. pc # "run"
    BY <1>3
  <1> QED BY <1>3, <1>6, <1>7, <1>8 DEF IInv, WritesInside, BuffersFreedOnce

\* Every step of the printer keeps the invariant.
LEMMA StepIInv == IInv /\ [Next]_vars => IInv'
  <1> SUFFICES ASSUME IInv, [Next]_vars PROVE IInv'
    OBVIOUS
  <1> USE DEF IInv
  <1>1. CASE Begin
    <2>1. TypeOK'
      BY <1>1 DEF Begin, TypeOK, task, content, job
    <2> QED BY <1>1, <2>1 DEF Begin, task, content, TypeOK, WritesInside, BuffersFreedOnce, Noalloc
  <1>2. CASE PutInPlace
    <2>1. Running /\ Op.do = "put" /\ held /\ Write(length, high) /\ Needed <= length
      BY <1>2 DEF PutInPlace, Stepping, Roomy
    <2>2. length \in Nat /\ high \in Nat /\ high <= length
      BY <2>1 DEF TypeOK, WritesInside
    <2>3. /\ length' = length /\ offset' \in Nat /\ written' \in Nat
          /\ terminated' \in BOOLEAN /\ high' \in Nat /\ high' <= length
      BY <2>1, <2>2, WriteInside
    <2>4. todo' \in 1..(Len(job'.ops) + 1) /\ pc' = "run" /\ doc' = doc
      BY <1>2, <2>1, NextStep DEF PutInPlace
    <2>5. held' = held /\ blocks' = blocks /\ overread' = overread /\ task' = task
      BY <1>2 DEF PutInPlace, Advance
    <2>6. TypeOK'
      BY <2>2, <2>3, <2>4, <2>5 DEF TypeOK, task
    <2> QED BY <2>1, <2>2, <2>3, <2>4, <2>5, <2>6
            DEF WritesInside, BuffersFreedOnce, Running, Noalloc, task
  <1>3. CASE PutAndGrow
    <2>1. Running /\ Op.do = "put" /\ held /\ Write(NewSize, offset) /\ NewSize > 0
      BY <1>3 DEF PutAndGrow, Stepping
    <2>2. NewSize \in Nat /\ Needed <= NewSize /\ offset <= NewSize /\ offset \in Nat
      BY <2>1, NewSizeSuffices DEF TypeOK
    <2>3. /\ length' = NewSize /\ offset' \in Nat /\ written' \in Nat
          /\ terminated' \in BOOLEAN /\ high' \in Nat /\ high' <= NewSize
      BY <2>1, <2>2, WriteInside
    <2>4. todo' \in 1..(Len(job'.ops) + 1) /\ pc' = "run" /\ doc' = doc
      BY <1>3, <2>1, NextStep DEF PutAndGrow
    <2>5. held' = held /\ blocks' = blocks /\ task' = task
      BY <1>3 DEF PutAndGrow, Advance
    <2>6. overread' \in BOOLEAN
      BY <1>3 DEF PutAndGrow
    <2>7. TypeOK'
      BY <2>2, <2>3, <2>4, <2>5, <2>6 DEF TypeOK, task
    <2> QED BY <2>1, <2>2, <2>3, <2>4, <2>5, <2>7
            DEF WritesInside, BuffersFreedOnce, Running, Noalloc, task
  <1>4. CASE GrowthRefused
    <2>1. Running /\ held /\ ~Noalloc
      BY <1>4 DEF GrowthRefused, Stepping
    <2>2. blocks = 1
      BY <2>1 DEF BuffersFreedOnce, Running
    <2>3. held' = FALSE /\ length' = 0 /\ blocks' = 0 /\ pc' = "fail"
      BY <1>4, <2>2 DEF GrowthRefused, GrowthFails, Abandon
    <2>4. /\ UNCHANGED <<doc, mode, size, reallocs, todo>>
          /\ UNCHANGED <<offset, written, terminated, overread, high>>
      BY <1>4 DEF GrowthRefused, Abandon, task, content
    <2>5. held' \in BOOLEAN
      BY <2>3
    <2>6. TypeOK'
      BY <2>3, <2>4, <2>5 DEF TypeOK, job
    <2>7. ~held'
      BY <2>3
    <2>8. pc' # "start" /\ pc' # "run" /\ pc' # "done" /\ pc' # "failed"
      BY <2>3
    <2>9. WritesInside'
      BY <2>7 DEF WritesInside
    <2>10. BuffersFreedOnce'
      BY <2>3, <2>7, <2>8 DEF BuffersFreedOnce
    <2> QED BY <2>6, <2>8, <2>9, <2>10
  <1>5. CASE PutRefused
    <2>1. TypeOK'
      BY <1>5 DEF PutRefused, Abandon, task, content, TypeOK, job
    <2> QED BY <1>5, <2>1 DEF PutRefused, Running, Abandon, task, WritesInside, BuffersFreedOnce, Noalloc
  <1>6. CASE UpdateOffset
    <2>1. Running
      BY <1>6 DEF UpdateOffset
    <2>2. todo' \in 1..(Len(job'.ops) + 1) /\ pc' = "run" /\ doc' = doc
      BY <1>6, <2>1, NextStep DEF UpdateOffset
    <2>3. /\ offset' = written /\ written' = written /\ terminated' = terminated
          /\ overread' \in BOOLEAN
          /\ held' = held /\ length' = length /\ high' = high /\ blocks' = blocks
          /\ task' = task
      BY <1>6 DEF UpdateOffset, MoveOffset, Advance
    <2>4. TypeOK'
      BY <2>2, <2>3 DEF TypeOK, task
    <2> QED BY <2>1, <2>2, <2>3, <2>4 DEF WritesInside, BuffersFreedOnce, Running, Noalloc, task
  <1>7. CASE Unprintable
    <2>1. TypeOK'
      BY <1>7 DEF Unprintable, Abandon, task, content, TypeOK, job
    <2> QED BY <1>7, <2>1 DEF Unprintable, Running, Abandon, task, WritesInside, BuffersFreedOnce, Noalloc
  <1>8. CASE Finish
    <2>1. pc = "run" /\ ~Noalloc /\ task' = task /\ todo' = todo
      BY <1>8 DEF Finish, Noalloc
    <2>2. written \in Nat /\ high \in Nat /\ offset' = written /\ written' = written
          /\ terminated' \in BOOLEAN /\ overread' \in BOOLEAN
      BY <1>8 DEF Finish, MoveOffset, TypeOK
    <2>3. CASE pc' = "done"
      <3>1. /\ length' = written + 1 /\ high' \in Nat /\ high' <= written + 1
            /\ held' = held /\ blocks' = blocks
        BY <1>8, <2>2, <2>3 DEF Finish
      <3>2. TypeOK'
        BY <2>1, <2>2, <2>3, <3>1 DEF TypeOK, task, job
      <3> QED BY <2>1, <2>2, <2>3, <3>1, <3>2 DEF WritesInside, BuffersFreedOnce, Noalloc, task
    <2>4. CASE pc' = "failed"
      <3>1. /\ held' = FALSE /\ blocks' = blocks - 1
            /\ length' = length /\ high' = high
        BY <1>8, <2>4 DEF Finish
      <3>2. blocks = 1
        BY <2>1 DEF BuffersFreedOnce
      <3>3. held' \in BOOLEAN
        BY <3>1
      <3>4. TypeOK'
        BY <2>1, <2>2, <2>4, <3>1, <3>2, <3>3 DEF TypeOK, task, job
      <3> QED BY <2>4, <3>1, <3>2, <3>4 DEF WritesInside, BuffersFreedOnce
    <2> QED BY <1>8, <2>3, <2>4 DEF Finish
  <1>9. CASE Return
    <2>1. TypeOK'
      BY <1>9 DEF Return, task, content, TypeOK, job
    <2>2. /\ pc = "run" /\ pc' = "done" /\ mode' = mode /\ mode # "print"
          /\ held' = held /\ length' = length /\ high' = high /\ blocks' = blocks
      BY <1>9 DEF Return, task
    <2>3. WritesInside'
      BY <2>2 DEF WritesInside
    <2>4. BuffersFreedOnce'
      BY <2>2 DEF BuffersFreedOnce, Noalloc
    <2> QED BY <2>1, <2>2, <2>3, <2>4
  <1>10. CASE Abort
    <2>1. /\ pc = "fail" /\ pc' = "failed" /\ UNCHANGED <<doc, mode, size, reallocs, todo>>
          /\ UNCHANGED <<length, offset, written, terminated, overread, high>>
      BY <1>10 DEF Abort, task, content
    <2>2. blocks' = 0 /\ held' \in BOOLEAN /\ (held' => held)
      <3>1. CASE held /\ ~Noalloc
        <4>1. blocks = 1
          BY <2>1, <3>1 DEF BuffersFreedOnce
        <4>2. blocks' = blocks - 1 /\ held' = FALSE
          BY <1>10, <3>1 DEF Abort
        <4>3. blocks' = 0
          BY <4>1, <4>2
        <4>4. held' \in BOOLEAN /\ ~held'
          BY <4>2, Zenon
        <4> QED BY <4>3, <4>4, Zenon
      <3>2. CASE ~(held /\ ~Noalloc)
        <4>1. blocks = 0
          BY <2>1, <3>2 DEF BuffersFreedOnce
        <4>2. blocks' = blocks /\ held' = held
          BY <1>10, <3>2 DEF Abort
        <4>3. held \in BOOLEAN
          BY DEF TypeOK
        <4>4. held' \in BOOLEAN /\ (held' => held)
          BY <4>2, <4>3, Zenon
        <4>5. blocks' = 0
          BY <4>1, <4>2
        <4> QED BY <4>4, <4>5, Zenon
      <3> QED BY <3>1, <3>2
    <2>3. TypeOK'
      BY <2>1, <2>2 DEF TypeOK, job
    <2>4. WritesInside'
      BY <2>1, <2>2 DEF WritesInside
    <2> QED BY <2>1, <2>2, <2>3, <2>4 DEF BuffersFreedOnce
  <1>11. CASE UNCHANGED vars
    BY <1>11 DEF vars, task, content, TypeOK, job, WritesInside, BuffersFreedOnce, Noalloc
  <1> QED BY <1>1, <1>2, <1>3, <1>4, <1>5, <1>6, <1>7, <1>8, <1>9, <1>10, <1>11 DEF Next

\* The invariant holds throughout.
THEOREM PrintInvariant == Spec => []IInv
  BY InitIInv, StepIInv, PTL DEF Spec

\* Every print state is of the right shape, whatever is printed.
THEOREM PrintTypeCorrect == Spec => []TypeOK
  <1>1. IInv => TypeOK
    BY DEF IInv
  <1> QED BY <1>1, PrintInvariant, PTL

\* No print writes outside its block, for any program of steps that keep to
\* what they reserve, any sizes and any INT_MAX.
THEOREM PrintWritesInside == Spec => []WritesInside
  <1>1. IInv => WritesInside
    BY DEF IInv
  <1> QED BY <1>1, PrintInvariant, PTL

\* No print leaks its buffer or frees it twice.
THEOREM PrintFreesOnce == Spec => []BuffersFreedOnce
  <1>1. IInv => BuffersFreedOnce
    BY DEF IInv
  <1> QED BY <1>1, PrintInvariant, PTL

-----------------------------------------------------------------------------
(* Reading: strlen, and the copy of the text into a larger block *)

\* A running print has room unless it began with none, and before strlen and
\* at the end there is a NUL, because the step before left one.
TextInv ==
    /\ OverreadsOnlyNothing
    /\ mode = "print" => size > 0
    /\ pc = "start" => todo = 1
    /\ pc = "run" /\ length = 0 => size = 0
    /\ pc = "run" /\ todo > 1 /\ LeavesText(job.ops[todo - 1]) => terminated

\* After a step of a job the step that was done is the one before the next.
LEMMA StepBefore ==
    ASSUME TypeOK, Running, Advance
    PROVE  pc' = "run" /\ task' = task /\ todo' > 1 /\ job'.ops[todo' - 1] = Op
  <1>1. todo \in 1..Len(job.ops)
    BY RunningStep
  <1>2. doc' = doc /\ todo' = todo + 1 /\ pc' = "run" /\ task' = task
    BY DEF Advance, task, Running
  <1>3. Len(job.ops) \in Nat
    BY JobAssumption DEF TypeOK, job
  <1>4. todo' > 1 /\ todo' - 1 = todo
    BY <1>1, <1>2, <1>3
  <1> QED BY <1>2, <1>4 DEF job, Op

\* Where strlen is called the text has its NUL.
LEMMA MeasuredText ==
    ASSUME TypeOK, TextInv, pc = "run",
           todo > Len(job.ops) \/ (Running /\ Op.do = "update")
    PROVE  terminated
  <1>1. Len(job.ops) \in Nat /\ todo \in 1..(Len(job.ops) + 1) /\ MeasuresText(job.ops)
    BY JobAssumption DEF TypeOK, job
  <1>2. todo = Len(job.ops) + 1 \/ job.ops[todo].do = "update"
    BY <1>1 DEF Op
  <1>3. todo > 1 /\ LeavesText(job.ops[todo - 1])
    BY <1>1, <1>2 DEF MeasuresText
  <1> QED BY <1>3 DEF TextInv

LEMMA InitTextInv == Init => TextInv
  <1> SUFFICES ASSUME Init PROVE TextInv
    OBVIOUS
  <1>1. pc = "start" /\ todo = 1 /\ ~overread /\ (mode = "print" => size = DefaultSize)
    BY DEF Init, Blank
  <1> QED BY <1>1, SizeAssumption DEF TextInv, OverreadsOnlyNothing

\* Every step keeps to the text it has.
LEMMA StepTextInv == IInv /\ TextInv /\ [Next]_vars => TextInv'
  <1> SUFFICES ASSUME IInv, TextInv, [Next]_vars PROVE TextInv'
    OBVIOUS
  <1>t. /\ TypeOK /\ length \in Nat /\ offset \in Nat /\ overread \in BOOLEAN
        /\ size \in Nat /\ terminated \in BOOLEAN
    BY DEF IInv, TypeOK
  <1>1. CASE Begin
    <2>1. /\ pc = "start" /\ task' = task /\ todo' = todo /\ content' = content
          /\ (pc' = "run" /\ length' = size) \/ pc' = "failed"
      BY <1>1 DEF Begin
    <2>2. todo' = 1 /\ pc' # "start"
      BY <2>1 DEF TextInv
    <2> QED BY <2>1, <2>2 DEF TextInv, OverreadsOnlyNothing, task, content
  <1>2. CASE PutInPlace
    <2>1. Running /\ Op.do = "put" /\ Roomy /\ Write(length, high) /\ Advance /\ overread' = overread
      BY <1>2 DEF PutInPlace, Stepping
    <2>2. pc' = "run" /\ task' = task /\ todo' > 1 /\ job'.ops[todo' - 1] = Op
      BY <1>t, <2>1, StepBefore
    <2>3. length' = length /\ terminated' = Op.nul /\ pc = "run"
      BY <2>1 DEF Write, Running
    <2>4. LeavesText(Op) => terminated'
      BY <2>1, <2>3 DEF LeavesText
    <2> QED BY <2>1, <2>2, <2>3, <2>4 DEF TextInv, OverreadsOnlyNothing, task
  <1>3. CASE PutAndGrow
    <2>1. /\ Running /\ Op.do = "put" /\ ~Noalloc /\ NewSize > 0 /\ OffsetValid
          /\ Write(NewSize, offset) /\ Advance /\ overread' = (overread \/ CopyOverreads)
      BY <1>3 DEF PutAndGrow, Stepping
    <2>2. pc' = "run" /\ task' = task /\ todo' > 1 /\ job'.ops[todo' - 1] = Op
      BY <1>t, <2>1, StepBefore
    <2>3. length' = NewSize /\ terminated' = Op.nul /\ pc = "run"
      BY <2>1 DEF Write, Running
    <2>4. LeavesText(Op) => terminated'
      BY <2>1, <2>3 DEF LeavesText
    <2>5. CopyOverreads => mode = "buffered" /\ size = 0 /\ ~reallocs
      <3> SUFFICES ASSUME CopyOverreads PROVE mode = "buffered" /\ size = 0 /\ ~reallocs
        OBVIOUS
      <3>1. length = 0 /\ ~reallocs
        BY <1>t, <2>1 DEF CopyOverreads, OffsetValid
      <3>2. size = 0
        BY <2>3, <3>1 DEF TextInv
      <3>3. mode # "print" /\ mode # "preallocated"
        BY <2>1, <3>2 DEF TextInv, Noalloc
      <3> QED BY <1>t, <3>1, <3>2, <3>3 DEF TypeOK
    <2>6. OverreadsOnlyNothing'
      <3>1. overread' => overread \/ CopyOverreads
        BY <2>1, Zenon
      <3>2. overread => mode = "buffered" /\ size = 0 /\ ~reallocs
        BY DEF TextInv, OverreadsOnlyNothing
      <3>3. mode' = mode /\ size' = size /\ reallocs' = reallocs
        BY <2>2 DEF task
      <3> QED BY <2>5, <3>1, <3>2, <3>3, Zenon DEF OverreadsOnlyNothing
    <2>7. length' # 0
      BY <2>1, <2>3
    <2> QED BY <2>2, <2>3, <2>4, <2>6, <2>7 DEF TextInv, task
  <1>4. CASE GrowthRefused
    BY <1>4 DEF GrowthRefused, Abandon, TextInv, OverreadsOnlyNothing, task, content
  <1>5. CASE PutRefused
    BY <1>5 DEF PutRefused, Abandon, TextInv, OverreadsOnlyNothing, task, content
  <1>6. CASE UpdateOffset
    <2>1. Running /\ Op.do = "update" /\ MoveOffset /\ Advance /\ length' = length /\ pc = "run"
      BY <1>6 DEF UpdateOffset, Running
    <2>2. pc' = "run" /\ task' = task /\ todo' > 1 /\ job'.ops[todo' - 1] = Op
      BY <1>t, <2>1, StepBefore
    <2>3. terminated
      BY <1>t, <2>1, MeasuredText
    <2>4. terminated' = terminated /\ overread' = overread
      BY <1>t, <2>1, <2>3 DEF MoveOffset
    <2> QED BY <2>1, <2>2, <2>3, <2>4 DEF TextInv, OverreadsOnlyNothing, task
  <1>7. CASE Unprintable
    BY <1>7 DEF Unprintable, Abandon, TextInv, OverreadsOnlyNothing, task, content
  <1>8. CASE Finish
    <2>1. pc = "run" /\ todo > Len(job.ops) /\ MoveOffset /\ task' = task /\ pc' \in {"done", "failed"}
      BY <1>8 DEF Finish
    <2>2. terminated
      BY <1>t, <2>1, MeasuredText
    <2>3. overread' = overread
      BY <1>t, <2>1, <2>2 DEF MoveOffset
    <2> QED BY <2>1, <2>3 DEF TextInv, OverreadsOnlyNothing, task
  <1>9. CASE Return
    BY <1>9 DEF Return, TextInv, OverreadsOnlyNothing, task, content
  <1>10. CASE Abort
    BY <1>10 DEF Abort, TextInv, OverreadsOnlyNothing, task, content
  <1>11. CASE UNCHANGED vars
    BY <1>11 DEF vars, task, content, TextInv, OverreadsOnlyNothing, job
  <1> QED BY <1>1, <1>2, <1>3, <1>4, <1>5, <1>6, <1>7, <1>8, <1>9, <1>10, <1>11 DEF Next

\* No strlen misses the NUL and no text is moved out of a block that is too
\* small for it, but for a prebuffer of no bytes without realloc.
THEOREM PrintReadsText == Spec => []OverreadsOnlyNothing
  <1>1. TextInv => OverreadsOnlyNothing
    BY DEF TextInv
  <1> QED BY <1>1, InitTextInv, StepTextInv, PrintInvariant, PTL DEF Spec

-----------------------------------------------------------------------------
(* The text: what a print has written is what its steps come to by themselves *)

Laid == [offset : Nat, text : Nat]

LEMMA LayType ==
    ASSUME NEW op \in Step, NEW x \in Laid
    PROVE  Lay(op, x) \in Laid
  <1>1. CASE op.do = "put"
    <2>1. op.advance \in Nat /\ op.bytes \in Nat
      <3>1. op # Update /\ op # Stop
        <4>1. Update.do # "put" /\ Stop.do # "put"
          BY DEF Update, Stop
        <4> QED BY <1>1, <4>1
      <3> QED BY <3>1 DEF Step
    <2> QED BY <1>1, <2>1 DEF Lay, Laid
  <1>2. CASE op.do # "put"
    BY <1>2 DEF Lay, Laid
  <1> QED BY <1>1, <1>2

\* The layout of a job, step by step.
LEMMA LayoutSteps ==
    ASSUME NEW ops \in Seq(Step)
    PROVE  /\ Layout(ops) \in [0..Len(ops) -> Laid]
           /\ Layout(ops)[0] = [offset |-> 0, text |-> 0]
           /\ \A k \in 1..Len(ops) : Layout(ops)[k] = Lay(ops[k], Layout(ops)[k - 1])
  <1> DEFINE n == Len(ops)
             b == [offset |-> 0, text |-> 0]
             step == [k \in 1..n |-> [x \in Laid |-> Lay(ops[k], x)]]
             laid[k \in 0..n] == IF k = 0 THEN b ELSE Lay(ops[k], laid[k - 1])
  <1>1. n \in Nat /\ b \in Laid
    BY DEF Laid
  <1>2. step \in [1..n -> [Laid -> Laid]]
    <2>1. \A k \in 1..n : ops[k] \in Step
      OBVIOUS
    <2>2. \A k \in 1..n : \A x \in Laid : Lay(ops[k], x) \in Laid
      BY <2>1, LayType
    <2> QED BY <2>2
  <1>3. PICK f \in [0..n -> Laid] : Iterates(f, b, step, n)
    <2> HIDE DEF step, b, n
    <2> QED BY <1>1, <1>2, IterateExists
  <1>4. f[0] = b /\ \A k \in 1..n : f[k] = Lay(ops[k], f[k - 1])
    <2>1. f[0] = b /\ \A k \in 1..n : f[k] = step[k][f[k - 1]] /\ f[k - 1] \in Laid
      BY <1>3 DEF Iterates
    <2> QED BY <2>1
  <1>5. f = [k \in 0..n |-> IF k = 0 THEN b ELSE Lay(ops[k], f[k - 1])]
    <2>1. ASSUME NEW k \in 0..n PROVE f[k] = IF k = 0 THEN b ELSE Lay(ops[k], f[k - 1])
      <3>1. k # 0 => k \in 1..n
        BY <1>1
      <3> QED BY <1>4, <3>1
    <2> QED BY <2>1
  <1>6. laid = [k \in 0..n |-> IF k = 0 THEN b ELSE Lay(ops[k], laid[k - 1])]
    BY <1>5
  <1>7. Layout(ops) = laid
    BY DEF Layout, laid
  <1> HIDE DEF laid
  <1>8. laid[0] = b /\ \A k \in 1..n : laid[k] = Lay(ops[k], laid[k - 1])
    <2> HIDE DEF b, n
    <2>1. 0 \in 0..n /\ \A k \in 1..n : k \in 0..n /\ k # 0
      BY <1>1
    <2> QED BY <1>6, <2>1
  <1>9. \A k \in 0..n : laid[k] \in Laid
    <2>1. \A k \in 1..n : ops[k] \in Step
      OBVIOUS
    <2>2. \A k \in 1..n : laid[k - 1] \in Laid => laid[k] \in Laid
      BY <1>8, <2>1, LayType
    <2> HIDE DEF n, b
    <2> QED BY <1>1, <1>8, <2>2, LoopInvariant
  <1>10. laid \in [0..n -> Laid]
    BY <1>6, <1>9
  <1> QED BY <1>7, <1>8, <1>10

\* A running print stands where the layout of its job says; a text is followed
\* by its NUL; and a step has failed in the client's block only for a reason.
LaidInv ==
    /\ pc = "start" => todo = 1 /\ offset = 0 /\ written = 0 /\ ~terminated
    /\ pc = "run" =>
         /\ offset = Layout(job.ops)[todo - 1].offset
         /\ written = Layout(job.ops)[todo - 1].text
         /\ \A k \in 1..(todo - 1) : job.ops[k].do # "stop"
         /\ terminated => high > written
         /\ Noalloc => length = size
    /\ Noalloc => size <= MaxInt
    /\ Noalloc /\ pc = "fail" => ~job.printable \/ size < job.width + 5
    /\ TextIsComplete /\ FiveBytesMoreAreEnough

LEMMA InitLaidInv == Init => LaidInv
  <1> SUFFICES ASSUME Init PROVE LaidInv
    OBVIOUS
  <1>1. pc = "start" /\ todo = 1 /\ offset = 0 /\ written = 0 /\ ~terminated
    BY DEF Init, Blank
  <1>2. Noalloc => size <= MaxInt
    <2>1. Noalloc => size \in Sizes
      BY DEF Init, Noalloc
    <2>2. \A s \in Sizes : s <= MaxInt
      BY SizeAssumption
    <2> QED BY <2>1, <2>2
  <1> QED BY <1>1, <1>2 DEF LaidInv, TextIsComplete, FiveBytesMoreAreEnough

\* A step that is done moves the layout on.
LEMMA NextLaid ==
    ASSUME TypeOK, Running, Advance, Op.do # "stop",
           \A k \in 1..(todo - 1) : job.ops[k].do # "stop"
    PROVE  /\ job' = job /\ todo' - 1 = todo /\ pc' = "run" /\ mode' = mode /\ size' = size
           /\ Layout(job.ops)[todo] = Lay(Op, Layout(job.ops)[todo - 1])
           /\ \A k \in 1..todo : job.ops[k].do # "stop"
  <1>1. todo \in 1..Len(job.ops) /\ job.ops \in Seq(Step) /\ Len(job.ops) \in Nat
    <2>1. job.ops \in Seq(Step)
      BY JobAssumption DEF TypeOK, job
    <2> QED BY <2>1, RunningStep
  <1>2. doc' = doc /\ todo' = todo + 1 /\ pc' = "run" /\ mode' = mode /\ size' = size
    BY DEF Advance, task, Running
  <1>3. Layout(job.ops)[todo] = Lay(Op, Layout(job.ops)[todo - 1])
    BY <1>1, LayoutSteps DEF Op
  <1>4. todo' - 1 = todo
    BY <1>1, <1>2
  <1>5. ASSUME NEW k \in 1..todo PROVE job.ops[k].do # "stop"
    <2>1. k = todo \/ k \in 1..(todo - 1)
      BY <1>1
    <2> QED BY <2>1 DEF Op
  <1> QED BY <1>2, <1>3, <1>4, <1>5 DEF job

\* In a block with five bytes to spare there is room for every step.
LEMMA RoomForStep ==
    ASSUME TypeOK, LaidInv, Running, Op.do = "put", SpellsText(job),
           Noalloc, job.printable, ~(size < job.width + 5)
    PROVE  Roomy /\ OffsetValid /\ Op.need <= MaxInt
  <1>1. todo \in 1..Len(job.ops)
    BY RunningStep
  <1>w. job.width \in Nat
    <2>1. job.ops \in Seq(Step)
      BY JobAssumption DEF TypeOK, job
    <2>2. Layout(job.ops)[Len(job.ops)] \in Laid
      BY <2>1, LayoutSteps
    <2> QED BY <2>2 DEF SpellsText, Laid
  <1>2. Layout(job.ops)[todo - 1].offset + job.ops[todo].need + 1 <= job.width + 5
    BY <1>1 DEF SpellsText, Op
  <1>3. offset + Op.need + 1 <= job.width + 5 /\ length = size /\ size <= MaxInt
    BY <1>2 DEF LaidInv, Running, Op
  <1>4. offset \in Nat /\ size \in Nat /\ Op.need \in Nat /\ MaxInt \in Nat
    BY PutStep, SizeAssumption DEF TypeOK
  <1> QED BY <1>w, <1>3, <1>4 DEF Roomy, Needed, OffsetValid

LEMMA StepLaidInv ==
    ASSUME \A d \in DOMAIN Jobs : SpellsText(Jobs[d])
    PROVE  IInv /\ TextInv /\ LaidInv /\ [Next]_vars => LaidInv'
  <1> SUFFICES ASSUME IInv, TextInv, LaidInv, [Next]_vars PROVE LaidInv'
    OBVIOUS
  <1>t. /\ TypeOK /\ length \in Nat /\ offset \in Nat /\ written \in Nat /\ high \in Nat
        /\ size \in Nat /\ terminated \in BOOLEAN /\ (pc = "run" => held)
    BY DEF IInv, TypeOK
  <1>j. SpellsText(job) /\ job.ops \in Seq(Step) /\ Len(job.ops) \in Nat
    <2>1. job.ops \in Seq(Step)
      BY <1>t, JobAssumption DEF TypeOK, job
    <2> QED BY <1>t, <2>1 DEF TypeOK, job
  <1>1. CASE Begin
    <2>1. /\ pc = "start" /\ todo' = todo /\ doc' = doc /\ mode' = mode /\ size' = size
          /\ offset' = offset /\ written' = written /\ terminated' = terminated
          /\ \/ pc' = "run" /\ length' = size
             \/ pc' = "failed" /\ ~Noalloc
      BY <1>1 DEF Begin, task, content
    <2>2. todo' = 1 /\ offset' = 0 /\ written' = 0 /\ ~terminated' /\ job' = job
      BY <2>1 DEF LaidInv, job
    <2>3. Layout(job.ops)[0] = [offset |-> 0, text |-> 0]
      BY <1>j, LayoutSteps
    <2>4. ASSUME pc' = "run" PROVE LaidInv'
      <3>1. /\ offset' = Layout(job'.ops)[todo' - 1].offset
            /\ written' = Layout(job'.ops)[todo' - 1].text
            /\ \A k \in 1..(todo' - 1) : job'.ops[k].do # "stop"
        BY <2>2, <2>3
      <3>2. length' = size'
        BY <2>1, <2>4
      <3> QED BY <2>1, <2>2, <2>4, <3>1, <3>2
              DEF LaidInv, TextIsComplete, FiveBytesMoreAreEnough, Noalloc
    <2>5. ASSUME pc' = "failed" PROVE LaidInv'
      BY <2>1, <2>5 DEF LaidInv, TextIsComplete, FiveBytesMoreAreEnough, Noalloc
    <2> QED BY <2>1, <2>4, <2>5
  <1>2. CASE PutInPlace \/ PutAndGrow
    <2>1. /\ Running /\ Op.do = "put" /\ Advance /\ pc = "run"
          /\ \/ Write(length, high) /\ length' = length
             \/ ~Noalloc /\ Write(NewSize, offset)
      BY <1>2 DEF PutInPlace, PutAndGrow, Stepping, Running, Write
    <2>2. Op.bytes \in Nat /\ Op.advance \in Nat
      BY <1>t, <2>1, PutStep
    <2>3. /\ job' = job /\ todo' - 1 = todo /\ pc' = "run" /\ mode' = mode /\ size' = size
          /\ Layout(job.ops)[todo] = Lay(Op, Layout(job.ops)[todo - 1])
          /\ \A k \in 1..todo : job.ops[k].do # "stop"
      BY <1>t, <2>1, NextLaid DEF LaidInv
    <2>4. offset' = offset + Op.advance /\ written' = offset + Op.bytes /\ terminated' = Op.nul
      BY <2>1 DEF Write
    <2>5. offset' = Layout(job.ops)[todo].offset /\ written' = Layout(job.ops)[todo].text
      BY <2>1, <2>3, <2>4 DEF LaidInv, Lay
    <2>6. terminated' => high' > written'
      <3> SUFFICES ASSUME Op.nul PROVE high' > written'
        BY <2>4
      <3>1. \E top \in Nat : high' = IF offset + Op.bytes + 1 > top THEN offset + Op.bytes + 1 ELSE top
        BY <1>t, <2>1 DEF Write
      <3>2. offset + Op.bytes \in Nat
        BY <1>t, <2>2
      <3> QED BY <2>4, <3>1, <3>2
    <2>7. Noalloc => length' = size
      BY <2>1 DEF LaidInv
    <2> QED BY <2>3, <2>5, <2>6, <2>7
            DEF LaidInv, TextIsComplete, FiveBytesMoreAreEnough, Noalloc
  <1>3. CASE GrowthRefused
    <2>1. ~Noalloc /\ pc' = "fail" /\ mode' = mode
      BY <1>3 DEF GrowthRefused, Abandon, task
    <2> QED BY <2>1 DEF LaidInv, TextIsComplete, FiveBytesMoreAreEnough, Noalloc
  <1>4. CASE PutRefused
    <2>1. /\ Running /\ Op.do = "put" /\ pc = "run" /\ pc' = "fail"
          /\ doc' = doc /\ mode' = mode /\ size' = size
          /\ \/ ~held \/ ~OffsetValid \/ Op.need > MaxInt
             \/ ~Roomy
      BY <1>4 DEF PutRefused, Running, Abandon, task
    <2>2. ASSUME Noalloc PROVE ~job.printable \/ size < job.width + 5
      <3> SUFFICES ASSUME job.printable, ~(size < job.width + 5) PROVE FALSE
        OBVIOUS
      <3>1. Roomy /\ OffsetValid /\ Op.need <= MaxInt
        BY <1>t, <1>j, <2>1, <2>2, RoomForStep
      <3>2. Op.need \in Nat /\ MaxInt \in Nat
        BY <1>t, <2>1, PutStep, SizeAssumption
      <3> QED BY <1>t, <2>1, <3>1, <3>2
    <2> QED BY <2>1, <2>2 DEF LaidInv, TextIsComplete, FiveBytesMoreAreEnough, Noalloc, job
  <1>5. CASE UpdateOffset
    <2>1. /\ Running /\ Op.do = "update" /\ Advance /\ pc = "run"
          /\ offset' = written /\ written' = written /\ terminated' = terminated
          /\ length' = length /\ high' = high
      BY <1>5 DEF UpdateOffset, MoveOffset, Running
    <2>2. /\ job' = job /\ todo' - 1 = todo /\ pc' = "run" /\ mode' = mode /\ size' = size
          /\ Layout(job.ops)[todo] = Lay(Op, Layout(job.ops)[todo - 1])
          /\ \A k \in 1..todo : job.ops[k].do # "stop"
      BY <1>t, <2>1, NextLaid DEF LaidInv
    <2>3. offset' = Layout(job.ops)[todo].offset /\ written' = Layout(job.ops)[todo].text
      BY <2>1, <2>2 DEF LaidInv, Lay
    <2> QED BY <2>1, <2>2, <2>3 DEF LaidInv, TextIsComplete, FiveBytesMoreAreEnough, Noalloc
  <1>6. CASE Unprintable
    <2>1. /\ Running /\ Op.do = "stop" /\ pc' = "fail" /\ doc' = doc /\ mode' = mode /\ size' = size
      BY <1>6 DEF Unprintable, Abandon, task
    <2>2. ~job.printable
      <3>1. todo \in 1..Len(job.ops)
        BY <1>t, <2>1, RunningStep
      <3> QED BY <1>j, <2>1, <3>1 DEF SpellsText, Op
    <2> QED BY <2>1, <2>2 DEF LaidInv, TextIsComplete, FiveBytesMoreAreEnough, Noalloc, job
  <1>7. ASSUME pc = "run", todo > Len(job.ops)
        PROVE  job.printable /\ terminated /\ written = job.width /\ high > written
    <2>1. todo = Len(job.ops) + 1
      BY <1>t, <1>j, <1>7 DEF TypeOK
    <2>2. todo - 1 = Len(job.ops)
      BY <1>j, <2>1
    <2>3. \A k \in 1..Len(job.ops) : job.ops[k].do # "stop"
      BY <1>7, <2>2 DEF LaidInv
    <2>4. job.printable
      BY <1>j, <2>3 DEF SpellsText
    <2>5. written = job.width
      BY <1>j, <1>7, <2>2, <2>4 DEF LaidInv, SpellsText
    <2>6. terminated
      BY <1>t, <1>7, MeasuredText
    <2>7. high > written
      BY <1>7, <2>6 DEF LaidInv
    <2> QED BY <2>4, <2>5, <2>6, <2>7
  <1>8. CASE Finish
    <2>1. /\ pc = "run" /\ todo > Len(job.ops) /\ mode = "print" /\ mode' = mode /\ doc' = doc
          /\ size' = size /\ written' = written /\ terminated' = terminated
          /\ \/ /\ pc' = "done" /\ length' = written + 1
                /\ high' = IF high > written + 1 THEN written + 1 ELSE high
             \/ pc' = "failed"
      BY <1>8 DEF Finish, MoveOffset, task
    <2>2. job.printable /\ terminated /\ written = job.width /\ high > written
      BY <1>7, <2>1
    <2>3. pc' = "done" => high' > written'
      BY <1>t, <2>1, <2>2
    <2>4. ~Noalloc' /\ job' = job /\ pc' # "start" /\ pc' # "run" /\ pc' # "fail"
      BY <2>1 DEF Noalloc, job
    <2>5. TextIsComplete'
      BY <2>1, <2>2, <2>3, <2>4 DEF TextIsComplete
    <2> QED BY <2>4, <2>5 DEF LaidInv, FiveBytesMoreAreEnough
  <1>9. CASE Return
    <2>1. /\ pc = "run" /\ todo > Len(job.ops) /\ mode # "print" /\ pc' = "done"
          /\ doc' = doc /\ mode' = mode /\ size' = size
          /\ written' = written /\ terminated' = terminated /\ high' = high
      BY <1>9 DEF Return, task, content
    <2>2. job.printable /\ terminated /\ written = job.width /\ high > written
      BY <1>7, <2>1
    <2> QED BY <2>1, <2>2 DEF LaidInv, TextIsComplete, FiveBytesMoreAreEnough, Noalloc, job
  <1>10. CASE Abort
    <2>1. pc = "fail" /\ pc' = "failed" /\ doc' = doc /\ mode' = mode /\ size' = size
      BY <1>10 DEF Abort, task
    <2> QED BY <2>1 DEF LaidInv, TextIsComplete, FiveBytesMoreAreEnough, Noalloc, job
  <1>11. CASE UNCHANGED vars
    BY <1>11 DEF vars, task, content, LaidInv, TextIsComplete, FiveBytesMoreAreEnough, Noalloc, job
  <1> QED BY <1>1, <1>2, <1>3, <1>4, <1>5, <1>6, <1>8, <1>9, <1>10, <1>11 DEF Next

\* Whatever is printed by steps that put its text together, by whichever entry
\* point, from a block of any size and however often it grows, a print that
\* succeeds hands out the whole text and its NUL.
THEOREM PrintHandsOutText ==
    ASSUME \A d \in DOMAIN Jobs : SpellsText(Jobs[d])
    PROVE  Spec => []TextIsComplete
  <1>1. IInv /\ TextInv /\ LaidInv /\ [Next]_vars => LaidInv'
    BY StepLaidInv
  <1>2. LaidInv => TextIsComplete
    BY DEF LaidInv
  <1> QED BY <1>1, <1>2, InitLaidInv, InitTextInv, StepTextInv, PrintInvariant, PTL DEF Spec

\* A block of the client's with five bytes to spare is never refused.
THEOREM FiveBytesSuffice ==
    ASSUME \A d \in DOMAIN Jobs : SpellsText(Jobs[d])
    PROVE  Spec => []FiveBytesMoreAreEnough
  <1>1. IInv /\ TextInv /\ LaidInv /\ [Next]_vars => LaidInv'
    BY StepLaidInv
  <1>2. LaidInv => FiveBytesMoreAreEnough
    BY DEF LaidInv
  <1> QED BY <1>1, <1>2, InitLaidInv, InitTextInv, StepTextInv, PrintInvariant, PTL DEF Spec
=============================================================================
