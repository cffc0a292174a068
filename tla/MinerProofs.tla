---------------------------- MODULE MinerProofs ----------------------------
(***************************************************************************)
(* For any number of worker threads: m_pausers_count is the number of      *)
(* handlers that have paused the miner and not resumed it yet, and the     *)
(* template cache never mixes up two callers.                              *)
(*                                                                         *)
(* PausesBalanced is not inductive: Launch puts new workers in the place   *)
(* of the old ones, so none of these may be in handle_block_found then.    *)
(* The invariant therefore says when all workers are gone.                 *)
(***************************************************************************)
EXTENDS Miner, FiniteSetTheorems, TLAPS

\* The places of handle_block_found between its pause and its resume.
Busy == {"found", "update", "resume"}

AtWork == {w \in Workers : worker[w].at \in Busy}

Stopping == {"notify", "join"}

Shape ==
  /\ worker = [w \in Workers |-> worker[w]]
  /\ \A w \in Workers : worker[w] = [at |-> worker[w].at, b |-> worker[w].b, seen |-> worker[w].seen]
  /\ call = [c \in Callers |-> call[c]]
  /\ \A c \in Callers :
       call[c] = [at |-> call[c].at, b |-> call[c].b, diffic |-> call[c].diffic, cookie |-> call[c].cookie]

\* The control thread starts a miner only when it is stopped, and leaves a stop only when
\* all workers are gone.
Control ==
  /\ call["control"].at \notin {"out"} \cup Stopping => stop
  /\ stop /\ call["control"].at \notin Stopping => \A w \in Workers : worker[w].at = "gone"

IInv == Shape /\ PausesBalanced /\ Control

\* Nothing that the invariant speaks of changes.
Quiet ==
  /\ \A w \in Workers : worker'[w].at \in Busy <=> worker[w].at \in Busy
  /\ \A w \in Workers : worker[w].at = "gone" => worker'[w].at = "gone"
  /\ pausers' = pausers
  /\ call'["net"].at = "out" <=> call["net"].at = "out"

\* The control thread does not move.
ControlRests == stop' = stop /\ call'["control"].at = call["control"].at

\* The invariant in terms of AtWork.
LEMMA Balance ==
  PausesBalanced <=> pausers = Cardinality(AtWork) + (IF call["net"].at = "out" THEN 0 ELSE 1)
  BY DEF PausesBalanced, AtWork, Busy, At

\* The number of handlers at work is a natural number.
LEMMA WorkFinite == IsFiniteSet(AtWork) /\ Cardinality(AtWork) \in Nat
<1>1. AtWork \subseteq Workers
  BY DEF AtWork
<1> QED
  BY <1>1, FS_Subset, FS_CardinalityType, ThreadsAssumption

\* A quiet step of a thread other than the control thread keeps the invariant.
LEMMA QuietInv ==
  ASSUME IInv, Shape', Quiet, ControlRests
  PROVE  IInv'
<1>1. AtWork' = AtWork
  BY DEF Quiet, AtWork
<1>2. PausesBalanced'
  BY Zenon, <1>1, Balance DEF IInv, Quiet, PausesBalanced, AtWork, Busy, At
<1>3. Control'
  BY DEF IInv, Control, Quiet, ControlRests
<1> QED
  BY <1>2, <1>3 DEF IInv

\* The pause and the resume of handle_block_found.
LEMMA PauseInv ==
  ASSUME IInv, Shape', ControlRests, call' = call, NEW w \in Workers, worker[w].at # "gone",
         \A o \in Workers \ {w} : worker'[o].at = worker[o].at,
         \/ worker[w].at \notin Busy /\ worker'[w].at \in Busy /\ pausers' = pausers + 1
         \/ worker[w].at \in Busy /\ worker'[w].at \notin Busy /\ pausers' = Resumed
  PROVE  IInv'
<1>1. Control'
  BY DEF IInv, Control, ControlRests
<1>2. CASE worker[w].at \notin Busy /\ worker'[w].at \in Busy /\ pausers' = pausers + 1
  <2>1. AtWork' = AtWork \cup {w} /\ w \notin AtWork
    BY <1>2 DEF AtWork
  <2>2. Cardinality(AtWork') = Cardinality(AtWork) + 1
    BY Zenon, <2>1, WorkFinite, FS_AddElement
  <2>3. pausers' = Cardinality(AtWork') + (IF call'["net"].at = "out" THEN 0 ELSE 1)
    BY <1>2, <2>2, WorkFinite, Balance DEF IInv
  <2> QED
    BY <1>1, <2>3 DEF IInv, PausesBalanced, AtWork, Busy, At
<1>3. CASE worker[w].at \in Busy /\ worker'[w].at \notin Busy /\ pausers' = Resumed
  <2>1. AtWork' = AtWork \ {w} /\ w \in AtWork
    BY <1>3 DEF AtWork
  <2>2. Cardinality(AtWork') = Cardinality(AtWork) - 1
    BY Zenon, <2>1, WorkFinite, FS_RemoveElement
  <2>3. Cardinality(AtWork) > 0
    BY <2>1, WorkFinite, FS_EmptySet
  <2>4. pausers' = Cardinality(AtWork') + (IF call'["net"].at = "out" THEN 0 ELSE 1)
    BY <1>3, <2>2, <2>3, WorkFinite, Balance DEF IInv, Resumed
  <2> QED
    BY <1>1, <2>4 DEF IInv, PausesBalanced, AtWork, Busy, At
<1> QED
  BY <1>2, <1>3

\* All threads are outside at the start, and the workers gone.
LEMMA InitInv == Init => IInv
<1> SUFFICES ASSUME Init PROVE IInv
  OBVIOUS
<1>1. AtWork = {}
  BY DEF Init, AtWork, Busy, NewWorker
<1>2. call["net"].at = "out" /\ call["control"].at = "out"
  BY ThreadsAssumption DEF Init, TemplateInit, Idle
<1>3. PausesBalanced
  BY <1>1, <1>2, Balance, FS_EmptySet DEF Init
<1>4. Shape
  BY Zenon DEF Init, TemplateInit, Shape, Idle, NewWorker
<1>5. Control
  BY <1>2 DEF Init, Control, NewWorker
<1> QED
  BY <1>3, <1>4, <1>5 DEF IInv

\* The places inside create_block_template.
Creating == {"call", "copy", "fill", "cookie", "block", "address", "valid", "done"}

\* Only the place of caller c changes, to where.
Goes(c, where) ==
  /\ Shape'
  /\ call'[c].at = where
  /\ \A o \in Callers \ {c} : call'[o] = call[o]

\* A change of one caller's place and of its record.
LEMMA GoGoes ==
  ASSUME Shape, UNCHANGED worker, NEW c \in Callers, NEW where, Go(c, where)
  PROVE  Goes(c, where)
  BY DEF Shape, Goes, Go

\* Go, whatever happens to the workers.
LEMMA GoCall ==
  ASSUME Shape, NEW c \in Callers, NEW where, Go(c, where)
  PROVE  /\ call' = [o \in Callers |-> call'[o]]
         /\ \A o \in Callers \ {c} : call'[o] = call[o]
         /\ call'[c] = [at |-> where, b |-> call[c].b, diffic |-> call[c].diffic, cookie |-> call[c].cookie]
<1>1. call' = [o \in Callers |-> call'[o]] /\ \A o \in Callers \ {c} : call'[o] = call[o]
  BY DEF Shape, Go
<1>2. call'[c] = [call[c] EXCEPT !.at = where]
  BY DEF Shape, Go
<1>3. call[c] = [at |-> call[c].at, b |-> call[c].b, diffic |-> call[c].diffic, cookie |-> call[c].cookie]
  BY DEF Shape
<1> QED
  BY <1>1, <1>2, <1>3

\* The same for any change of its record.
LEMMA RecordGoes ==
  ASSUME Shape, UNCHANGED worker, NEW c \in Callers, NEW at, NEW b, NEW diffic, NEW k,
         call'[c] = [at |-> at, b |-> b, diffic |-> diffic, cookie |-> k],
         \A o \in Callers \ {c} : call'[o] = call[o],
         call' = [o \in Callers |-> call'[o]]
  PROVE  Goes(c, at)
<1>1. Shape'
  BY DEF Shape
<1> QED
  BY <1>1 DEF Goes

\* create_block_template is entered and left by others.
LEMMA CreateInside ==
  ASSUME Shape, UNCHANGED worker, NEW c \in Callers, create_block_template(c)
  PROVE  call[c].at \in Creating /\ \E where \in Creating : Goes(c, where)
<1>1. CASE FindCached(c)
  BY <1>1, GoGoes DEF FindCached, At, Creating
<1>2. CASE CopyCached(c)
  <2>1. Goes(c, "done")
    <3>1. call[c] = [at |-> call[c].at, b |-> call[c].b, diffic |-> call[c].diffic, cookie |-> call[c].cookie]
      BY DEF Shape
    <3>2. call'[c] = [at |-> "done", b |-> btc.block, diffic |-> btc.diffic, cookie |-> call[c].cookie]
      BY Zenon, <1>2, <3>1 DEF CopyCached, Shape
    <3>3. /\ \A o \in Callers \ {c} : call'[o] = call[o]
          /\ call' = [o \in Callers |-> call'[o]]
      BY Zenon, <1>2 DEF CopyCached, Shape
    <3> QED
      BY <3>2, <3>3, RecordGoes
  <2> QED
    BY <1>2, <2>1 DEF CopyCached, At, Creating
<1>3. CASE ReadTop(c)
  <2>1. Goes(c, "fill")
    <3>1. call[c] = [at |-> call[c].at, b |-> call[c].b, diffic |-> call[c].diffic, cookie |-> call[c].cookie]
      BY DEF Shape
    <3>2. call'[c] = [at |-> "fill", b |-> [NoBlock EXCEPT !.prev = tip], diffic |-> tip, cookie |-> call[c].cookie]
      BY Zenon, <1>3, <3>1 DEF ReadTop, Shape
    <3>3. /\ \A o \in Callers \ {c} : call'[o] = call[o]
          /\ call' = [o \in Callers |-> call'[o]]
      BY Zenon, <1>3 DEF ReadTop, Shape
    <3> QED
      BY <3>2, <3>3, RecordGoes
  <2> QED
    BY <1>3, <2>1 DEF ReadTop, At, Creating
<1>4. CASE Fill(c)
  <2>1. Goes(c, "cookie")
    <3>1. call[c] = [at |-> call[c].at, b |-> call[c].b, diffic |-> call[c].diffic, cookie |-> call[c].cookie]
      BY DEF Shape
    <3>2. call'[c] = [at |-> "cookie", b |-> [call[c].b EXCEPT !.txs = tip, !.pool = cookie, !.pays = Address[c]], diffic |-> call[c].diffic, cookie |-> call[c].cookie]
      BY Zenon, <1>4, <3>1 DEF Fill, Shape
    <3>3. /\ \A o \in Callers \ {c} : call'[o] = call[o]
          /\ call' = [o \in Callers |-> call'[o]]
      BY <1>4 DEF Fill, Shape
    <3> QED
      BY <3>2, <3>3, RecordGoes
  <2> QED
    BY <1>4, <2>1 DEF Fill, At, Creating
<1>5. CASE ReadCookie(c)
  <2>1. Goes(c, "block")
    <3>1. call[c] = [at |-> call[c].at, b |-> call[c].b, diffic |-> call[c].diffic, cookie |-> call[c].cookie]
      BY DEF Shape
    <3>2. call'[c] = [at |-> "block", b |-> call[c].b, diffic |-> call[c].diffic, cookie |-> cookie]
      BY Zenon, <1>5, <3>1 DEF ReadCookie, Shape
    <3>3. /\ \A o \in Callers \ {c} : call'[o] = call[o]
          /\ call' = [o \in Callers |-> call'[o]]
      BY <1>5 DEF ReadCookie, Shape
    <3> QED
      BY <3>2, <3>3, RecordGoes
  <2> QED
    BY <1>5, <2>1 DEF ReadCookie, At, Creating
<1>6. CASE WriteBlock(c) \/ WriteAddress(c) \/ WriteValid(c)
  BY <1>6, GoGoes DEF WriteBlock, WriteAddress, WriteValid, Write, At, Creating
<1> QED
  BY <1>1, <1>2, <1>3, <1>4, <1>5, <1>6 DEF create_block_template

\* Steps inside create_block_template, of any caller.
LEMMA CreateInv ==
  ASSUME IInv, NEW c \in Callers, CreateStep(c)
  PROVE  IInv'
<1>1. UNCHANGED miner_vars /\ create_block_template(c)
  BY DEF CreateStep
<1>2. call[c].at \in Creating /\ \E where \in Creating : Goes(c, where)
  BY <1>1, CreateInside DEF IInv, miner_vars
<1>3. Quiet
  BY <1>1, <1>2, ThreadsAssumption DEF Quiet, Goes, miner_vars, Creating
<1>4. CASE c # "control"
  BY <1>1, <1>2, <1>3, <1>4, QuietInv, ThreadsAssumption DEF ControlRests, Goes, miner_vars
<1>5. CASE c = "control"
  <2>1. AtWork' = AtWork
    BY <1>1 DEF AtWork, miner_vars
  <2>2. PausesBalanced'
    BY Zenon, <1>3, <2>1, Balance DEF IInv, Quiet, PausesBalanced, AtWork, Busy, At
  <2>3. Control'
    BY <1>1, <1>2, <1>5 DEF IInv, Control, Goes, Creating, Stopping, miner_vars
  <2> QED
    BY <1>2, <2>2, <2>3 DEF IInv, Goes
<1> QED
  BY <1>4, <1>5

\* TakeTemplate moves caller c from the end of create_block_template to the place next.
LEMMA TakeGoes ==
  ASSUME Shape, NEW c \in Callers, NEW next, TakeTemplate(c, next)
  PROVE  /\ call[c].at = "done" /\ Goes(c, next)
         /\ \A w \in Workers : worker'[w].at = worker[w].at
         /\ UNCHANGED <<stop, pausers>>
<1>1. worker' = [w \in Workers |-> [worker[w] EXCEPT !.seen = FALSE]]
  BY DEF TakeTemplate, set_block_template
<1>2. \A w \in Workers : worker'[w] = [at |-> worker[w].at, b |-> worker[w].b, seen |-> FALSE]
  <2> SUFFICES ASSUME NEW w \in Workers
               PROVE  worker'[w] = [at |-> worker[w].at, b |-> worker[w].b, seen |-> FALSE]
    OBVIOUS
  <2>1. worker'[w] = [worker[w] EXCEPT !.seen = FALSE]
    BY <1>1
  <2>2. worker[w] = [at |-> worker[w].at, b |-> worker[w].b, seen |-> worker[w].seen]
    BY DEF Shape
  <2> QED
    BY Zenon, <2>1, <2>2
<1>3. call' = [call EXCEPT ![c] = [Idle EXCEPT !.at = next]]
  BY DEF TakeTemplate
<1>4. /\ call'[c] = [at |-> next, b |-> NoBlock, diffic |-> 0, cookie |-> 0]
      /\ \A o \in Callers \ {c} : call'[o] = call[o]
      /\ call' = [o \in Callers |-> call'[o]]
  BY <1>3 DEF Shape, Idle
<1>5. Shape'
  BY Zenon, <1>1, <1>2, <1>4 DEF Shape
<1>6. Goes(c, next)
  BY <1>4, <1>5 DEF Goes
<1>7. ASSUME NEW w \in Workers PROVE worker'[w].at = worker[w].at
  <2>1. worker'[w] = [at |-> worker[w].at, b |-> worker[w].b, seen |-> FALSE]
    BY <1>2
  <2> QED
    BY <2>1
<1>8. call[c].at = "done" /\ UNCHANGED <<stop, pausers>>
  BY DEF TakeTemplate, At
<1> QED
  BY <1>6, <1>7, <1>8

\* Only the place of worker w changes, to where.
Moves(w, where) ==
  /\ Shape'
  /\ worker'[w].at = where
  /\ \A o \in Workers \ {w} : worker'[o].at = worker[o].at

\* Move keeps the shape.
LEMMA MoveMoves ==
  ASSUME Shape, NEW w \in Workers, NEW where, Move(w, where),
         call' = [c \in Callers |-> call'[c]],
         \A c \in Callers : call'[c] = [at |-> call'[c].at, b |-> call'[c].b, diffic |-> call'[c].diffic, cookie |-> call'[c].cookie]
  PROVE  Moves(w, where)
  BY DEF Shape, Moves, Move

\* With the callers where they were.
LEMMA MoveAlone ==
  ASSUME Shape, UNCHANGED call, NEW w \in Workers, NEW where, Move(w, where)
  PROVE  Moves(w, where)
  BY MoveMoves DEF Shape

\* The same for any change of the worker's record.
LEMMA RecordMoves ==
  ASSUME Shape, UNCHANGED call, NEW w \in Workers, NEW at, NEW b, NEW seen,
         worker'[w] = [at |-> at, b |-> b, seen |-> seen],
         \A o \in Workers \ {w} : worker'[o] = worker[o],
         worker' = [o \in Workers |-> worker'[o]]
  PROVE  Moves(w, at)
<1>1. Shape'
  BY DEF Shape
<1> QED
  BY <1>1 DEF Moves

\* notify_all wakes up who is asleep.
LEMMA NotifyMoves ==
  ASSUME Shape, worker' = notify_all(worker)
  PROVE  /\ worker' = [w \in Workers |-> worker'[w]]
         /\ \A w \in Workers :
              /\ worker'[w] = [at |-> worker'[w].at, b |-> worker'[w].b, seen |-> worker'[w].seen]
              /\ worker'[w].at = worker[w].at \/ (worker[w].at = "asleep" /\ worker'[w].at = "awake")
<1>1. worker' = [w \in Workers |-> worker'[w]]
  BY DEF notify_all
<1>2. ASSUME NEW w \in Workers
      PROVE  /\ worker'[w] = [at |-> worker'[w].at, b |-> worker'[w].b, seen |-> worker'[w].seen]
             /\ worker'[w].at = worker[w].at \/ (worker[w].at = "asleep" /\ worker'[w].at = "awake")
  <2>1. worker[w] = [at |-> worker[w].at, b |-> worker[w].b, seen |-> worker[w].seen]
    BY DEF Shape
  <2>2. worker'[w] = IF worker[w].at = "asleep" THEN [worker[w] EXCEPT !.at = "awake"] ELSE worker[w]
    BY DEF notify_all
  <2> QED
    BY <2>1, <2>2
<1> QED
  BY <1>1, <1>2

\* The steps of a worker's loop.
LEMMA LoopInv ==
  ASSUME IInv, NEW w \in Workers,
         \/ Leave(w) \/ Enter(w) \/ TestFlag(w) \/ Wait(w) \/ Wake(w)
         \/ CopyTemplate(w) \/ ReadNumber(w) \/ SameTemplate(w) \/ NoLuck(w)
  PROVE  IInv'
<1>1. /\ UNCHANGED <<call, stop, pausers>>
      /\ worker[w].at \notin Busy /\ worker[w].at # "gone"
  BY DEF Leave, Enter, TestFlag, Wait, Wake, CopyTemplate, ReadNumber, SameTemplate, NoLuck,
         WorkerAt, Busy, template_vars
<1>2. PICK where : Moves(w, where) /\ where \notin Busy
  <2>1. CASE Leave(w) \/ Enter(w) \/ TestFlag(w) \/ Wait(w) \/ Wake(w) \/ SameTemplate(w) \/ NoLuck(w)
    <3>1. \E where : Move(w, where) /\ where \notin Busy
      BY <2>1 DEF Leave, Enter, TestFlag, Wait, Wake, SameTemplate, NoLuck, Busy
    <3> QED
      BY <1>1, <3>1, MoveAlone DEF IInv
  <2>2. CASE CopyTemplate(w)
    <3>1. Moves(w, "number")
      <4>1. worker[w] = [at |-> worker[w].at, b |-> worker[w].b, seen |-> worker[w].seen]
        BY DEF IInv, Shape
      <4>2. worker'[w] = [at |-> "number", b |-> template, seen |-> worker[w].seen]
        BY Zenon, <2>2, <4>1 DEF CopyTemplate, IInv, Shape
      <4>3. /\ \A o \in Workers \ {w} : worker'[o] = worker[o]
            /\ worker' = [o \in Workers |-> worker'[o]]
        BY <2>2 DEF CopyTemplate, IInv, Shape
      <4> QED
        BY <1>1, <4>2, <4>3, RecordMoves DEF IInv
    <3> QED
      BY <3>1 DEF Busy
  <2>3. CASE ReadNumber(w)
    <3>1. Moves(w, "hash")
      <4>1. worker[w] = [at |-> worker[w].at, b |-> worker[w].b, seen |-> worker[w].seen]
        BY DEF IInv, Shape
      <4>2. worker'[w] = [at |-> "hash", b |-> worker[w].b, seen |-> TRUE]
        BY Zenon, <2>3, <4>1 DEF ReadNumber, IInv, Shape
      <4>3. /\ \A o \in Workers \ {w} : worker'[o] = worker[o]
            /\ worker' = [o \in Workers |-> worker'[o]]
        BY <2>3 DEF ReadNumber, IInv, Shape
      <4> QED
        BY <1>1, <4>2, <4>3, RecordMoves DEF IInv
    <3> QED
      BY <3>1 DEF Busy
  <2> QED
    BY <2>1, <2>2, <2>3
<1>3. Quiet
  BY <1>1, <1>2 DEF Quiet, Moves
<1> QED
  BY <1>1, <1>2, <1>3, QuietInv DEF ControlRests, Moves

\* handle_block_found: its pause, and its two ways to the resume.
LEMMA FoundInv ==
  ASSUME IInv, NEW w \in Workers, Found(w) \/ FoundTooLate(w) \/ Resume(w)
  PROVE  IInv'
<1>1. UNCHANGED <<call, stop>>
  BY DEF Found, FoundTooLate, Resume, template_vars
<1>2. ControlRests
  BY <1>1 DEF ControlRests
<1>3. CASE Found(w)
  <2>1. Moves(w, "found") /\ worker[w].at = "hash" /\ pausers' = pausers + 1
    BY <1>1, <1>3, MoveAlone DEF Found, IInv, WorkerAt
  <2> QED
    BY <1>1, <1>2, <2>1, PauseInv DEF Moves, Busy
<1>4. CASE FoundTooLate(w) \/ Resume(w)
  <2>1. Moves(w, "loop") /\ worker[w].at \in Busy /\ pausers' = Resumed
    BY <1>1, <1>4, MoveAlone DEF FoundTooLate, Resume, IInv, WorkerAt, Busy
  <2> QED
    BY <1>1, <1>2, <2>1, PauseInv DEF Moves, Busy
<1> QED
  BY <1>3, <1>4

\* handle_block_found between the two: adding the block, and the new template.
LEMMA AddFoundInv ==
  ASSUME IInv, NEW w \in Workers, AddFound(w) \/ FoundTemplate(w)
  PROVE  IInv'
<1>0. w \in Callers /\ w \notin {"net", "control"}
  BY ThreadsAssumption
<1>1. CASE AddFound(w)
  <2>1. UNCHANGED <<stop, pausers>> /\ worker[w].at = "found"
    BY <1>1 DEF AddFound, WorkerAt
  <2>2. /\ call' = [c \in Callers |-> call'[c]]
        /\ \A c \in Callers \ {w} : call'[c] = call[c]
        /\ \A c \in Callers : call'[c] = [at |-> call'[c].at, b |-> call'[c].b, diffic |-> call'[c].diffic, cookie |-> call'[c].cookie]
    BY <1>0, <1>1 DEF AddFound, Go, IInv, Shape
  <2>3. \E where \in Busy : Move(w, where)
    BY <1>1 DEF AddFound, Busy
  <2>4. \E where \in Busy : Moves(w, where)
    BY <2>2, <2>3, MoveMoves DEF IInv
  <2>5. call'["net"] = call["net"] /\ call'["control"] = call["control"]
    BY <1>0, <2>2, ThreadsAssumption
  <2>6. Quiet /\ ControlRests
    BY <2>1, <2>4, <2>5 DEF Quiet, ControlRests, Moves, Busy
  <2> QED
    BY <2>4, <2>6, QuietInv DEF Moves
<1>2. CASE FoundTemplate(w)
  <2>1. /\ Goes(w, "out") /\ UNCHANGED <<stop, pausers>>
        /\ \A o \in Workers : worker'[o].at = worker[o].at
    BY <1>0, <1>2, TakeGoes DEF FoundTemplate, IInv
  <2>2. call'["net"] = call["net"] /\ call'["control"] = call["control"]
    BY <1>0, <2>1, ThreadsAssumption DEF Goes
  <2>3. Quiet /\ ControlRests
    BY <2>1, <2>2 DEF Quiet, ControlRests
  <2> QED
    BY <2>1, <2>3, QuietInv DEF Goes
<1> QED
  BY <1>1, <1>2

\* Callers other than the network and the control thread come and go as they like.
LEMMA OthersInv ==
  ASSUME IInv,
         \/ IdleStep
         \/ PoolChange /\ UNCHANGED miner_vars
         \/ \E c \in Clients : ClientAsks(c) \/ ClientAnswered(c)
  PROVE  IInv'
<1>1. ASSUME NEW c \in Callers \ {"net", "control"}, NEW where, Goes(c, where), UNCHANGED <<stop, pausers>>,
             \A w \in Workers : worker'[w].at = worker[w].at
      PROVE  IInv'
  <2>1. call'["net"] = call["net"] /\ call'["control"] = call["control"]
    BY <1>1, ThreadsAssumption DEF Goes
  <2>2. Quiet /\ ControlRests
    BY <1>1, <2>1 DEF Quiet, ControlRests
  <2> QED
    BY <1>1, <2>2, QuietInv DEF Goes
<1>2. CASE OnIdle
  <2>1. Goes("idle", "call") /\ UNCHANGED <<stop, pausers, worker>>
    BY <1>2, GoGoes, ThreadsAssumption DEF OnIdle, IInv, miner_vars
  <2> QED
    BY <1>1, <2>1, ThreadsAssumption
<1>3. CASE IdleTemplate
  <2>1. /\ Goes("idle", "out") /\ UNCHANGED <<stop, pausers>>
        /\ \A w \in Workers : worker'[w].at = worker[w].at
    BY <1>3, TakeGoes, ThreadsAssumption DEF IdleTemplate, IInv
  <2> QED
    BY <1>1, <2>1, ThreadsAssumption
<1>4. CASE PoolChange /\ UNCHANGED miner_vars
  <2>1. Quiet /\ ControlRests /\ Shape'
    BY <1>4 DEF PoolChange, miner_vars, Quiet, ControlRests, IInv, Shape
  <2> QED
    BY <2>1, QuietInv
<1>5. ASSUME NEW c \in Clients, ClientAsks(c)
      PROVE  IInv'
  <2>1. Goes(c, "call") /\ UNCHANGED <<stop, pausers, worker>>
    BY <1>5, GoGoes, ThreadsAssumption DEF ClientAsks, IInv, miner_vars
  <2> QED
    BY <1>1, <1>5, <2>1, ThreadsAssumption
<1>6. ASSUME NEW c \in Clients, ClientAnswered(c)
      PROVE  IInv'
  <2>1. /\ call'[c] = [at |-> "out", b |-> NoBlock, diffic |-> 0, cookie |-> 0]
        /\ \A o \in Callers \ {c} : call'[o] = call[o]
        /\ call' = [o \in Callers |-> call'[o]]
        /\ UNCHANGED <<stop, pausers, worker>>
    BY <1>6, ThreadsAssumption DEF ClientAnswered, Idle, IInv, Shape, miner_vars
  <2>2. Goes(c, "out")
    BY <1>6, <2>1, RecordGoes, ThreadsAssumption DEF IInv
  <2> QED
    BY <1>1, <1>6, <2>1, <2>2, ThreadsAssumption
<1> QED
  BY <1>2, <1>3, <1>4, <1>5, <1>6 DEF IdleStep

\* handle_notify_new_block pauses when it begins and resumes when it ends.
LEMMA NetInv ==
  ASSUME IInv, NetStep \/ BlockComes
  PROVE  IInv'
<1> USE ThreadsAssumption
<1>1. /\ stop' = stop
      /\ \A w \in Workers : worker'[w].at = worker[w].at
      /\ \/ /\ pausers' = pausers /\ call["net"].at # "out"
            /\ \E where : where # "out" /\ Goes("net", where)
         \/ pausers' = pausers + 1 /\ call["net"].at = "out" /\ Goes("net", "add")
         \/ pausers' = Resumed /\ call["net"].at # "out" /\ Goes("net", "out")
  <2>1. CASE BlockAdded
    BY <2>1, GoGoes DEF BlockAdded, IInv, miner_vars, At
  <2>2. CASE BlockRefused
    BY <2>2, GoGoes DEF BlockRefused, IInv, miner_vars, At
  <2>3. CASE NetTemplate
    BY <2>3, TakeGoes DEF NetTemplate, IInv
  <2>4. CASE BlockHandled
    BY <2>4, GoGoes DEF BlockHandled, IInv, At
  <2>5. CASE BlockComes
    BY <2>5, GoGoes DEF BlockComes, IInv, At
  <2> QED
    BY <2>1, <2>2, <2>3, <2>4, <2>5 DEF NetStep
<1>2. Shape' /\ call'["control"] = call["control"]
  BY <1>1 DEF Goes
<1>3. AtWork' = AtWork
  BY <1>1 DEF AtWork
<1>4. pausers' = Cardinality(AtWork') + (IF call'["net"].at = "out" THEN 0 ELSE 1)
  BY <1>1, <1>3, WorkFinite, Balance DEF IInv, Goes, Resumed
<1>5. PausesBalanced'
  BY <1>4 DEF PausesBalanced, AtWork, Busy, At
<1>6. Control'
  BY <1>1, <1>2 DEF IInv, Control
<1> QED
  BY <1>2, <1>5, <1>6 DEF IInv

\* The background thread only wakes up workers.
LEMMA BackgroundInv ==
  ASSUME IInv, BackgroundStep \/ MachineIdle \/ MachineBusy
  PROVE  IInv'
<1>1. UNCHANGED <<call, stop, pausers>>
  BY DEF BackgroundStep, BackgroundBegins, BackgroundEnds, MachineIdle, MachineBusy, template_vars
<1>2. /\ Shape'
      /\ \A w \in Workers : worker'[w].at = worker[w].at \/ (worker[w].at = "asleep" /\ worker'[w].at = "awake")
  <2>1. CASE UNCHANGED worker
    BY <1>1, <2>1 DEF IInv, Shape
  <2>2. CASE worker' = notify_all(worker)
    BY Zenon, <1>1, <2>2, NotifyMoves DEF IInv, Shape
  <2> QED
    BY <2>1, <2>2 DEF BackgroundStep, BackgroundBegins, BackgroundEnds, MachineIdle, MachineBusy
<1>3. Quiet /\ ControlRests
  BY <1>1, <1>2 DEF Quiet, ControlRests, Busy
<1> QED
  BY <1>2, <1>3, QuietInv

\* miner::start and miner::stop: workers are replaced only when all of them are gone.
LEMMA ControlInv ==
  ASSUME IInv, ControlStep \/ Start \/ SendStopSignal
  PROVE  IInv'
<1> USE ThreadsAssumption
<1>1. /\ pausers' = pausers
      /\ Shape' /\ call'["net"] = call["net"]
      /\ \A w \in Workers : worker'[w].at \in Busy <=> worker[w].at \in Busy
      /\ Control'
  <2>1. CASE StartTemplate
    <3>1. /\ call["control"].at = "done" /\ Goes("control", "launch") /\ UNCHANGED <<stop, pausers>>
          /\ \A w \in Workers : worker'[w].at = worker[w].at
      BY <2>1, TakeGoes DEF StartTemplate, IInv
    <3> QED
      BY <3>1 DEF Goes, IInv, Control, Stopping
  <2>2. CASE Launch
    <3>1. call["control"].at = "launch"
      BY <2>2 DEF Launch, At
    <3>2. \A w \in Workers : worker[w].at = "gone"
      BY <3>1 DEF IInv, Control, Stopping
    <3>3. /\ worker' = [w \in Workers |-> [at |-> "loop", b |-> NoBlock, seen |-> FALSE]]
          /\ pausers' = pausers /\ ~stop'
      BY <2>2 DEF Launch, NewWorker
    <3>4. /\ call' = [c \in Callers |-> call'[c]]
          /\ \A c \in Callers \ {"control"} : call'[c] = call[c]
          /\ call'["control"] = [at |-> "out", b |-> call["control"].b, diffic |-> call["control"].diffic, cookie |-> call["control"].cookie]
      BY <2>2, GoCall DEF Launch, IInv
    <3>5. Shape'
      BY Zenon, <3>3, <3>4 DEF IInv, Shape
    <3>6. Control'
      BY <3>3, <3>4 DEF Control
    <3> QED
      BY <3>2, <3>3, <3>4, <3>5, <3>6 DEF Busy
  <2>3. CASE NotifyWorkers
    <3>1. /\ call' = [c \in Callers |-> call'[c]]
          /\ \A c \in Callers \ {"control"} : call'[c] = call[c]
          /\ call'["control"] = [at |-> "join", b |-> call["control"].b, diffic |-> call["control"].diffic, cookie |-> call["control"].cookie]
          /\ pausers' = pausers
      BY <2>3, GoCall DEF NotifyWorkers, IInv
    <3>2. Shape'
      BY <2>3, <3>1, NotifyMoves DEF NotifyWorkers, IInv, Shape
    <3>3. \A w \in Workers : worker'[w].at \in Busy <=> worker[w].at \in Busy
      BY <2>3, NotifyMoves DEF NotifyWorkers, IInv, Busy
    <3>4. Control'
      BY <3>1 DEF Control, Stopping
    <3> QED
      BY <3>1, <3>2, <3>3, <3>4
  <2>4. CASE Joined
    <3>1. Goes("control", "out") /\ UNCHANGED <<worker, pausers, stop>>
      BY <2>4, GoGoes DEF Joined, IInv, miner_vars
    <3>2. \A w \in Workers : worker[w].at = "gone"
      BY <2>4 DEF Joined, WorkerAt
    <3> QED
      BY <3>1, <3>2 DEF Goes, Control
  <2>5. CASE Start
    <3>1. Goes("control", "call") /\ UNCHANGED <<worker, pausers, stop>> /\ stop /\ call["control"].at = "out"
      BY <2>5, GoGoes DEF Start, IInv, miner_vars, At
    <3> QED
      BY <3>1 DEF Goes, IInv, Control, Stopping
  <2>6. CASE SendStopSignal
    <3>1. Goes("control", "notify") /\ UNCHANGED <<worker, pausers>> /\ stop'
      BY <2>6, GoGoes DEF SendStopSignal, IInv
    <3> QED
      BY <3>1 DEF Goes, Control, Stopping
  <2> QED
    BY <2>1, <2>2, <2>3, <2>4, <2>5, <2>6 DEF ControlStep
<1>2. AtWork' = AtWork
  BY <1>1 DEF AtWork
<1>3. PausesBalanced'
  BY Zenon, <1>1, <1>2, Balance DEF IInv, PausesBalanced, AtWork, Busy, At
<1> QED
  BY <1>1, <1>3 DEF IInv

\* Every step keeps the invariant.
LEMMA StepInv == IInv /\ [Next]_vars => IInv'
<1> SUFFICES ASSUME IInv, [Next]_vars
             PROVE  IInv'
  OBVIOUS
<1>1. CASE UNCHANGED vars
  <2>1. Quiet /\ ControlRests /\ Shape'
    BY <1>1 DEF vars, template_vars, miner_vars, Quiet, ControlRests, IInv, Shape
  <2> QED
    BY <2>1, QuietInv
<1>2. CASE \E w \in Workers : WorkerStep(w) \/ Found(w)
  BY <1>2, LoopInv, FoundInv, AddFoundInv DEF WorkerStep
<1>3. CASE \E c \in Callers : CreateStep(c)
  BY <1>3, CreateInv
<1>4. CASE \/ IdleStep
           \/ PoolChange /\ UNCHANGED miner_vars
           \/ \E c \in Clients : ClientAsks(c) \/ ClientAnswered(c)
  BY <1>4, OthersInv
<1>5. CASE NetStep \/ BlockComes
  BY <1>5, NetInv
<1>6. CASE ControlStep \/ Start \/ SendStopSignal
  BY <1>6, ControlInv
<1>7. CASE BackgroundStep \/ MachineIdle \/ MachineBusy
  BY <1>7, BackgroundInv
<1> QED
  BY <1>1, <1>2, <1>3, <1>4, <1>5, <1>6, <1>7 DEF Next

\* Spec => []PausesBalanced (miner.cpp, pause and resume): with any number of workers, each
\* pause is undone by one resume, and none is undone by the start or the stop of the miner.
THEOREM PausesUndone == Spec => []PausesBalanced
<1>1. IInv => PausesBalanced
  BY DEF IInv
<1> QED
  BY <1>1, InitInv, StepInv, PTL DEF Spec

\* The steps that call miner::resume.
Resumes == BlockHandled \/ \E w \in Workers : FoundTooLate(w) \/ Resume(w)

\* Spec => [][Resumes => pausers > 0]_vars: miner::resume never finds a count of zero, which it
\* would log ("Unexpected miner::resume() called", miner.cpp:431) and set back to zero.
THEOREM ResumesExpected == Spec => [][Resumes => pausers > 0]_vars
<1>1. IInv /\ [Next]_vars => [Resumes => pausers > 0]_vars
  <2> SUFFICES ASSUME IInv, Resumes
               PROVE  pausers > 0
    OBVIOUS
  <2>1. CASE BlockHandled
    BY <2>1, Balance, WorkFinite DEF BlockHandled, At, IInv
  <2>2. ASSUME NEW w \in Workers, FoundTooLate(w) \/ Resume(w)
        PROVE  pausers > 0
    <3>1. w \in AtWork
      BY <2>2 DEF FoundTooLate, Resume, WorkerAt, AtWork, Busy
    <3>2. Cardinality(AtWork) > 0
      BY <3>1, WorkFinite, FS_EmptySet
    <3> QED
      BY <3>2, Balance, WorkFinite DEF IInv
  <2> QED
    BY <2>1, <2>2 DEF Resumes
<1> QED
  BY <1>1, InitInv, StepInv, PTL DEF Spec

-----------------------------------------------------------------------------
(* The cache of templates.  CacheRight says nothing of a call before its end; the   *)
(* invariant says of every place in create_block_template what the call holds there, *)
(* which members of the cache are its own already, and that only one call writes.    *)

\* The cached members, one by one.
CacheShape ==
  /\ btc = [valid |-> btc.valid, block |-> btc.block, address |-> btc.address,
            diffic |-> btc.diffic, cookie |-> btc.cookie]
  /\ tip \in Nat /\ raced \in BOOLEAN

\* The block b with difficulty d pays a and was filled for the chain it builds on, or for
\* a later one up to the chain top.
Chosen(b, d, a, top) ==
  /\ b.pays = a /\ d = b.prev
  /\ b.prev \in Nat /\ b.txs \in Nat /\ b.prev <= b.txs /\ b.txs <= top

\* The block read off the top of the chain.
Topped(d) == [prev |-> d, txs |-> 0, pool |-> 0, pays |-> Nobody]

\* What a call holds at each of its places.
CallHolds(c) ==
  /\ At(c, "fill") => /\ call[c].diffic \in Nat /\ call[c].diffic <= tip
                      /\ call[c].b = Topped(call[c].diffic)
  /\ call[c].at \in {"cookie", "block", "done"} \cup Writing =>
       Chosen(call[c].b, call[c].diffic, Address[c], tip)
  /\ At(c, "cookie") => call[c].b.pool = cookie
  /\ call[c].at \in {"block"} \cup Writing => call[c].cookie = call[c].b.pool
  /\ call[c].at \in Writing => btc.block = call[c].b
  /\ At(c, "valid") => btc.address = Address[c] /\ btc.diffic = call[c].diffic
  /\ At(c, "copy") => btc.valid /\ btc.address = Address[c]

Written == \A c \in Callers : call[c].at \notin Writing

OneWrites ==
  /\ \A c, o \in Callers : call[c].at \in Writing /\ call[o].at \in Writing => c = o
  /\ (\E c \in Callers : At(c, "copy")) => Written

CacheWhole ==
  Written /\ btc.valid =>
    Chosen(btc.block, btc.diffic, btc.address, tip) /\ btc.block.pool = btc.cookie

CacheInv == CacheShape /\ (raced \/ ((\A c \in Callers : CallHolds(c)) /\ OneWrites /\ CacheWhole))

\* The places that CallHolds speaks of.
Held == {"copy", "fill", "cookie", "block", "done"} \cup Writing

\* A step after which every call is where it was, or at a place of which nothing is said;
\* it may bring a new chain, and may drop the cached template while nobody copies it.
Harmless ==
  /\ CacheShape'
  /\ \A c \in Callers : call'[c] = call[c] \/ (call'[c].at \notin Held /\ call[c].at \notin Writing)
  /\ btc' = btc \/ (btc' = [btc EXCEPT !.valid = FALSE] /\ ChainFree)
  /\ tip <= tip'
  /\ ~raced' => ~raced /\ (cookie' = cookie \/ \A c \in Callers : ~At(c, "cookie"))

\* Such a step keeps the cache right.
LEMMA HarmlessInv ==
  ASSUME CacheInv, Harmless
  PROVE  CacheInv'
<1> SUFFICES ASSUME ~raced'
             PROVE  (\A c \in Callers : CallHolds(c)') /\ OneWrites' /\ CacheWhole'
  BY DEF CacheInv, Harmless
<1>1. /\ ~raced /\ CacheShape /\ OneWrites /\ CacheWhole
      /\ \A c \in Callers : CallHolds(c)
  BY DEF CacheInv, Harmless
<1>2. /\ btc'.block = btc.block /\ btc'.address = btc.address /\ btc'.diffic = btc.diffic
      /\ btc'.cookie = btc.cookie
      /\ btc'.valid => btc.valid
      /\ ChainFree \/ btc' = btc
  BY <1>1 DEF Harmless, CacheShape
<1>3. ASSUME NEW b, NEW d, NEW a, Chosen(b, d, a, tip)
      PROVE  Chosen(b, d, a, tip')
  BY <1>1, <1>3 DEF Chosen, Harmless, CacheShape
<1>4. \A c \in Callers : call'[c].at \in Held => call'[c] = call[c]
  BY DEF Harmless
<1>5. \A c \in Callers : call'[c].at \in Writing <=> call[c].at \in Writing
  BY <1>4 DEF Harmless, Held
<1>6. ASSUME NEW c \in Callers
      PROVE  CallHolds(c)'
  <2>1. CASE call'[c].at \notin Held
    BY <2>1 DEF CallHolds, Held, At, Writing
  <2>2. CASE call'[c] = call[c]
    <3>1. CallHolds(c)
      BY <1>1
    <3>2. call[c].at \in {"cookie", "block", "done"} \cup Writing =>
            Chosen(call'[c].b, call'[c].diffic, Address[c], tip')
      BY <1>3, <2>2, <3>1 DEF CallHolds
    <3>3. At(c, "copy") => btc' = btc
      BY <1>2 DEF ChainFree
    <3>4. tip \in Nat /\ tip' \in Nat /\ tip <= tip'
      BY <1>1 DEF Harmless, CacheShape
    <3>5. At(c, "fill") => call'[c].diffic \in Nat /\ call'[c].diffic <= tip' /\ call'[c].b = Topped(call'[c].diffic)
      BY <2>2, <3>1, <3>4 DEF CallHolds
    <3>6. At(c, "cookie") => cookie' = cookie
      BY DEF Harmless
    <3> QED
      BY <1>2, <2>2, <3>1, <3>2, <3>3, <3>5, <3>6 DEF CallHolds, At, Writing, Topped
  <2> QED
    BY <1>4, <2>1, <2>2
<1>7. OneWrites'
  <2>1. \A c, o \in Callers : call'[c].at \in Writing /\ call'[o].at \in Writing => c = o
    BY <1>1, <1>5 DEF OneWrites
  <2>2. ASSUME NEW c \in Callers, call'[c].at = "copy"
        PROVE  \A o \in Callers : call'[o].at \notin Writing
    <3>1. call[c].at = "copy"
      BY <1>4, <2>2 DEF Held
    <3> QED
      BY <1>1, <1>5, <3>1 DEF OneWrites, Written, At
  <2> QED
    BY <2>1, <2>2 DEF OneWrites, Written, At, Writing
<1>8. CacheWhole'
  <2> SUFFICES ASSUME \A c \in Callers : call'[c].at \notin Writing, btc'.valid
               PROVE  Chosen(btc'.block, btc'.diffic, btc'.address, tip') /\ btc'.block.pool = btc'.cookie
    BY Zenon DEF CacheWhole, Written, Writing
  <2>1. Chosen(btc.block, btc.diffic, btc.address, tip) /\ btc.block.pool = btc.cookie
    BY <1>1, <1>2, <1>5 DEF CacheWhole, Written
  <2> QED
    BY <1>2, <1>3, <2>1
<1> QED
  BY <1>6, <1>7, <1>8

\* What another call holds stays when it does not depend on the members of the cache that
\* change.
LEMMA OtherHolds ==
  ASSUME CacheShape, NEW o \in Callers, CallHolds(o), call'[o] = call[o], tip' = tip, cookie' = cookie,
         \/ btc' = btc
         \/ btc' = [btc EXCEPT !.valid = FALSE] /\ call[o].at # "copy"
         \/ call[o].at \notin Writing \cup {"copy"}
  PROVE  CallHolds(o)'
<1>1. call[o].at \in Writing => btc'.block = btc.block /\ btc'.address = btc.address /\ btc'.diffic = btc.diffic
  BY DEF CacheShape
<1>2. call[o].at = "copy" => btc' = btc
  BY DEF Writing
<1> QED
  BY <1>1, <1>2 DEF CallHolds, At, Writing, Topped, Chosen

\* The record of a caller, in one piece.
CallIs(c, at, b, d, k) ==
  /\ call'[c] = [at |-> at, b |-> b, diffic |-> d, cookie |-> k]
  /\ \A o \in Callers \ {c} : call'[o] = call[o]

\* What the steps of create_block_template do to the record of the caller.
LEMMA CreateRecords ==
  ASSUME Shape, NEW c \in Callers
  PROVE  /\ FindCached(c) => CallIs(c, "copy", call[c].b, call[c].diffic, call[c].cookie)
         /\ CopyCached(c) => CallIs(c, "done", btc.block, btc.diffic, call[c].cookie)
         /\ ReadTop(c) => CallIs(c, "fill", Topped(tip), tip, call[c].cookie)
         /\ Fill(c) => CallIs(c, "cookie", [call[c].b EXCEPT !.txs = tip, !.pool = cookie, !.pays = Address[c]],
                              call[c].diffic, call[c].cookie)
         /\ ReadCookie(c) => CallIs(c, "block", call[c].b, call[c].diffic, cookie)
         /\ WriteBlock(c) => CallIs(c, "address", call[c].b, call[c].diffic, call[c].cookie)
         /\ WriteAddress(c) => CallIs(c, "valid", call[c].b, call[c].diffic, call[c].cookie)
         /\ WriteValid(c) => CallIs(c, "done", call[c].b, call[c].diffic, call[c].cookie)
<1>1. call[c] = [at |-> call[c].at, b |-> call[c].b, diffic |-> call[c].diffic, cookie |-> call[c].cookie]
  BY DEF Shape
<1>2. call = [o \in Callers |-> call[o]]
  BY DEF Shape
<1>3. ASSUME NEW where, Go(c, where)
      PROVE  CallIs(c, where, call[c].b, call[c].diffic, call[c].cookie)
  BY Zenon, <1>3, GoCall DEF CallIs
<1>4. FindCached(c) => CallIs(c, "copy", call[c].b, call[c].diffic, call[c].cookie)
  BY Zenon, <1>3 DEF FindCached
<1>5. CopyCached(c) => CallIs(c, "done", btc.block, btc.diffic, call[c].cookie)
  BY Zenon, <1>1, <1>2 DEF CopyCached, CallIs
<1>6. ReadTop(c) => CallIs(c, "fill", Topped(tip), tip, call[c].cookie)
  <2>1. [NoBlock EXCEPT !.prev = tip] = Topped(tip)
    BY DEF NoBlock, Topped
  <2> QED
    BY Zenon, <1>1, <1>2, <2>1 DEF ReadTop, CallIs
<1>7. Fill(c) => CallIs(c, "cookie", [call[c].b EXCEPT !.txs = tip, !.pool = cookie, !.pays = Address[c]],
                        call[c].diffic, call[c].cookie)
  BY Zenon, <1>1, <1>2 DEF Fill, CallIs
<1>8. ReadCookie(c) => CallIs(c, "block", call[c].b, call[c].diffic, cookie)
  BY Zenon, <1>1, <1>2 DEF ReadCookie, CallIs
<1>9. /\ WriteBlock(c) => CallIs(c, "address", call[c].b, call[c].diffic, call[c].cookie)
      /\ WriteAddress(c) => CallIs(c, "valid", call[c].b, call[c].diffic, call[c].cookie)
      /\ WriteValid(c) => CallIs(c, "done", call[c].b, call[c].diffic, call[c].cookie)
  BY Zenon, <1>3 DEF WriteBlock, WriteAddress, WriteValid, Write
<1> QED
  BY Zenon, <1>4, <1>5, <1>6, <1>7, <1>8, <1>9

\* fill_block_template fills the block read off the top.
LEMMA ToppedFilled ==
  ASSUME NEW d, NEW t, NEW k, NEW a
  PROVE  [Topped(d) EXCEPT !.txs = t, !.pool = k, !.pays = a] = [prev |-> d, txs |-> t, pool |-> k, pays |-> a]
<1>1. [Topped(d) EXCEPT !.txs = t] = [prev |-> d, txs |-> t, pool |-> 0, pays |-> Nobody]
  BY DEF Topped
<1>2. [[prev |-> d, txs |-> t, pool |-> 0, pays |-> Nobody] EXCEPT !.pool = k] = [prev |-> d, txs |-> t, pool |-> k, pays |-> Nobody]
  OBVIOUS
<1>3. [[prev |-> d, txs |-> t, pool |-> k, pays |-> Nobody] EXCEPT !.pays = a] = [prev |-> d, txs |-> t, pool |-> k, pays |-> a]
  OBVIOUS
<1> QED
  BY <1>1, <1>2, <1>3

\* A step inside create_block_template keeps the cache right: a writer that is alone
\* completes what it began, and whoever is not sees the race.
LEMMA CreateCache ==
  ASSUME Shape, CacheInv, NEW c \in Callers, create_block_template(c)
  PROVE  CacheInv'
<1>1. CacheShape /\ tip' = tip /\ cookie' = cookie
  BY DEF CacheInv, create_block_template, FindCached, CopyCached, ReadTop, Fill, ReadCookie,
         WriteBlock, WriteAddress, WriteValid, Write
<1>2. CacheShape' /\ (~raced' => ~raced)
  <2>1. \/ btc' = btc
        \/ btc' = [btc EXCEPT !.valid = FALSE]
        \/ btc' = [btc EXCEPT !.block = call[c].b]
        \/ btc' = [btc EXCEPT !.address = Address[c], !.diffic = call[c].diffic]
        \/ btc' = [btc EXCEPT !.cookie = call[c].cookie, !.valid = TRUE]
    BY Zenon DEF create_block_template, FindCached, CopyCached, ReadTop, Fill, ReadCookie,
         WriteBlock, WriteAddress, WriteValid, Write
  <2>2. btc' = [valid |-> btc'.valid, block |-> btc'.block, address |-> btc'.address,
                diffic |-> btc'.diffic, cookie |-> btc'.cookie]
    BY <1>1, <2>1 DEF CacheShape
  <2>3. raced' \in BOOLEAN /\ (~raced' => ~raced)
    <3>1. raced' = raced \/ \E steps : Race(c, steps)
      BY Zenon DEF create_block_template, FindCached, CopyCached, ReadTop, Fill, ReadCookie,
         WriteBlock, WriteAddress, WriteValid, Write
    <3> QED
      BY Zenon, <1>1, <3>1 DEF Race, CacheShape
  <2> QED
    BY <1>1, <2>2, <2>3 DEF CacheShape
<1> SUFFICES ASSUME ~raced'
             PROVE  (\A o \in Callers : CallHolds(o)') /\ OneWrites' /\ CacheWhole'
  BY Zenon, <1>2 DEF CacheInv
<1>3. OneWrites /\ CacheWhole /\ \A o \in Callers : CallHolds(o)
  BY <1>2 DEF CacheInv
<1>4. ASSUME NEW at, NEW b, NEW d, NEW k, CallIs(c, at, b, d, k)
      PROVE  call'[c].at = at /\ call'[c].b = b /\ call'[c].diffic = d /\ call'[c].cookie = k
  BY <1>4 DEF CallIs
<1>5. CASE FindCached(c)
  <2>1. CallIs(c, "copy", call[c].b, call[c].diffic, call[c].cookie) /\ btc' = btc
    BY <1>5, CreateRecords DEF FindCached
  <2>2. \A o \in Callers \ {c} : call[o].at \notin Writing
    BY Zenon, <1>5 DEF FindCached, Race
  <2>3. call[c].at = "call" /\ btc.valid /\ btc.address = Address[c]
    BY <1>5 DEF FindCached, At, IsCached
  <2>4. Written /\ \A o \in Callers : call'[o].at \notin Writing
    BY <1>4, <2>1, <2>2, <2>3 DEF Written, Writing, CallIs
  <2>5. \A o \in Callers \ {c} : CallHolds(o)'
    BY <1>1, <1>3, <2>1, OtherHolds DEF CallIs
  <2>6. CallHolds(c)'
    BY <1>4, <2>1, <2>3 DEF CallHolds, At, Writing
  <2>7. OneWrites' /\ Written'
    BY <2>4 DEF OneWrites, Written, Writing
  <2>8. CacheWhole'
    BY <1>1, <1>3, <2>1, <2>4 DEF CacheWhole, Chosen
  <2> QED
    BY <2>5, <2>6, <2>7, <2>8
<1>6. CASE CopyCached(c)
  <2>1. CallIs(c, "done", btc.block, btc.diffic, call[c].cookie) /\ btc' = btc /\ call[c].at = "copy"
    BY <1>6, CreateRecords DEF CopyCached, At
  <2>2. Written /\ btc.valid /\ btc.address = Address[c]
    BY <1>3, <2>1 DEF OneWrites, At, CallHolds
  <2>3. Chosen(btc.block, btc.diffic, Address[c], tip)
    BY <1>3, <2>2 DEF CacheWhole
  <2>4. \A o \in Callers : call'[o].at \notin Writing
    BY <1>4, <2>1, <2>2 DEF Written, Writing, CallIs
  <2>5. \A o \in Callers \ {c} : CallHolds(o)'
    BY <1>1, <1>3, <2>1, OtherHolds DEF CallIs
  <2>6. CallHolds(c)'
    BY <1>1, <1>4, <2>1, <2>3 DEF CallHolds, At, Writing
  <2>7. OneWrites' /\ Written'
    BY <2>4 DEF OneWrites, Written, Writing
  <2>8. CacheWhole'
    BY <1>1, <1>3, <2>1, <2>2 DEF CacheWhole, Chosen
  <2> QED
    BY <2>5, <2>6, <2>7, <2>8
<1>7. CASE ReadTop(c)
  <2>1. /\ CallIs(c, "fill", Topped(tip), tip, call[c].cookie)
        /\ btc' = [btc EXCEPT !.valid = FALSE] /\ ChainFree /\ call[c].at = "call"
    BY <1>7, CreateRecords DEF ReadTop, At
  <2>2. ~btc'.valid
    BY <1>1, <2>1 DEF CacheShape
  <2>3. \A o \in Callers \ {c} : CallHolds(o)'
    BY <1>1, <1>3, <2>1, OtherHolds DEF CallIs, ChainFree, At
  <2>4. CallHolds(c)'
    BY <1>1, <1>4, <2>1 DEF CallHolds, At, Writing, Topped, CacheShape
  <2>5. \A o \in Callers : call'[o].at \in Writing => call[o].at \in Writing
    BY <1>4, <2>1 DEF CallIs, Writing
  <2>6. \A o \in Callers : call'[o].at # "copy"
    BY <1>4, <2>1 DEF CallIs, ChainFree, At
  <2>7. OneWrites'
    BY <1>3, <2>5, <2>6 DEF OneWrites, At, Writing
  <2>8. CacheWhole'
    BY <2>2 DEF CacheWhole
  <2> QED
    BY <2>3, <2>4, <2>7, <2>8
<1>8. CASE Fill(c) \/ ReadCookie(c)
  <2>1. btc' = btc /\ call[c].at \in {"fill", "cookie"} /\ call'[c].at \in {"cookie", "block"}
    BY <1>4, <1>8, CreateRecords DEF Fill, ReadCookie, At
  <2>2. \A o \in Callers \ {c} : call'[o] = call[o]
    BY Zenon, <1>8, CreateRecords DEF CallIs
  <2>3. \A o \in Callers \ {c} : CallHolds(o)'
    BY <1>1, <1>3, <2>1, <2>2, OtherHolds
  <2>4. CallHolds(c)'
    <3>1. CASE Fill(c)
      <4>1. call[c].at = "fill" /\ call[c].diffic \in Nat /\ call[c].diffic <= tip /\ call[c].b = Topped(call[c].diffic)
        BY <1>3, <3>1 DEF Fill, At, CallHolds
      <4>2. [call[c].b EXCEPT !.txs = tip, !.pool = cookie, !.pays = Address[c]]
              = [prev |-> call[c].diffic, txs |-> tip, pool |-> cookie, pays |-> Address[c]]
        <5>1. PICK n : n = call[c].diffic
          BY Zenon
        <5>2. call[c].b = Topped(n)
          BY Zenon, <4>1, <5>1
        <5>3. [Topped(n) EXCEPT !.txs = tip, !.pool = cookie, !.pays = Address[c]]
                = [prev |-> n, txs |-> tip, pool |-> cookie, pays |-> Address[c]]
          BY Zenon, ToppedFilled
        <5>4. [call[c].b EXCEPT !.txs = tip, !.pool = cookie, !.pays = Address[c]]
                = [Topped(n) EXCEPT !.txs = tip, !.pool = cookie, !.pays = Address[c]]
          BY Zenon, <5>2
        <5> QED
          BY Zenon, <5>1, <5>3, <5>4
      <4>3. CallIs(c, "cookie", [prev |-> call[c].diffic, txs |-> tip, pool |-> cookie, pays |-> Address[c]],
                   call[c].diffic, call[c].cookie)
        BY <3>1, <4>2, CreateRecords
      <4>4. /\ call'[c].at = "cookie" /\ call'[c].diffic = call[c].diffic
            /\ call'[c].b = [prev |-> call[c].diffic, txs |-> tip, pool |-> cookie, pays |-> Address[c]]
        BY <1>4, <4>3
      <4> QED
        BY <1>1, <4>1, <4>4 DEF CallHolds, At, Writing, Chosen, CacheShape
    <3>2. CASE ReadCookie(c)
      <4>1. CallIs(c, "block", call[c].b, call[c].diffic, cookie) /\ call[c].at = "cookie"
        BY <3>2, CreateRecords DEF ReadCookie, At
      <4>2. Chosen(call[c].b, call[c].diffic, Address[c], tip) /\ call[c].b.pool = cookie
        BY <1>3, <4>1 DEF CallHolds, At
      <4> QED
        BY <1>1, <1>4, <4>1, <4>2 DEF CallHolds, At, Writing
    <3> QED
      BY <1>8, <3>1, <3>2
  <2>5. \A o \in Callers : (call'[o].at \in Writing \cup {"copy"} \/ call[o].at \in Writing \cup {"copy"}) => call'[o].at = call[o].at
    BY <2>1, <2>2 DEF Writing
  <2>6. OneWrites' /\ (Written' => Written)
    BY <1>3, <2>5 DEF OneWrites, Written, At, Writing
  <2>7. CacheWhole'
    BY <1>1, <1>3, <2>1, <2>6 DEF CacheWhole, Chosen
  <2> QED
    BY <2>3, <2>4, <2>6, <2>7
<1>9. CASE WriteBlock(c) \/ WriteAddress(c) \/ WriteValid(c)
  <2>1. \A o \in Callers \ {c} : call[o].at \notin Writing \cup {"copy"} /\ call'[o] = call[o]
    <3>1. \A o \in Callers \ {c} : call[o].at \notin Writing \cup {"copy"}
      BY Zenon, <1>9 DEF WriteBlock, WriteAddress, WriteValid, Write, Race
    <3> QED
      BY Zenon, <1>9, <3>1, CreateRecords DEF CallIs
  <2>2. \A o \in Callers \ {c} : CallHolds(o)'
    BY <1>1, <1>3, <2>1, OtherHolds
  <2>3. call'[c].at \in Writing \cup {"done"} /\ call'[c].b = call[c].b /\ call'[c].diffic = call[c].diffic
          /\ call'[c].cookie = call[c].cookie
    <3>1. \E at \in Writing \cup {"done"} : CallIs(c, at, call[c].b, call[c].diffic, call[c].cookie)
      BY Zenon, <1>9, CreateRecords DEF Writing
    <3> QED
      BY <1>4, <3>1
  <2>4. call[c].at \in {"block"} \cup Writing
    BY <1>9 DEF WriteBlock, WriteAddress, WriteValid, Write, At, Writing
  <2>5. Chosen(call[c].b, call[c].diffic, Address[c], tip) /\ call[c].cookie = call[c].b.pool
    BY <1>3, <2>4 DEF CallHolds
  <2>6. OneWrites'
    BY <2>1, <2>3 DEF OneWrites, Written, At, Writing
  <2>7. CASE WriteBlock(c)
    <3>1. call'[c].at = "address" /\ btc'.block = call[c].b
      BY <1>1, <1>4, <2>7, CreateRecords DEF WriteBlock, CacheShape
    <3>2. CallHolds(c)'
      BY <1>1, <2>3, <2>5, <3>1 DEF CallHolds, At, Writing
    <3>3. CacheWhole'
      BY <3>1 DEF CacheWhole, Written, Writing
    <3> QED
      BY <2>2, <2>6, <3>2, <3>3
  <2>8. CASE WriteAddress(c)
    <3>1. call'[c].at = "valid" /\ call[c].at = "address"
      BY <1>4, <2>8, CreateRecords DEF WriteAddress, Write, At
    <3>2. btc'.block = btc.block /\ btc'.address = Address[c] /\ btc'.diffic = call[c].diffic
      BY <1>1, <2>8 DEF WriteAddress, CacheShape
    <3>3. btc.block = call[c].b
      BY <1>3, <3>1 DEF CallHolds, Writing
    <3>4. CallHolds(c)'
      BY <1>1, <2>3, <2>5, <3>1, <3>2, <3>3 DEF CallHolds, At, Writing
    <3>5. CacheWhole'
      BY <3>1 DEF CacheWhole, Written, Writing
    <3> QED
      BY <2>2, <2>6, <3>4, <3>5
  <2>9. CASE WriteValid(c)
    <3>1. call'[c].at = "done" /\ call[c].at = "valid"
      BY <1>4, <2>9, CreateRecords DEF WriteValid, Write, At
    <3>2. btc'.block = btc.block /\ btc'.address = btc.address /\ btc'.diffic = btc.diffic /\ btc'.cookie = call[c].cookie
      BY <1>1, <2>9 DEF WriteValid, CacheShape
    <3>3. btc.block = call[c].b /\ btc.address = Address[c] /\ btc.diffic = call[c].diffic
      BY <1>3, <3>1 DEF CallHolds, Writing, At
    <3>4. CallHolds(c)'
      BY <1>1, <2>3, <2>5, <3>1 DEF CallHolds, At, Writing
    <3>5. CacheWhole'
      BY <1>1, <2>5, <3>2, <3>3 DEF CacheWhole
    <3> QED
      BY <2>2, <2>6, <3>4, <3>5
  <2> QED
    BY <1>9, <2>7, <2>8, <2>9
<1> QED
  BY <1>5, <1>6, <1>7, <1>8, <1>9 DEF create_block_template

\* A step that leaves the chain, the pool and the cache alone, and in which at most one
\* caller moves, to a place outside create_block_template.
LEMMA AsideCache ==
  ASSUME CacheInv, UNCHANGED <<tip, cookie, btc, raced>>,
         \A c \in Callers : call'[c] = call[c] \/ (call'[c].at \notin Held /\ call[c].at \notin Writing)
  PROVE  CacheInv'
<1>1. Harmless
  BY DEF CacheInv, CacheShape, Harmless
<1> QED
  BY <1>1, HarmlessInv

\* Go, as seen by the places.
LEMMA GoPlace ==
  ASSUME Shape, NEW c \in Callers, NEW where, Go(c, where)
  PROVE  call'[c].at = where /\ \A o \in Callers \ {c} : call'[o] = call[o]
<1>1. /\ call'[c] = [at |-> where, b |-> call[c].b, diffic |-> call[c].diffic, cookie |-> call[c].cookie]
      /\ \A o \in Callers \ {c} : call'[o] = call[o]
  BY Zenon, GoCall
<1> QED
  BY <1>1

\* The same for one caller that goes somewhere else.
LEMMA GoCache ==
  ASSUME Shape, CacheInv, UNCHANGED <<tip, cookie, btc, raced>>, NEW c \in Callers,
         call[c].at \notin Writing, NEW where, where \notin Held, Go(c, where)
  PROVE  CacheInv'
<1>1. call'[c].at = where /\ \A o \in Callers \ {c} : call'[o] = call[o]
  BY GoPlace
<1> QED
  BY Zenon, <1>1, AsideCache

\* A template is taken: the call is over.
LEMMA TakeCache ==
  ASSUME Shape, CacheInv, NEW c \in Callers, NEW next, next \notin Held, TakeTemplate(c, next)
  PROVE  CacheInv'
<1>1. call[c].at = "done" /\ call'[c].at = next /\ \A o \in Callers \ {c} : call'[o] = call[o]
  BY TakeGoes DEF Goes
<1>2. UNCHANGED <<tip, cookie, btc, raced>>
  BY DEF TakeTemplate
<1> QED
  BY <1>1, <1>2, AsideCache DEF Writing

\* A new chain drops the cached template; if the pool changes with it while a call is about
\* to read its cookie, that is a race.
LEMMA NewTipCache ==
  ASSUME CacheInv, NewTip,
         \A c \in Callers : call'[c] = call[c] \/ (call'[c].at \notin Held /\ call[c].at \notin Writing)
  PROVE  CacheInv'
<1>1. tip' = tip + 1 /\ btc' = [btc EXCEPT !.valid = FALSE] /\ ChainFree
  BY DEF NewTip
<1>2. raced' \in BOOLEAN /\ (~raced' => ~raced /\ (cookie' = cookie \/ \A c \in Callers : ~At(c, "cookie")))
  BY Zenon DEF NewTip, CacheInv, CacheShape
<1>3. btc' = [valid |-> btc'.valid, block |-> btc'.block, address |-> btc'.address,
              diffic |-> btc'.diffic, cookie |-> btc'.cookie]
  BY <1>1 DEF CacheInv, CacheShape
<1>4. tip \in Nat /\ tip' \in Nat /\ tip <= tip'
  BY <1>1 DEF CacheInv, CacheShape
<1>5. Harmless
  BY <1>1, <1>2, <1>3, <1>4 DEF Harmless, CacheShape
<1> QED
  BY <1>5, HarmlessInv

\* A worker is in create_block_template only while it handles a block it found.
WorkersOut == \A w \in Workers : worker[w].at = "update" \/ call[w].at = "out"

\* Every step keeps it so.
LEMMA StepOut == IInv /\ WorkersOut /\ [Next]_vars => WorkersOut'
<1> SUFFICES ASSUME IInv, WorkersOut, [Next]_vars
             PROVE  WorkersOut'
  OBVIOUS
<1> USE ThreadsAssumption
<1>1. Shape
  BY DEF IInv
<1>2. ASSUME NEW c \in Callers, CreateStep(c)
      PROVE  WorkersOut'
  <2>1. UNCHANGED worker /\ call[c].at \in Creating /\ \A o \in Callers \ {c} : call'[o] = call[o]
    BY <1>1, <1>2, CreateInside DEF CreateStep, miner_vars, Goes
  <2> QED
    BY <2>1 DEF WorkersOut, Creating
<1>3. ASSUME NEW c \in Callers \ Workers, \A o \in Callers \ {c} : call'[o] = call[o],
             \A w \in Workers : worker[w].at = "update" => worker'[w].at = "update"
      PROVE  WorkersOut'
  BY <1>3 DEF WorkersOut
<1>4. ASSUME UNCHANGED call,
             \A w \in Workers : worker[w].at = "update" => worker'[w].at = "update" \/ call[w].at = "out"
      PROVE  WorkersOut'
  BY <1>4 DEF WorkersOut
<1>5. CASE UNCHANGED vars
  BY <1>4, <1>5 DEF vars, template_vars, miner_vars
<1>6. ASSUME NEW w \in Workers,
             \/ Leave(w) \/ Enter(w) \/ TestFlag(w) \/ Wait(w) \/ Wake(w)
             \/ CopyTemplate(w) \/ ReadNumber(w) \/ SameTemplate(w) \/ NoLuck(w)
             \/ Found(w) \/ FoundTooLate(w) \/ Resume(w)
      PROVE  WorkersOut'
  <2>1. UNCHANGED call /\ (worker[w].at = "update" => call[w].at = "out")
    BY Zenon, <1>6 DEF Leave, Enter, TestFlag, Wait, Wake, CopyTemplate, ReadNumber, SameTemplate, NoLuck,
       Found, FoundTooLate, Resume, WorkerAt, template_vars, At
  <2>2. \A o \in Workers \ {w} : worker'[o] = worker[o]
    BY Zenon, <1>1, <1>6 DEF Leave, Enter, TestFlag, Wait, Wake, CopyTemplate, ReadNumber, SameTemplate, NoLuck,
       Found, FoundTooLate, Resume, Move, Shape
  <2> QED
    BY <1>4, <2>1, <2>2
<1>7. ASSUME NEW w \in Workers, AddFound(w)
      PROVE  WorkersOut'
  <2>1. \A o \in Callers \ {w} : call'[o] = call[o]
    BY Zenon, <1>1, <1>7, GoPlace DEF AddFound
  <2>2. \A o \in Workers \ {w} : worker'[o] = worker[o]
    BY Zenon, <1>1, <1>7 DEF AddFound, Move, Shape
  <2>3. CASE stop
    <3>1. call' = call /\ worker[w].at = "found"
      BY <1>7, <2>3 DEF AddFound, WorkerAt
    <3> QED
      BY <1>4, <2>2, <3>1
  <2>4. CASE ~stop
    <3>1. worker'[w].at = "update"
      BY <1>1, <1>7, <2>4 DEF AddFound, Move, Shape
    <3> QED
      BY <2>1, <2>2, <3>1 DEF WorkersOut
  <2> QED
    BY <2>3, <2>4
<1>8. ASSUME NEW c \in Callers, NEW next, TakeTemplate(c, next), c \in Workers => next = "out"
      PROVE  WorkersOut'
  <2>1. Goes(c, next) /\ \A w \in Workers : worker'[w].at = worker[w].at
    BY <1>1, <1>8, TakeGoes
  <2> QED
    BY <1>8, <2>1 DEF WorkersOut, Goes
<1>9. ASSUME NEW c \in Callers \ Workers, NEW where, Go(c, where), UNCHANGED worker
      PROVE  WorkersOut'
  BY <1>1, <1>3, <1>9, GoPlace
<1>10. CASE IdleStep
  BY <1>8, <1>9, <1>10 DEF IdleStep, OnIdle, IdleTemplate, miner_vars
<1>11. CASE PoolChange /\ UNCHANGED miner_vars
  BY <1>4, <1>11 DEF PoolChange, miner_vars
<1>12. ASSUME NEW c \in Clients, ClientAsks(c) \/ ClientAnswered(c)
       PROVE  WorkersOut'
  <2>1. CASE ClientAsks(c)
    BY <1>9, <2>1 DEF ClientAsks, miner_vars
  <2>2. CASE ClientAnswered(c)
    <3>1. UNCHANGED worker /\ \A o \in Callers \ {c} : call'[o] = call[o]
      BY <1>1, <2>2 DEF ClientAnswered, miner_vars, Shape
    <3> QED
      BY <1>3, <3>1
  <2> QED
    BY <1>12, <2>1, <2>2
<1>13. CASE NetStep \/ BlockComes
  <2>1. CASE BlockAdded \/ BlockRefused \/ BlockHandled \/ BlockComes
    <3>1. UNCHANGED worker /\ \E where : Go("net", where)
      BY <2>1 DEF BlockAdded, BlockRefused, BlockHandled, BlockComes, miner_vars
    <3> QED
      BY <1>9, <3>1
  <2>2. CASE NetTemplate
    BY <1>8, <2>2 DEF NetTemplate
  <2> QED
    BY <1>13, <2>1, <2>2 DEF NetStep
<1>14. CASE ControlStep \/ Start \/ SendStopSignal
  <2>1. CASE StartTemplate
    BY <1>8, <2>1 DEF StartTemplate
  <2>2. CASE Launch
    <3>1. call["control"].at = "launch"
      BY <2>2 DEF Launch, At
    <3>2. \A w \in Workers : worker[w].at = "gone"
      BY <3>1 DEF IInv, Control, Stopping
    <3>3. \A o \in Callers \ {"control"} : call'[o] = call[o]
      BY <1>1, <2>2, GoPlace DEF Launch
    <3> QED
      BY <1>3, <3>2, <3>3
  <2>3. CASE NotifyWorkers
    <3>1. \A w \in Workers : worker[w].at = "update" => worker'[w].at = "update"
      BY <1>1, <2>3, NotifyMoves DEF NotifyWorkers
    <3>2. \A o \in Callers \ {"control"} : call'[o] = call[o]
      BY <1>1, <2>3, GoPlace DEF NotifyWorkers
    <3> QED
      BY <1>3, <3>1, <3>2
  <2>4. CASE Joined \/ Start \/ SendStopSignal
    BY <1>9, <2>4 DEF Joined, Start, SendStopSignal, miner_vars
  <2> QED
    BY <1>14, <2>1, <2>2, <2>3, <2>4 DEF ControlStep
<1>15. CASE BackgroundStep \/ MachineIdle \/ MachineBusy
  <2>1. UNCHANGED call /\ (UNCHANGED worker \/ worker' = notify_all(worker))
    BY <1>15 DEF BackgroundStep, BackgroundBegins, BackgroundEnds, MachineIdle, MachineBusy, template_vars
  <2>2. \A w \in Workers : worker[w].at = "update" => worker'[w].at = "update"
    BY <1>1, <2>1, NotifyMoves
  <2> QED
    BY <1>4, <2>1, <2>2
<1> QED
  BY <1>2, <1>5, <1>6, <1>7, <1>8, <1>10, <1>11, <1>12, <1>13, <1>14, <1>15 DEF Next, WorkerStep, FoundTemplate

\* Every step keeps the cache right.
LEMMA StepCache == IInv /\ WorkersOut /\ CacheInv /\ [Next]_vars => CacheInv'
<1> SUFFICES ASSUME IInv, WorkersOut, CacheInv, [Next]_vars
             PROVE  CacheInv'
  OBVIOUS
<1> USE ThreadsAssumption
<1>1. Shape
  BY DEF IInv
<1>2. CASE \E c \in Callers : CreateStep(c)
  BY <1>1, <1>2, CreateCache DEF CreateStep
<1>3. CASE \/ UNCHANGED vars
           \/ BackgroundStep \/ MachineIdle \/ MachineBusy
           \/ \E w \in Workers : \/ Leave(w) \/ Enter(w) \/ TestFlag(w) \/ Wait(w) \/ Wake(w)
                                 \/ CopyTemplate(w) \/ ReadNumber(w) \/ SameTemplate(w) \/ NoLuck(w)
                                 \/ Found(w) \/ FoundTooLate(w) \/ Resume(w)
  <2>1. UNCHANGED template_vars
    BY Zenon, <1>3 DEF vars, BackgroundStep, BackgroundBegins, BackgroundEnds, MachineIdle, MachineBusy,
       Leave, Enter, TestFlag, Wait, Wake, CopyTemplate, ReadNumber, SameTemplate, NoLuck, Found,
       FoundTooLate, Resume
  <2> QED
    BY <2>1, AsideCache DEF template_vars
<1>4. ASSUME NEW w \in Workers, AddFound(w)
      PROVE  CacheInv'
  <2>1. call[w].at = "out"
    BY <1>4 DEF AddFound, WorkerAt, WorkersOut
  <2>2. call' = call \/ Go(w, "call")
    BY <1>4 DEF AddFound
  <2>3. \A c \in Callers : call'[c] = call[c] \/ (call'[c].at \notin Held /\ call[c].at \notin Writing)
    BY Zenon, <1>1, <2>1, <2>2, GoPlace DEF Held, Writing
  <2>4. NewTip \/ UNCHANGED <<tip, cookie, btc, raced>>
    BY Zenon, <1>4 DEF AddFound
  <2> QED
    BY <2>3, <2>4, NewTipCache, AsideCache
<1>5. ASSUME NEW w \in Workers, FoundTemplate(w)
      PROVE  CacheInv'
  BY <1>1, <1>5, TakeCache DEF FoundTemplate, Held, Writing
<1>6. CASE IdleStep
  BY <1>1, <1>6, GoCache, TakeCache DEF IdleStep, OnIdle, IdleTemplate, Held, Writing, At
<1>7. CASE PoolChange /\ UNCHANGED miner_vars
  <2>1. UNCHANGED <<tip, btc, call>>
    BY <1>7 DEF PoolChange
  <2>2. raced' \in BOOLEAN /\ (~raced' => ~raced /\ \A c \in Callers : ~At(c, "cookie"))
    BY Zenon, <1>7 DEF PoolChange, CacheInv, CacheShape
  <2>3. Harmless
    BY <2>1, <2>2 DEF Harmless, CacheInv, CacheShape
  <2> QED
    BY <2>3, HarmlessInv
<1>8. ASSUME NEW c \in Clients, ClientAsks(c) \/ ClientAnswered(c)
      PROVE  CacheInv'
  <2>1. CASE ClientAsks(c)
    BY <1>1, <2>1, GoCache DEF ClientAsks, Held, Writing, At
  <2>2. CASE ClientAnswered(c)
    <3>1. call[c].at = "done" /\ call'[c].at = "out" /\ \A o \in Callers \ {c} : call'[o] = call[o]
      BY <1>1, <2>2 DEF ClientAnswered, At, Idle, Shape
    <3>2. UNCHANGED <<tip, cookie, btc, raced>>
      BY <2>2 DEF ClientAnswered
    <3> QED
      BY <3>1, <3>2, AsideCache DEF Held, Writing
  <2> QED
    BY <1>8, <2>1, <2>2
<1>9. CASE NetStep \/ BlockComes
  <2>1. CASE BlockAdded
    <3>1. call["net"].at = "add" /\ \E where \in {"release", "call"} : Go("net", where)
      BY <2>1 DEF BlockAdded, At
    <3>2. PICK where \in {"release", "call"} : Go("net", where)
      BY <3>1
    <3>3. call'["net"].at = where /\ \A c \in Callers \ {"net"} : call'[c] = call[c]
      BY <1>1, <3>2, GoPlace
    <3>4. \A c \in Callers : call'[c] = call[c] \/ (call'[c].at \notin Held /\ call[c].at \notin Writing)
      BY <3>1, <3>3 DEF Held, Writing
    <3> QED
      BY <2>1, <3>4, NewTipCache DEF BlockAdded
  <2>2. CASE BlockRefused
    BY <1>1, <2>2, GoCache DEF BlockRefused, Held, Writing, At
  <2>3. CASE NetTemplate
    BY <1>1, <2>3, TakeCache DEF NetTemplate, Held, Writing
  <2>4. CASE BlockHandled
    BY <1>1, <2>4, GoCache DEF BlockHandled, Held, Writing, At
  <2>5. CASE BlockComes
    BY <1>1, <2>5, GoCache DEF BlockComes, Held, Writing, At
  <2> QED
    BY <1>9, <2>1, <2>2, <2>3, <2>4, <2>5 DEF NetStep
<1>10. CASE ControlStep \/ Start \/ SendStopSignal
  <2>1. CASE StartTemplate
    BY <1>1, <2>1, TakeCache DEF StartTemplate, Held, Writing
  <2>2. CASE Launch
    BY <1>1, <2>2, GoCache DEF Launch, Held, Writing, At
  <2>3. CASE NotifyWorkers
    BY <1>1, <2>3, GoCache DEF NotifyWorkers, Held, Writing, At
  <2>4. CASE Joined
    BY <1>1, <2>4, GoCache DEF Joined, Held, Writing, At
  <2>5. CASE Start
    BY <1>1, <2>5, GoCache DEF Start, Held, Writing, At
  <2>6. CASE SendStopSignal
    BY <1>1, <2>6, GoCache DEF SendStopSignal, Held, Writing, At
  <2> QED
    BY <1>10, <2>1, <2>2, <2>3, <2>4, <2>5, <2>6 DEF ControlStep
<1> QED
  BY <1>2, <1>3, <1>4, <1>5, <1>6, <1>7, <1>8, <1>9, <1>10 DEF Next, WorkerStep

\* Spec => []CacheRight (blockchain.cpp, create_block_template): with any number of threads,
\* clients and workers, a call that does not race at the cache gets a template that pays the
\* address it asked for, with the difficulty of the chain it builds on.
THEOREM CacheKept == Spec => []CacheRight
<1> DEFINE Inv == IInv /\ WorkersOut /\ CacheInv
<1>1. Init => Inv
  <2> SUFFICES ASSUME Init
               PROVE  WorkersOut /\ CacheInv
    BY InitInv
  <2>1. \A c \in Callers : call[c].at = "out"
    BY DEF Init, TemplateInit, Idle
  <2>2. CacheShape /\ ~btc.valid
    BY DEF Init, TemplateInit, CacheShape
  <2>3. \A c \in Callers : CallHolds(c)
    BY <2>1 DEF CallHolds, At, Writing
  <2>4. OneWrites /\ CacheWhole
    BY <2>1, <2>2 DEF OneWrites, Written, CacheWhole, At, Writing
  <2> QED
    BY <2>1, <2>2, <2>3, <2>4, ThreadsAssumption DEF WorkersOut, CacheInv
<1>2. Inv /\ [Next]_vars => Inv'
  BY StepInv, StepOut, StepCache
<1>3. Inv => CacheRight
  <2> SUFFICES ASSUME CacheInv, ~raced
               PROVE  /\ \A c \in Callers : At(c, "done") =>
                           /\ call[c].b.pays = Address[c]
                           /\ call[c].diffic = call[c].b.prev
                           /\ call[c].b.prev = tip => call[c].b.txs = tip
                      /\ \A c \in Callers : At(c, "copy") => btc.block.pool = btc.cookie
    BY DEF CacheRight
  <2>1. OneWrites /\ CacheWhole /\ CacheShape /\ \A c \in Callers : CallHolds(c)
    BY DEF CacheInv
  <2>2. ASSUME NEW c \in Callers, At(c, "done")
        PROVE  /\ call[c].b.pays = Address[c]
               /\ call[c].diffic = call[c].b.prev
               /\ call[c].b.prev = tip => call[c].b.txs = tip
    BY <2>1, <2>2 DEF CallHolds, At, Chosen, CacheShape
  <2>3. ASSUME NEW c \in Callers, At(c, "copy")
        PROVE  btc.block.pool = btc.cookie
    BY <2>1, <2>3 DEF CallHolds, OneWrites, CacheWhole
  <2> QED
    BY <2>2, <2>3
<1> HIDE DEF Inv
<1> QED
  BY <1>1, <1>2, <1>3, PTL DEF Spec
=============================================================================
