----------------------------- MODULE ThreadPool -----------------------------
(***************************************************************************)
(* Class threadpool: routines are queued for worker threads, or run by     *)
(* the thread that submits them.  A thread that waits for its routines     *)
(* first helps to empty the queue, so calls nest: a thread has a stack of  *)
(* the routines it is in.  One step is what happens under one hold of the  *)
(* pool's mutex or of a waiter's.                                          *)
(*                                                                         *)
(* A job (a routine, or a client's code) submits its routines one after    *)
(* the other with a waiter of its own and then waits for them.             *)
(***************************************************************************)
EXTENDS Integers, FiniteSets, Sequences, Functions

CONSTANTS
  Workers,   \* threads of the pool
  Clients,   \* other threads, such as those of the connections
  Routines,
  Leaf,      \* the routines submitted as leaves
  Children   \* job |-> the routines it submits, in order

Threads == Workers \cup Clients

Jobs == Clients \cup Routines

ASSUME PoolAssumption ==
  /\ Workers \cap Clients = {} /\ Clients \cap Routines = {}
  /\ IsFiniteSet(Workers) /\ Leaf \subseteq Routines
  /\ Children \in [Jobs -> Seq(Routines)]
  /\ \A j, k \in Jobs : \A i \in DOMAIN Children[j], l \in DOMAIN Children[k] :
       Children[j][i] = Children[k][l] => j = k /\ i = l

VARIABLES
  queue,
  active,
  num,       \* job |-> num of its waiter
  stack,     \* thread |-> frames [job, next, at, here], the innermost last; next: the
             \* routine to submit; here: called by submit, not by run
  is_leaf,   \* thread |-> the thread's is_leaf
  sleeping,  \* workers in has_work.wait
  ran        \* routine |-> how often it was started; only the properties look at it

vars == <<queue, active, num, stack, is_leaf, sleeping, ran>>

-----------------------------------------------------------------------------

max == Cardinality(Workers) + 1

Frame(j, here) == [job |-> j, next |-> 1, at |-> "submit", here |-> here]

Init ==
  /\ queue = <<>> /\ active = 0 /\ num = [j \in Jobs |-> 0]
  /\ stack = [th \in Threads |-> IF th \in Clients THEN <<Frame(th, TRUE)>> ELSE <<>>]
  /\ is_leaf = [th \in Threads |-> FALSE]
  /\ sleeping = {} /\ ran = [r \in Routines |-> 0]

Top(th) == stack[th][Len(stack[th])]

\* The frames below the innermost.
Below(frames) == SubSeq(frames, 1, Len(frames) - 1)

At(th, at) == stack[th] # <<>> /\ Top(th).at = at

\* The thread's depth: the routines it is in, not counting a client's own code.
depth(th) == Len(stack[th]) - (IF th \in Clients THEN 1 ELSE 0)

Parent(r) == CHOOSE j \in Jobs : r \in Range(Children[j])

Submitting(th) == At(th, "submit") /\ Top(th).next <= Len(Children[Top(th).job])

Submitted(th) == Children[Top(th).job][Top(th).next]

\* The thread's stack when the innermost call is past the submission.
PastSubmit(th) == Append(Below(stack[th]), [Top(th) EXCEPT !.next = @ + 1])

MoveTo(th, at) == stack' = [stack EXCEPT ![th] = Append(Below(@), [Top(th) EXCEPT !.at = at])]

\* Thread th calls routine r on top of the frames below it.
Call(th, below, r, here) ==
  /\ stack' = [stack EXCEPT ![th] = Append(below, Frame(r, here))]
  /\ is_leaf' = [is_leaf EXCEPT ![th] = r \in Leaf]
  /\ ran' = [ran EXCEPT ![r] = @ + 1]

MaySubmit(th) == ~is_leaf[th]

\* "if all available threads are already running and there's work waiting, just run in
\* current thread"; a routine's routines are never queued, unless they are leaves.
RunsHere(th) ==
  /\ Submitted(th) \notin Leaf
  /\ (active = max /\ queue # <<>>) \/ depth(th) > 0

\* Mutant: no worker is woken.
NotifyNobody == UNCHANGED sleeping

\* has_work.notify_one
NotifyOne ==
  IF sleeping = {} THEN UNCHANGED sleeping ELSE \E w \in sleeping : sleeping' = sleeping \ {w}

\* submit throws; the caller goes on.
SubmitThrows(th) ==
  /\ Submitting(th) /\ ~MaySubmit(th)
  /\ stack' = [stack EXCEPT ![th] = PastSubmit(th)]
  /\ UNCHANGED <<queue, active, num, is_leaf, sleeping, ran>>

SubmitAndRun(th) ==
  /\ Submitting(th) /\ MaySubmit(th) /\ RunsHere(th)
  /\ Call(th, PastSubmit(th), Submitted(th), TRUE)
  /\ UNCHANGED <<queue, active, num, sleeping>>

SubmitToQueue(th) ==
  /\ Submitting(th) /\ MaySubmit(th) /\ ~RunsHere(th)
  /\ num' = [num EXCEPT ![Top(th).job] = @ + 1]
  /\ queue' = IF Submitted(th) \in Leaf THEN <<Submitted(th)>> \o queue
                                        ELSE Append(queue, Submitted(th))
  /\ NotifyOne
  /\ stack' = [stack EXCEPT ![th] = PastSubmit(th)]
  /\ UNCHANGED <<active, is_leaf, ran>>

\* Mutant: wait(NULL).
WaitWithoutHelping(th) ==
  /\ At(th, "submit") /\ ~Submitting(th)
  /\ MoveTo(th, IF Top(th).job \in Leaf THEN "done" ELSE "wait")
  /\ UNCHANGED <<queue, active, num, is_leaf, sleeping, ran>>

\* waiter::wait(&tpool) calls run(true).  A leaf has nothing to wait for.
StartWait(th) ==
  /\ At(th, "submit") /\ ~Submitting(th)
  /\ MoveTo(th, IF Top(th).job \in Leaf THEN "done" ELSE "flush")
  /\ UNCHANGED <<queue, active, num, is_leaf, sleeping, ran>>

\* A thread in the loop of run.
InRun(th) == (stack[th] = <<>> /\ th \notin sleeping) \/ At(th, "flush")

\* run takes a routine off the queue.
Take(th) ==
  /\ InRun(th) /\ queue # <<>>
  /\ active' = active + 1 /\ queue' = Tail(queue)
  /\ Call(th, stack[th], Head(queue), FALSE)
  /\ UNCHANGED <<num, sleeping>>

Sleep(w) ==
  /\ stack[w] = <<>> /\ w \notin sleeping /\ queue = <<>>
  /\ sleeping' = sleeping \cup {w}
  /\ UNCHANGED <<queue, active, num, stack, is_leaf, ran>>

\* Mutant: an empty queue is taken for the end of the routines.
FlushedIsDone(th) ==
  /\ At(th, "flush") /\ queue = <<>>
  /\ MoveTo(th, "done")
  /\ UNCHANGED <<queue, active, num, is_leaf, sleeping, ran>>

\* run(true) returns, wait goes on to its condition variable.
Flushed(th) ==
  /\ At(th, "flush") /\ queue = <<>>
  /\ MoveTo(th, "wait")
  /\ UNCHANGED <<queue, active, num, is_leaf, sleeping, ran>>

\* cv.wait until num is 0; dec notifies under the mutex that wait holds.
Waited(th) ==
  /\ At(th, "wait") /\ num[Top(th).job] = 0
  /\ MoveTo(th, "done")
  /\ UNCHANGED <<queue, active, num, is_leaf, sleeping, ran>>

\* A routine that submit called returns.
ReturnToSubmit(th) ==
  /\ At(th, "done") /\ Top(th).job \in Routines /\ Top(th).here
  /\ stack' = [stack EXCEPT ![th] = Below(@)]
  /\ is_leaf' = [is_leaf EXCEPT ![th] = FALSE]
  /\ UNCHANGED <<queue, active, num, sleeping, ran>>

\* A routine that run called returns: e.wo->dec(), then the mutex is taken again.
ReturnToRun(th) ==
  /\ At(th, "done") /\ Top(th).job \in Routines /\ ~Top(th).here
  /\ num' = [num EXCEPT ![Parent(Top(th).job)] = @ - 1]
  /\ is_leaf' = [is_leaf EXCEPT ![th] = FALSE]
  /\ MoveTo(th, "leave")
  /\ UNCHANGED <<queue, active, sleeping, ran>>

Leave(th) ==
  /\ At(th, "leave")
  /\ active' = active - 1
  /\ stack' = [stack EXCEPT ![th] = Below(@)]
  /\ UNCHANGED <<queue, num, is_leaf, sleeping, ran>>

Step(th) ==
  \/ SubmitThrows(th) \/ SubmitAndRun(th) \/ SubmitToQueue(th)
  \/ StartWait(th) \/ Take(th) \/ Flushed(th) \/ Waited(th)
  \/ ReturnToSubmit(th) \/ ReturnToRun(th) \/ Leave(th)

Next == (\E th \in Threads : Step(th)) \/ (\E w \in Workers : Sleep(w))

\* The operating system runs every thread; nothing says that a worker is woken twice.
Spec == Init /\ [][Next]_vars /\ \A th \in Threads : WF_vars(Step(th))

-----------------------------------------------------------------------------
(* Properties *)

Frames(th) == Range(stack[th])

Running(r) == \E th \in Threads : \E f \in Frames(th) : f.job = r /\ f.at \notin {"leave"}

\* "The waiter lets the caller know when all of its tasks are completed": past wait, the
\* routines of a job have run and returned, whichever threads ran them.
WaitWaits ==
  \A th \in Threads : \A f \in Frames(th) :
    f.at \in {"done", "leave"} /\ f.job \notin Leaf =>
      \A r \in Range(Children[f.job]) : ran[r] = 1 /\ ~Running(r)

\* No worker sleeps while there is more work than workers awake: one notification for
\* each routine is enough, although other threads take routines too.
NoIdleWork ==
  sleeping # {} => Len(queue) <= Cardinality({w \in Workers \ sleeping : stack[w] = <<>>})

\* Whatever waits for whatever, every client gets through.
AllDone == <>(\A c \in Clients : At(c, "done"))

=============================================================================
