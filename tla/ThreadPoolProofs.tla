-------------------------- MODULE ThreadPoolProofs --------------------------
(* Proofs about ThreadPool, for any number of workers and clients and any tree of   *)
(* routines.  Neither property is inductive.  For NoIdleWork it has to be known      *)
(* that sleeping workers are in no routine.  For WaitWaits the number in a waiter    *)
(* has to be the number of the job's routines that are queued or run by the loop of  *)
(* run, which in turn needs that no routine is ever in two places, and that one      *)
(* called by submit runs directly on top of the job that submitted it.               *)
EXTENDS ThreadPool, FiniteSetTheorems, TLAPS

Places == {"submit", "flush", "wait", "done", "leave"}

FrameType == [job : Jobs, next : Nat \ {0}, at : Places, here : BOOLEAN]

TypeInv ==
  /\ queue \in Seq(Routines)
  /\ num \in [Jobs -> Int]
  /\ stack \in [Threads -> Seq(FrameType)]
  /\ is_leaf \in [Threads -> BOOLEAN]
  /\ sleeping \subseteq Workers
  /\ ran \in [Routines -> Nat]
  /\ \A w \in sleeping : stack[w] = <<>>

-----------------------------------------------------------------------------
(* What the steps do to the stacks *)

\* The frames of a thread, from the outermost to the innermost.
Depths(th) == 1..Len(stack[th])

\* The innermost frame of th becomes f.
Moved(th, f) ==
  /\ \A u \in Threads : Len(stack'[u]) = Len(stack[u])
  /\ \A u \in Threads : \A i \in Depths(u) :
       stack'[u][i] = IF u = th /\ i = Len(stack[th]) THEN f ELSE stack[u][i]

\* The innermost frame of th becomes f, and g comes on top of it.
Pushed(th, f, g) ==
  /\ \A u \in Threads : Len(stack'[u]) = Len(stack[u]) + (IF u = th THEN 1 ELSE 0)
  /\ \A u \in Threads : \A i \in Depths(u) :
       stack'[u][i] = IF u = th /\ i = Len(stack[th]) THEN f ELSE stack[u][i]
  /\ stack'[th][Len(stack[th]) + 1] = g

\* The innermost frame of th goes.
Popped(th) ==
  /\ \A u \in Threads : Len(stack'[u]) = Len(stack[u]) - (IF u = th THEN 1 ELSE 0)
  /\ \A u \in Threads : \A i \in 1..Len(stack'[u]) : stack'[u][i] = stack[u][i]

\* The ends of a sequence.
LEMMA Ends ==
  ASSUME NEW S, NEW s \in Seq(S), s # <<>>
  PROVE  /\ Len(s) \in Nat \ {0} /\ s[Len(s)] \in S
         /\ Below(s) \in Seq(S) /\ Len(Below(s)) = Len(s) - 1
         /\ \A i \in 1..Len(s) - 1 : Below(s)[i] = s[i]
<1>1. Len(s) \in Nat \ {0} /\ s[Len(s)] \in S
  OBVIOUS
<1>2. Below(s) = SubSeq(s, 1, Len(s) - 1)
  BY DEF Below
<1>3. PICK n \in Nat : n = Len(s) - 1
  BY <1>1
<1>4. SubSeq(s, 1, n) \in Seq(S)
  BY <1>3
<1>5. Len(SubSeq(s, 1, n)) = n
  BY <1>3
<1>6. \A i \in 1..n : SubSeq(s, 1, n)[i] = s[i]
  BY <1>3
<1> QED
  BY <1>1, <1>2, <1>3, <1>4, <1>5, <1>6

\* One more element.
LEMMA Added ==
  ASSUME NEW S, NEW s \in Seq(S), NEW x \in S
  PROVE  /\ Append(s, x) \in Seq(S) /\ Append(s, x) # <<>> /\ Len(Append(s, x)) = Len(s) + 1
         /\ Append(s, x)[Len(s) + 1] = x
         /\ \A i \in 1..Len(s) : Append(s, x)[i] = s[i]
  OBVIOUS

\* Another innermost frame.
LEMMA MoveStack ==
  ASSUME stack \in [Threads -> Seq(FrameType)], NEW th \in Threads, stack[th] # <<>>,
         NEW f \in FrameType, stack' = [stack EXCEPT ![th] = Append(Below(stack[th]), f)]
  PROVE  /\ stack' \in [Threads -> Seq(FrameType)] /\ Moved(th, f)
         /\ \A u \in Threads : stack'[u] = <<>> <=> stack[u] = <<>>
<1> DEFINE s == stack[th]
           t == Append(Below(s), f)
<1>1. s \in Seq(FrameType)
  OBVIOUS
<1>2. /\ Len(s) \in Nat \ {0} /\ Below(s) \in Seq(FrameType) /\ Len(Below(s)) = Len(s) - 1
      /\ \A i \in 1..Len(s) - 1 : Below(s)[i] = s[i]
  BY Zenon, <1>1, Ends
<1>3. /\ t \in Seq(FrameType) /\ t # <<>> /\ Len(t) = Len(s)
      /\ t[Len(s)] = f /\ \A i \in 1..Len(s) - 1 : t[i] = s[i]
  <2>1. /\ t \in Seq(FrameType) /\ t # <<>> /\ Len(t) = Len(Below(s)) + 1
        /\ t[Len(Below(s)) + 1] = f /\ \A i \in 1..Len(Below(s)) : t[i] = Below(s)[i]
    BY <1>2, Added
  <2> QED
    BY <1>2, <2>1
<1>4. stack' = [stack EXCEPT ![th] = t]
  OBVIOUS
<1> HIDE DEF t
<1>5. stack' \in [Threads -> Seq(FrameType)] /\ stack'[th] = t
      /\ \A u \in Threads : u # th => stack'[u] = stack[u]
  BY Zenon, <1>3, <1>4
<1>6. \A i \in 1..Len(s) : t[i] = IF i = Len(s) THEN f ELSE s[i]
  BY <1>2, <1>3
<1>7. \A u \in Threads : Len(stack'[u]) = Len(stack[u])
  BY <1>3, <1>5
<1>8. \A u \in Threads : \A i \in Depths(u) :
        stack'[u][i] = IF u = th /\ i = Len(stack[th]) THEN f ELSE stack[u][i]
  BY Zenon, <1>5, <1>6 DEF Depths
<1> QED
  BY Zenon, <1>3, <1>5, <1>7, <1>8 DEF Moved

\* A call.
LEMMA PushStack ==
  ASSUME stack \in [Threads -> Seq(FrameType)], NEW th \in Threads, NEW g \in FrameType,
         stack' = [stack EXCEPT ![th] = Append(stack[th], g)]
  PROVE  /\ stack' \in [Threads -> Seq(FrameType)] /\ Pushed(th, Top(th), g)
         /\ \A u \in Threads : stack'[u] = <<>> <=> u # th /\ stack[u] = <<>>
<1> DEFINE s == stack[th]
           t == Append(s, g)
<1>1. s \in Seq(FrameType) /\ Len(s) \in Nat
  OBVIOUS
<1>2. /\ t \in Seq(FrameType) /\ t # <<>> /\ Len(t) = Len(s) + 1 /\ t[Len(s) + 1] = g
      /\ \A i \in 1..Len(s) : t[i] = s[i]
  BY <1>1, Added
<1>3. stack' = [stack EXCEPT ![th] = t]
  OBVIOUS
<1> HIDE DEF t
<1>4. stack' \in [Threads -> Seq(FrameType)] /\ stack'[th] = t
      /\ \A u \in Threads : u # th => stack'[u] = stack[u]
  BY <1>2, <1>3
<1>5. \A u \in Threads : Len(stack'[u]) = Len(stack[u]) + (IF u = th THEN 1 ELSE 0)
  BY <1>2, <1>4
<1>6. \A i \in Depths(th) : i = Len(s) => s[i] = Top(th)
  BY DEF Depths, Top
<1>7. \A u \in Threads : \A i \in Depths(u) :
        stack'[u][i] = IF u = th /\ i = Len(stack[th]) THEN Top(th) ELSE stack[u][i]
  BY <1>2, <1>4, <1>6 DEF Depths
<1> QED
  BY Zenon, <1>2, <1>4, <1>5, <1>7 DEF Pushed

\* A call from the innermost frame, which goes on.
LEMMA MovePush ==
  ASSUME stack \in [Threads -> Seq(FrameType)], NEW th \in Threads, stack[th] # <<>>,
         NEW f \in FrameType, NEW g \in FrameType,
         stack' = [stack EXCEPT ![th] = Append(Append(Below(stack[th]), f), g)]
  PROVE  /\ stack' \in [Threads -> Seq(FrameType)] /\ Pushed(th, f, g)
         /\ \A u \in Threads : stack'[u] = <<>> <=> stack[u] = <<>>
<1> DEFINE s == stack[th]
           t == Append(Below(s), f)
           v == Append(t, g)
<1>1. s \in Seq(FrameType)
  OBVIOUS
<1>2. /\ Len(s) \in Nat \ {0} /\ Below(s) \in Seq(FrameType) /\ Len(Below(s)) = Len(s) - 1
      /\ \A i \in 1..Len(s) - 1 : Below(s)[i] = s[i]
  BY Zenon, <1>1, Ends
<1>3. /\ t \in Seq(FrameType) /\ t # <<>> /\ Len(t) = Len(s)
      /\ t[Len(s)] = f /\ \A i \in 1..Len(s) - 1 : t[i] = s[i]
  <2>1. /\ t \in Seq(FrameType) /\ t # <<>> /\ Len(t) = Len(Below(s)) + 1
        /\ t[Len(Below(s)) + 1] = f /\ \A i \in 1..Len(Below(s)) : t[i] = Below(s)[i]
    BY <1>2, Added
  <2> QED
    BY <1>2, <2>1
<1> HIDE DEF t
<1>4. /\ v \in Seq(FrameType) /\ v # <<>> /\ Len(v) = Len(s) + 1 /\ v[Len(s) + 1] = g
      /\ \A i \in 1..Len(s) : v[i] = t[i]
  BY <1>3, Added
<1>5. stack' = [stack EXCEPT ![th] = v]
  BY DEF t
<1> HIDE DEF v
<1>6. stack' \in [Threads -> Seq(FrameType)] /\ stack'[th] = v
      /\ \A u \in Threads : u # th => stack'[u] = stack[u]
  BY Zenon, <1>4, <1>5
<1>7. \A u \in Threads : Len(stack'[u]) = Len(stack[u]) + (IF u = th THEN 1 ELSE 0)
  BY <1>4, <1>6
<1>8. \A u \in Threads : \A i \in Depths(u) :
        stack'[u][i] = IF u = th /\ i = Len(stack[th]) THEN f ELSE stack[u][i]
  <2>1. \A i \in 1..Len(s) : v[i] = IF i = Len(s) THEN f ELSE s[i]
    BY <1>2, <1>3, <1>4
  <2> QED
    BY Zenon, <1>6, <2>1 DEF Depths
<1> QED
  BY Zenon, <1>4, <1>6, <1>7, <1>8 DEF Pushed

\* A return.
LEMMA PopStack ==
  ASSUME stack \in [Threads -> Seq(FrameType)], NEW th \in Threads, stack[th] # <<>>,
         stack' = [stack EXCEPT ![th] = Below(stack[th])]
  PROVE  /\ stack' \in [Threads -> Seq(FrameType)] /\ Popped(th)
         /\ \A u \in Threads : u # th => stack'[u] = stack[u]
<1> DEFINE s == stack[th]
           t == Below(s)
<1>1. s \in Seq(FrameType)
  OBVIOUS
<1>2. /\ Len(s) \in Nat \ {0} /\ t \in Seq(FrameType) /\ Len(t) = Len(s) - 1
      /\ \A i \in 1..Len(s) - 1 : t[i] = s[i]
  BY Zenon, <1>1, Ends
<1>3. stack' = [stack EXCEPT ![th] = t]
  OBVIOUS
<1> HIDE DEF t
<1>4. stack' \in [Threads -> Seq(FrameType)] /\ stack'[th] = t
      /\ \A u \in Threads : u # th => stack'[u] = stack[u]
  BY <1>2, <1>3
<1> QED
  BY <1>2, <1>4 DEF Popped

-----------------------------------------------------------------------------
(* What the actions do *)

Further(th) == [job |-> Top(th).job, next |-> Top(th).next + 1, at |-> Top(th).at, here |-> Top(th).here]

Going(th, at) == [job |-> Top(th).job, next |-> Top(th).next, at |-> at, here |-> Top(th).here]

\* The innermost frame, and what the thread makes of it.
LEMMA TopFrame ==
  ASSUME TypeInv, NEW th \in Threads, stack[th] # <<>>
  PROVE  /\ Len(stack[th]) \in Nat \ {0} /\ Top(th) = stack[th][Len(stack[th])]
         /\ Top(th) \in FrameType
         /\ PastSubmit(th) = Append(Below(stack[th]), Further(th)) /\ Further(th) \in FrameType
         /\ \A at \in Places : [Top(th) EXCEPT !.at = at] = Going(th, at) /\ Going(th, at) \in FrameType
<1>1. stack[th] \in Seq(FrameType)
  BY DEF TypeInv
<1>2. Len(stack[th]) \in Nat \ {0} /\ Top(th) = stack[th][Len(stack[th])] /\ Top(th) \in FrameType
  BY Zenon, <1>1, Ends DEF Top
<1>3. [Top(th) EXCEPT !.next = @ + 1] = Further(th) /\ Further(th) \in FrameType
  BY <1>2 DEF FrameType, Further
<1>4. ASSUME NEW at \in Places
      PROVE  [Top(th) EXCEPT !.at = at] = Going(th, at) /\ Going(th, at) \in FrameType
  BY <1>2 DEF FrameType, Going
<1> QED
  BY <1>2, <1>3, <1>4 DEF PastSubmit

\* The routine that is submitted.
LEMMA SubmittedRoutine ==
  ASSUME TypeInv, NEW th \in Threads, Submitting(th)
  PROVE  /\ stack[th] # <<>> /\ Top(th).job \in Jobs /\ Top(th).next \in 1..Len(Children[Top(th).job])
         /\ Len(Children[Top(th).job]) \in Nat /\ Top(th).at = "submit"
         /\ Submitted(th) = Children[Top(th).job][Top(th).next] /\ Submitted(th) \in Routines
<1>1. /\ stack[th] # <<>> /\ Top(th) \in FrameType
      /\ Top(th).next <= Len(Children[Top(th).job]) /\ Top(th).at = "submit"
  BY TopFrame DEF Submitting, At
<1>2. Children[Top(th).job] \in Seq(Routines)
  BY <1>1, PoolAssumption DEF FrameType
<1> QED
  BY <1>1, <1>2 DEF FrameType, Submitted

LEMMA FrameTyped ==
  ASSUME NEW r \in Routines, NEW here \in BOOLEAN
  PROVE  Frame(r, here) \in FrameType
  BY DEF Frame, FrameType, Places, Jobs

\* The steps that only move the innermost frame on.
LEMMA MoveToStep ==
  ASSUME TypeInv, NEW th \in Threads, NEW at \in Places, stack[th] # <<>>, MoveTo(th, at)
  PROVE  /\ stack' \in [Threads -> Seq(FrameType)] /\ Moved(th, Going(th, at))
         /\ \A u \in Threads : stack'[u] = <<>> <=> stack[u] = <<>>
<1>1. stack' = [stack EXCEPT ![th] = Append(Below(stack[th]), Going(th, at))]
  BY Zenon, TopFrame DEF MoveTo, TypeInv
<1> QED
  BY Zenon, <1>1, TopFrame, MoveStack DEF TypeInv

LEMMA PastSubmitStep ==
  ASSUME TypeInv, NEW th \in Threads, stack[th] # <<>>,
         stack' = [stack EXCEPT ![th] = PastSubmit(th)]
  PROVE  /\ stack' \in [Threads -> Seq(FrameType)] /\ Moved(th, Further(th))
         /\ \A u \in Threads : stack'[u] = <<>> <=> stack[u] = <<>>
<1>1. stack' = [stack EXCEPT ![th] = Append(Below(stack[th]), Further(th))]
  BY Zenon, TopFrame
<1> QED
  BY Zenon, <1>1, TopFrame, MoveStack DEF TypeInv

\* Calls.
LEMMA SubmitAndRunStep ==
  ASSUME TypeInv, NEW th \in Threads, SubmitAndRun(th)
  PROVE  /\ stack' \in [Threads -> Seq(FrameType)]
         /\ Pushed(th, Further(th), Frame(Submitted(th), TRUE))
         /\ \A u \in Threads : stack'[u] = <<>> <=> stack[u] = <<>>
         /\ ran' = [ran EXCEPT ![Submitted(th)] = @ + 1]
         /\ is_leaf' = [is_leaf EXCEPT ![th] = Submitted(th) \in Leaf]
<1>1. stack[th] # <<>> /\ Submitted(th) \in Routines /\ Frame(Submitted(th), TRUE) \in FrameType
  BY Zenon, SubmittedRoutine, FrameTyped DEF SubmitAndRun
<1>2. stack' = [stack EXCEPT ![th] = Append(Append(Below(stack[th]), Further(th)),
                                            Frame(Submitted(th), TRUE))]
  BY Zenon, <1>1, TopFrame DEF SubmitAndRun, Call
<1>3. /\ ran' = [ran EXCEPT ![Submitted(th)] = @ + 1]
      /\ is_leaf' = [is_leaf EXCEPT ![th] = Submitted(th) \in Leaf]
  BY DEF SubmitAndRun, Call
<1>4. Further(th) \in FrameType /\ stack \in [Threads -> Seq(FrameType)]
  BY <1>1, TopFrame DEF TypeInv
<1> QED
  BY Zenon, <1>1, <1>2, <1>3, <1>4, MovePush

LEMMA TakeStep ==
  ASSUME TypeInv, NEW th \in Threads, Take(th)
  PROVE  /\ stack' \in [Threads -> Seq(FrameType)]
         /\ Head(queue) \in Routines /\ Len(queue) \in Nat \ {0} /\ queue' = Tail(queue)
         /\ Pushed(th, Top(th), Frame(Head(queue), FALSE))
         /\ \A u \in Threads : stack'[u] = <<>> <=> u # th /\ stack[u] = <<>>
         /\ ran' = [ran EXCEPT ![Head(queue)] = @ + 1]
         /\ is_leaf' = [is_leaf EXCEPT ![th] = Head(queue) \in Leaf]
<1>1. Head(queue) \in Routines /\ Len(queue) \in Nat \ {0} /\ Frame(Head(queue), FALSE) \in FrameType
  <2>1. Head(queue) \in Routines /\ Len(queue) \in Nat \ {0}
    BY DEF Take, TypeInv
  <2> QED
    BY Zenon, <2>1, FrameTyped
<1>2. stack' = [stack EXCEPT ![th] = Append(stack[th], Frame(Head(queue), FALSE))]
  BY DEF Take, Call
<1>3. /\ ran' = [ran EXCEPT ![Head(queue)] = @ + 1]
      /\ is_leaf' = [is_leaf EXCEPT ![th] = Head(queue) \in Leaf] /\ queue' = Tail(queue)
  BY DEF Take, Call
<1> QED
  BY Zenon, <1>1, <1>2, <1>3, PushStack DEF TypeInv

\* Returns.
LEMMA ReturnStep ==
  ASSUME TypeInv, NEW th \in Threads, ReturnToSubmit(th) \/ Leave(th)
  PROVE  /\ stack' \in [Threads -> Seq(FrameType)] /\ Popped(th) /\ stack[th] # <<>>
         /\ \A u \in Threads : u # th => stack'[u] = stack[u]
<1>1. stack[th] # <<>> /\ stack' = [stack EXCEPT ![th] = Below(stack[th])]
  BY DEF ReturnToSubmit, Leave, At, TypeInv
<1> QED
  BY Zenon, <1>1, PopStack DEF TypeInv

\* The steps that move the innermost frame on, with the new place of it.
LEMMA WaitSteps ==
  ASSUME TypeInv, NEW th \in Threads,
         StartWait(th) \/ Flushed(th) \/ Waited(th) \/ ReturnToRun(th)
  PROVE  /\ stack[th] # <<>>
         /\ \E at \in Places : MoveTo(th, at)
  BY DEF StartWait, Flushed, Waited, ReturnToRun, At, Places

-----------------------------------------------------------------------------
(* The queue and the workers that sleep *)

\* The workers in the loop of run that are awake and in no routine.
Awake == {w \in Workers \ sleeping : stack[w] = <<>>}

LEMMA One == ASSUME NEW S, NEW x \in S PROVE <<x>> \in Seq(S)
  OBVIOUS

LEMMA Changed ==
  ASSUME NEW S, NEW T, NEW f \in [S -> T], NEW a \in S, NEW b \in T
  PROVE  [f EXCEPT ![a] = b] \in [S -> T]
  BY Zenon

LEMMA InitType == Init => TypeInv
<1> SUFFICES ASSUME Init PROVE TypeInv
  OBVIOUS
<1>1. ASSUME NEW th \in Clients
      PROVE  <<Frame(th, TRUE)>> \in Seq(FrameType)
  <2>1. Frame(th, TRUE) \in FrameType
    BY DEF Frame, FrameType, Places, Jobs
  <2> QED
    BY Zenon, <2>1, One
<1>2. <<>> \in Seq(FrameType) /\ queue \in Seq(Routines) /\ num \in [Jobs -> Int]
      /\ ran \in [Routines -> Nat]
  BY DEF Init
<1>3. stack \in [Threads -> Seq(FrameType)]
  <2> DEFINE t(th) == IF th \in Clients THEN <<Frame(th, TRUE)>> ELSE <<>>
  <2>1. \A th \in Threads : t(th) \in Seq(FrameType)
    BY Zenon, <1>1, <1>2
  <2>2. stack = [th \in Threads |-> t(th)]
    BY DEF Init
  <2> HIDE DEF t
  <2> QED
    BY <2>1, <2>2
<1>4. is_leaf \in [Threads -> BOOLEAN] /\ sleeping = {}
  BY Zenon DEF Init
<1> QED
  BY <1>2, <1>3, <1>4 DEF TypeInv

\* notify_one wakes one worker, if one sleeps.
LEMMA Woken ==
  ASSUME TypeInv, NotifyOne
  PROVE  /\ sleeping' \subseteq sleeping
         /\ sleeping = {} \/ \E w \in sleeping : sleeping' = sleeping \ {w}
  BY DEF NotifyOne

\* Every step keeps the types, and no sleeping worker enters a routine.
LEMMA StepType == TypeInv /\ [Next]_vars => TypeInv'
<1> SUFFICES ASSUME TypeInv, [Next]_vars
             PROVE  TypeInv'
  OBVIOUS
<1>1. ASSUME NEW th \in Threads, SubmitThrows(th)
      PROVE  TypeInv'
  <2>1. stack[th] # <<>> /\ stack' = [stack EXCEPT ![th] = PastSubmit(th)]
    BY <1>1, SubmittedRoutine DEF SubmitThrows
  <2> QED
    BY Zenon, <1>1, <2>1, PastSubmitStep DEF SubmitThrows, TypeInv, Threads
<1>2. ASSUME NEW th \in Threads, SubmitToQueue(th)
      PROVE  TypeInv'
  <2>1. stack[th] # <<>> /\ stack' = [stack EXCEPT ![th] = PastSubmit(th)]
    BY <1>2, SubmittedRoutine DEF SubmitToQueue
  <2>2. /\ stack' \in [Threads -> Seq(FrameType)]
        /\ \A u \in Threads : stack'[u] = <<>> <=> stack[u] = <<>>
    BY Zenon, <2>1, PastSubmitStep
  <2>3. Submitted(th) \in Routines
    BY <1>2, SubmittedRoutine DEF SubmitToQueue
  <2>4. queue' \in Seq(Routines)
    <3>1. <<Submitted(th)>> \o queue \in Seq(Routines) /\ Append(queue, Submitted(th)) \in Seq(Routines)
      BY <2>3 DEF TypeInv
    <3> QED
      BY <1>2, <3>1 DEF SubmitToQueue
  <2>5. num' \in [Jobs -> Int]
    BY <1>2, SubmittedRoutine DEF SubmitToQueue, TypeInv
  <2>6. sleeping' \subseteq sleeping
    BY <1>2, Woken DEF SubmitToQueue
  <2> QED
    BY <1>2, <2>2, <2>4, <2>5, <2>6 DEF SubmitToQueue, TypeInv, Threads
<1>3. ASSUME NEW th \in Threads, SubmitAndRun(th)
      PROVE  TypeInv'
  <2>1. /\ stack' \in [Threads -> Seq(FrameType)]
        /\ \A u \in Threads : stack'[u] = <<>> <=> stack[u] = <<>>
        /\ ran' = [ran EXCEPT ![Submitted(th)] = @ + 1]
        /\ is_leaf' = [is_leaf EXCEPT ![th] = Submitted(th) \in Leaf]
    BY Zenon, <1>3, SubmitAndRunStep
  <2>2. ran' \in [Routines -> Nat]
    <3>1. Submitted(th) \in Routines
      BY <1>3, SubmittedRoutine DEF SubmitAndRun
    <3> QED
      BY <2>1, <3>1 DEF TypeInv
  <2>3. is_leaf' \in [Threads -> BOOLEAN]
    BY <2>1 DEF TypeInv
  <2> QED
    BY <1>3, <2>1, <2>2, <2>3 DEF SubmitAndRun, TypeInv, Threads
<1>4. ASSUME NEW th \in Threads, Take(th)
      PROVE  TypeInv'
  <2>1. /\ stack' \in [Threads -> Seq(FrameType)]
        /\ Head(queue) \in Routines /\ Len(queue) \in Nat \ {0} /\ queue' = Tail(queue)
        /\ \A u \in Threads : stack'[u] = <<>> <=> u # th /\ stack[u] = <<>>
        /\ ran' = [ran EXCEPT ![Head(queue)] = @ + 1]
        /\ is_leaf' = [is_leaf EXCEPT ![th] = Head(queue) \in Leaf]
    BY Zenon, <1>4, TakeStep
  <2>2. ran' \in [Routines -> Nat] /\ is_leaf' \in [Threads -> BOOLEAN] /\ queue' \in Seq(Routines)
    BY <2>1 DEF TypeInv
  <2>3. th \notin sleeping
    BY <1>4 DEF Take, InRun, At, TypeInv
  <2> QED
    BY <1>4, <2>1, <2>2, <2>3 DEF Take, TypeInv, Threads
<1>5. ASSUME NEW th \in Threads, StartWait(th) \/ Flushed(th) \/ Waited(th) \/ ReturnToRun(th)
      PROVE  TypeInv'
  <2>1. /\ stack' \in [Threads -> Seq(FrameType)]
        /\ \A u \in Threads : stack'[u] = <<>> <=> stack[u] = <<>>
    BY <1>5, WaitSteps, MoveToStep
  <2>2. is_leaf' \in [Threads -> BOOLEAN]
    BY Zenon, <1>5, Changed DEF StartWait, Flushed, Waited, ReturnToRun, TypeInv
  <2>3. num' \in [Jobs -> Int]
    <3>1. num' = num \/ \E j : num' = [num EXCEPT ![j] = @ - 1]
      BY <1>5 DEF StartWait, Flushed, Waited, ReturnToRun
    <3> QED
      BY <3>1 DEF TypeInv
  <2>4. UNCHANGED <<queue, sleeping, ran>>
    BY <1>5 DEF StartWait, Flushed, Waited, ReturnToRun
  <2> QED
    BY <2>1, <2>2, <2>3, <2>4 DEF TypeInv, Threads
<1>6. ASSUME NEW th \in Threads, ReturnToSubmit(th) \/ Leave(th)
      PROVE  TypeInv'
  <2>1. /\ stack' \in [Threads -> Seq(FrameType)] /\ stack[th] # <<>>
        /\ \A u \in Threads : u # th => stack'[u] = stack[u]
    BY <1>6, ReturnStep
  <2>2. is_leaf' \in [Threads -> BOOLEAN] /\ UNCHANGED <<queue, num, sleeping, ran>>
    BY Zenon, <1>6 DEF ReturnToSubmit, Leave, TypeInv
  <2> QED
    BY <2>1, <2>2 DEF TypeInv, Threads
<1>7. ASSUME NEW w \in Workers, Sleep(w)
      PROVE  TypeInv'
  BY <1>7 DEF Sleep, TypeInv
<1>8. CASE UNCHANGED vars
  BY <1>8 DEF vars, TypeInv
<1> QED
  BY <1>1, <1>2, <1>3, <1>4, <1>5, <1>6, <1>7, <1>8 DEF Next, Step

\* More workers awake are a larger number.
LEMMA MoreAwake ==
  ASSUME NEW S \in SUBSET Workers, NEW T \in SUBSET Workers, S \subseteq T
  PROVE  Cardinality(S) \in Nat /\ Cardinality(T) \in Nat /\ Cardinality(S) <= Cardinality(T)
  BY PoolAssumption, FS_Subset, FS_CardinalityType

\* A step that queues nothing and after which no fewer workers are awake.
LEMMA KeepsIdle ==
  ASSUME NoIdleWork, sleeping' = sleeping, queue' = queue, Awake \subseteq Awake', queue \in Seq(Routines)
  PROVE  NoIdleWork'
<1>1. Cardinality(Awake) \in Nat /\ Cardinality(Awake') \in Nat /\ Cardinality(Awake) <= Cardinality(Awake')
  BY MoreAwake DEF Awake
<1>2. NoIdleWork <=> (sleeping # {} => Len(queue) <= Cardinality(Awake))
  BY DEF NoIdleWork, Awake
<1>3. NoIdleWork' <=> (sleeping' # {} => Len(queue') <= Cardinality(Awake'))
  BY DEF NoIdleWork, Awake
<1>4. Len(queue) \in Nat
  OBVIOUS
<1> QED
  BY <1>1, <1>2, <1>3, <1>4

\* Every step keeps enough workers awake.
LEMMA StepIdle == TypeInv /\ NoIdleWork /\ [Next]_vars => NoIdleWork'
<1> SUFFICES ASSUME TypeInv, NoIdleWork, [Next]_vars
             PROVE  NoIdleWork'
  OBVIOUS
<1>0. /\ NoIdleWork <=> (sleeping # {} => Len(queue) <= Cardinality(Awake))
      /\ NoIdleWork' <=> (sleeping' # {} => Len(queue') <= Cardinality(Awake'))
      /\ queue \in Seq(Routines) /\ Len(queue) \in Nat
      /\ Cardinality(Awake) \in Nat /\ IsFiniteSet(Awake)
  BY PoolAssumption, FS_Subset, FS_CardinalityType DEF NoIdleWork, Awake, TypeInv
<1>1. ASSUME NEW th \in Threads,
             \/ SubmitThrows(th) \/ SubmitAndRun(th) \/ StartWait(th) \/ Flushed(th)
             \/ Waited(th) \/ ReturnToRun(th)
      PROVE  NoIdleWork'
  <2>1. \A u \in Threads : stack'[u] = <<>> <=> stack[u] = <<>>
    <3>1. CASE SubmitThrows(th)
      BY Zenon, <3>1, SubmittedRoutine, PastSubmitStep DEF SubmitThrows
    <3>2. CASE SubmitAndRun(th)
      BY Zenon, <3>2, SubmitAndRunStep
    <3>3. CASE StartWait(th) \/ Flushed(th) \/ Waited(th) \/ ReturnToRun(th)
      BY <3>3, WaitSteps, MoveToStep
    <3> QED
      BY <1>1, <3>1, <3>2, <3>3
  <2>2. UNCHANGED <<sleeping, queue>>
    BY Zenon, <1>1 DEF SubmitThrows, SubmitAndRun, StartWait, Flushed, Waited, ReturnToRun
  <2> QED
    BY <1>0, <2>1, <2>2, KeepsIdle DEF Awake, Threads
<1>2. ASSUME NEW th \in Threads, ReturnToSubmit(th) \/ Leave(th)
      PROVE  NoIdleWork'
  <2>1. stack[th] # <<>> /\ \A u \in Threads : u # th => stack'[u] = stack[u]
    BY <1>2, ReturnStep
  <2>2. UNCHANGED <<sleeping, queue>>
    BY <1>2 DEF ReturnToSubmit, Leave
  <2> QED
    BY <1>0, <2>1, <2>2, KeepsIdle DEF Awake, Threads
<1>3. ASSUME NEW th \in Threads, SubmitToQueue(th)
      PROVE  NoIdleWork'
  <2>1. stack[th] # <<>> /\ stack' = [stack EXCEPT ![th] = PastSubmit(th)]
    BY <1>3, SubmittedRoutine DEF SubmitToQueue
  <2>2. \A u \in Threads : stack'[u] = <<>> <=> stack[u] = <<>>
    BY Zenon, <2>1, PastSubmitStep
  <2>3. Len(queue') = Len(queue) + 1
    <3>1. Submitted(th) \in Routines
      BY <1>3, SubmittedRoutine DEF SubmitToQueue
    <3>2. /\ Len(<<Submitted(th)>> \o queue) = Len(queue) + 1
          /\ Len(Append(queue, Submitted(th))) = Len(queue) + 1
      BY <1>0, <3>1
    <3> QED
      BY <1>3, <3>2 DEF SubmitToQueue
  <2>4. CASE sleeping = {}
    BY <1>0, <1>3, <2>4, Woken DEF SubmitToQueue
  <2>5. CASE sleeping # {}
    <3>1. PICK w \in sleeping : sleeping' = sleeping \ {w}
      BY <1>3, <2>5, Woken DEF SubmitToQueue
    <3>2. w \in Workers /\ stack[w] = <<>> /\ w \notin Awake
      BY DEF TypeInv, Awake
    <3>3. Awake' = Awake \cup {w}
      BY <2>2, <3>1, <3>2 DEF Awake, Threads
    <3>4. Cardinality(Awake') = Cardinality(Awake) + 1
      BY Zenon, <1>0, <3>2, <3>3, FS_AddElement
    <3> QED
      BY <1>0, <2>3, <2>5, <3>4
  <2> QED
    BY <2>4, <2>5
<1>4. ASSUME NEW th \in Threads, Take(th)
      PROVE  NoIdleWork'
  <2>1. /\ \A u \in Threads : stack'[u] = <<>> <=> u # th /\ stack[u] = <<>>
        /\ queue' = Tail(queue) /\ Len(queue) \in Nat \ {0} /\ sleeping' = sleeping
    BY Zenon, <1>4, TakeStep DEF Take
  <2>2. Len(queue') = Len(queue) - 1
    BY <1>0, <2>1
  <2>3. Awake' = Awake \ {th}
    BY <2>1 DEF Awake, Threads
  <2>4. Cardinality(Awake') \in {Cardinality(Awake), Cardinality(Awake) - 1}
    BY <1>0, <2>3, FS_RemoveElement
  <2> QED
    BY <1>0, <2>1, <2>2, <2>4
<1>5. ASSUME NEW w \in Workers, Sleep(w)
      PROVE  NoIdleWork'
  <2>1. queue' = <<>>
    BY <1>5 DEF Sleep
  <2>2. Len(queue') = 0
    BY <2>1
  <2>3. Cardinality(Awake') \in Nat
    BY PoolAssumption, FS_Subset, FS_CardinalityType DEF Awake
  <2> QED
    BY <1>0, <2>2, <2>3
<1>6. CASE UNCHANGED vars
  BY <1>6 DEF vars, NoIdleWork
<1> QED
  BY <1>1, <1>2, <1>3, <1>4, <1>5, <1>6 DEF Next, Step

\* The stacks are stacks of frames, and workers that sleep in has_work.wait run nothing.
THEOREM TypeCorrect == Spec => []TypeInv
<1>1. Init => TypeInv
  BY InitType
<1>2. TypeInv /\ [Next]_vars => TypeInv'
  BY StepType
<1> QED
  BY <1>1, <1>2, PTL DEF Spec

\* One notify_one for each routine that submit queues is enough: however many threads
\* help to empty the queue, no worker sleeps while there is more work than workers awake.
THEOREM NoneIdle == Spec => []NoIdleWork
<1>1. Init => NoIdleWork
  BY DEF Init, NoIdleWork
<1>2. TypeInv /\ NoIdleWork /\ [Next]_vars => NoIdleWork'
  BY StepIdle
<1> QED
  BY <1>1, <1>2, TypeCorrect, PTL DEF Spec

-----------------------------------------------------------------------------
\* A frame below another one is a job that is no leaf, at the call that the frame above
\* it comes from.
Nested ==
  \A th \in Threads : \A i \in Depths(th) : i < Len(stack[th]) =>
    LET f == stack[th][i]
        g == stack[th][i + 1]
    IN /\ f.job \notin Leaf
       /\ f.at = (IF g.here THEN "submit" ELSE "flush")
       /\ g.here => f.next > 1 /\ g.job = Children[f.job][f.next - 1]

\* The outermost frame of a client is its own code, that of a worker a routine which run
\* called; all others are routines.
Outermost ==
  /\ \A c \in Clients : stack[c] # <<>>
  /\ \A th \in Threads : \A i \in Depths(th) :
       IF i = 1 /\ th \in Clients
       THEN stack[th][i].job = th /\ stack[th][i].here
       ELSE stack[th][i].job \in Routines /\ (i = 1 => ~stack[th][i].here)

LeafOnTop ==
  \A th \in Threads : stack[th] # <<>> =>
    is_leaf[th] = (Top(th).job \in Leaf /\ Top(th).at # "leave")

\* Past its submissions a job has none left, and a leaf does not wait.
Counters ==
  \A th \in Threads : \A i \in Depths(th) :
    LET f == stack[th][i]
    IN /\ f.next <= Len(Children[f.job]) + 1
       /\ f.at # "submit" => f.next = Len(Children[f.job]) + 1
       /\ f.job \in Leaf => f.at \notin {"flush", "wait"}
       /\ f.at = "leave" => ~f.here

\* No job is in two frames, and a routine in a frame was started once.
OneFrame ==
  \A th, u \in Threads : \A i \in Depths(th), k \in Depths(u) :
    stack[th][i].job = stack[u][k].job => th = u /\ i = k

Started ==
  \A th \in Threads : \A i \in Depths(th) : stack[th][i].job \in Routines => ran[stack[th][i].job] = 1

\* A routine is queued once, before it is started.
OneEntry ==
  /\ \A i \in 1..Len(queue) : ran[queue[i]] = 0
  /\ \A i, k \in 1..Len(queue) : queue[i] = queue[k] => i = k

Queued(r) == \E i \in 1..Len(queue) : queue[i] = r

\* A routine is only known to the pool when its job was started and is past the
\* submission of it.
Known ==
  \A j \in Jobs : \A k \in 1..Len(Children[j]) :
    Queued(Children[j][k]) \/ ran[Children[j][k]] # 0 =>
      /\ j \in Routines => ran[j] = 1
      /\ \A th \in Threads : \A i \in Depths(th) : stack[th][i].job = j => k < stack[th][i].next

\* Every routine known to the pool is one of some job's.
HasParent ==
  \A r \in Routines : Queued(r) \/ ran[r] # 0 => \E j \in Jobs : \E k \in 1..Len(Children[j]) : Children[j][k] = r

\* A job that is no leaf submitted every routine before the next one.
AllSubmitted ==
  \A th \in Threads : \A i \in Depths(th) : stack[th][i].job \notin Leaf =>
    \A k \in 1..Len(Children[stack[th][i].job]) : k < stack[th][i].next =>
      Queued(Children[stack[th][i].job][k]) \/ ran[Children[stack[th][i].job][k]] = 1

\* The routines that the waiter of a job counts.
Counted(r) ==
  \/ Queued(r)
  \/ \E th \in Threads : \E i \in Depths(th) :
       stack[th][i].job = r /\ ~stack[th][i].here /\ stack[th][i].at # "leave"

Open(j) == {k \in 1..Len(Children[j]) : Counted(Children[j][k])}

CountRight == \A j \in Jobs : num[j] = Cardinality(Open(j))

\* A job past its wait has no open routine, for ever.
NoneOpen ==
  \A j \in Jobs \ Leaf : \A th \in Threads : \A i \in Depths(th) :
    stack[th][i].job = j /\ stack[th][i].at \in {"done", "leave"} => Open(j) = {}

RunOnce == \A r \in Routines : ran[r] \in {0, 1}

WaitInv ==
  /\ Nested /\ Outermost /\ LeafOnTop /\ Counters /\ OneFrame /\ Started /\ OneEntry /\ RunOnce
  /\ Known /\ HasParent /\ AllSubmitted /\ CountRight /\ NoneOpen


\* Routines are submitted by one job, at one place of it.
LEMMA OneParent ==
  ASSUME NEW j \in Jobs, NEW k \in 1..Len(Children[j]), NEW m \in Jobs, NEW l \in 1..Len(Children[m])
  PROVE  /\ Children[j][k] \in Routines /\ Len(Children[j]) \in Nat
         /\ Children[j][k] = Children[m][l] => j = m /\ k = l
<1>1. Children[j] \in Seq(Routines) /\ Children[m] \in Seq(Routines)
  BY PoolAssumption
<1>2. k \in DOMAIN Children[j] /\ l \in DOMAIN Children[m]
  BY <1>1
<1> QED
  BY <1>1, <1>2, PoolAssumption

LEMMA ParentIs ==
  ASSUME NEW j \in Jobs, NEW k \in 1..Len(Children[j])
  PROVE  Parent(Children[j][k]) = j
<1> DEFINE r == Children[j][k]
<1>1. Children[j] \in Seq(Routines)
  BY PoolAssumption
<1>2. Range(Children[j]) = {Children[j][i] : i \in DOMAIN Children[j]}
  BY DEF Range
<1>3. r \in Range(Children[j])
  BY <1>1, <1>2
<1>4. ASSUME NEW m \in Jobs, r \in Range(Children[m])
      PROVE  m = j
  <2>1. Children[m] \in Seq(Routines)
    BY PoolAssumption
  <2>2. PICK l \in DOMAIN Children[m] : r = Children[m][l]
    BY <1>4 DEF Range
  <2>3. l \in 1..Len(Children[m])
    BY <2>1
  <2> QED
    BY <2>2, <2>3, OneParent
<1> HIDE DEF r
<1> QED
  BY <1>3, <1>4 DEF Parent, r

\* What holds of all frames when the innermost one of th becomes f.
LEMMA MovedFacts ==
  ASSUME TypeInv, NEW th \in Threads, stack[th] # <<>>, NEW f, Moved(th, f),
         f.job = Top(th).job, f.here = Top(th).here
  PROVE  /\ \A u \in Threads : Depths(u)' = Depths(u) /\ Len(stack'[u]) = Len(stack[u])
         /\ \A u \in Threads : \A i \in Depths(u) :
              /\ stack'[u][i].job = stack[u][i].job /\ stack'[u][i].here = stack[u][i].here
              /\ u # th \/ i # Len(stack[th]) => stack'[u][i] = stack[u][i]
         /\ Len(stack[th]) \in Depths(th) /\ stack'[th][Len(stack[th])] = f
         /\ stack[th][Len(stack[th])] = Top(th)
<1>1. Len(stack[th]) \in Nat \ {0} /\ Top(th) = stack[th][Len(stack[th])]
  BY TopFrame
<1>2. Len(stack[th]) \in Depths(th)
  BY <1>1 DEF Depths
<1>3. \A u \in Threads : Depths(u)' = Depths(u) /\ Len(stack'[u]) = Len(stack[u])
  BY DEF Moved, Depths
<1> QED
  BY <1>1, <1>2, <1>3 DEF Moved

\* The calls below and above each other stay what they are.
LEMMA MovedStructure ==
  ASSUME TypeInv, WaitInv, NEW th \in Threads, stack[th] # <<>>, NEW f, Moved(th, f),
         f.job = Top(th).job, f.here = Top(th).here, ran' = ran
  PROVE  Nested' /\ Outermost' /\ OneFrame' /\ Started' /\ RunOnce'
<1>1. /\ \A u \in Threads : Depths(u)' = Depths(u) /\ Len(stack'[u]) = Len(stack[u])
      /\ \A u \in Threads : \A i \in Depths(u) :
           /\ stack'[u][i].job = stack[u][i].job /\ stack'[u][i].here = stack[u][i].here
           /\ u # th \/ i # Len(stack[th]) => stack'[u][i] = stack[u][i]
  BY MovedFacts
<1>2. \A u \in Threads : Len(stack[u]) \in Nat
  BY DEF TypeInv
<1>3. Nested'
  <2> SUFFICES ASSUME NEW u \in Threads, NEW i \in Depths(u)', i < Len(stack'[u])
               PROVE  /\ stack'[u][i].job \notin Leaf
                      /\ stack'[u][i].at = (IF stack'[u][i + 1].here THEN "submit" ELSE "flush")
                      /\ stack'[u][i + 1].here =>
                           /\ stack'[u][i].next > 1
                           /\ stack'[u][i + 1].job = Children[stack'[u][i].job][stack'[u][i].next - 1]
    BY Zenon DEF Nested
  <2>1. i \in Depths(u) /\ i + 1 \in Depths(u) /\ i < Len(stack[u])
    BY <1>1, <1>2 DEF Depths
  <2>2. stack'[u][i] = stack[u][i]
    BY <1>1, <2>1
  <2>3. stack'[u][i + 1].here = stack[u][i + 1].here /\ stack'[u][i + 1].job = stack[u][i + 1].job
    BY <1>1, <2>1
  <2> QED
    BY <2>1, <2>2, <2>3 DEF WaitInv, Nested
<1>4. Outermost'
  <2>1. \A c \in Clients : stack'[c] # <<>>
    <3> SUFFICES ASSUME NEW c \in Clients PROVE stack'[c] # <<>>
      OBVIOUS
    <3>1. c \in Threads /\ stack[c] # <<>> /\ stack[c] \in Seq(FrameType)
      BY DEF Threads, WaitInv, Outermost, TypeInv
    <3>2. Len(stack[c]) # 0
      BY <3>1
    <3> QED
      BY <1>1, <3>1, <3>2
  <2> QED
    BY <1>1, <2>1 DEF WaitInv, Outermost
<1>5. OneFrame' /\ Started'
  BY <1>1 DEF WaitInv, OneFrame, Started
<1> QED
  BY <1>3, <1>4, <1>5 DEF WaitInv, RunOnce

\* What is known of the routines when neither the queue nor their number of runs changes.
LEMMA MovedRoutines ==
  ASSUME TypeInv, WaitInv, NEW th \in Threads, stack[th] # <<>>, NEW f \in FrameType, Moved(th, f),
         f.job = Top(th).job, f.here = Top(th).here, f.next >= Top(th).next,
         UNCHANGED <<queue, ran>>
  PROVE  /\ OneEntry' /\ Known' /\ HasParent'
         /\ f.next = Top(th).next \/ f.job \in Leaf => AllSubmitted'
         /\ \A r : Queued(r)' <=> Queued(r)
<1>1. /\ \A u \in Threads : Depths(u)' = Depths(u)
      /\ \A u \in Threads : \A i \in Depths(u) :
           /\ stack'[u][i].job = stack[u][i].job
           /\ u # th \/ i # Len(stack[th]) => stack'[u][i] = stack[u][i]
      /\ Len(stack[th]) \in Depths(th) /\ stack'[th][Len(stack[th])] = f
      /\ stack[th][Len(stack[th])] = Top(th)
  BY MovedFacts
<1>2. \A r : Queued(r)' <=> Queued(r)
  BY DEF Queued
<1>3. OneEntry' /\ HasParent'
  BY <1>2 DEF WaitInv, OneEntry, HasParent
<1>4. Known'
  <2> SUFFICES ASSUME NEW j \in Jobs, NEW k \in 1..Len(Children[j]),
                      Queued(Children[j][k]) \/ ran[Children[j][k]] # 0
               PROVE  /\ j \in Routines => ran[j] = 1
                      /\ \A u \in Threads : \A i \in Depths(u) : stack'[u][i].job = j => k < stack'[u][i].next
    BY <1>1, <1>2 DEF Known
  <2>1. /\ j \in Routines => ran[j] = 1
        /\ \A u \in Threads : \A i \in Depths(u) : stack[u][i].job = j => k < stack[u][i].next
    BY DEF WaitInv, Known
  <2>2. Top(th).next \in Nat /\ f.next \in Nat /\ k \in Nat
    BY TopFrame DEF FrameType
  <2> QED
    BY <1>1, <2>1, <2>2
<1>5. ASSUME f.next = Top(th).next \/ f.job \in Leaf
      PROVE  AllSubmitted'
  <2> SUFFICES ASSUME NEW u \in Threads, NEW i \in Depths(u), stack'[u][i].job \notin Leaf,
                      NEW k \in 1..Len(Children[stack'[u][i].job]), k < stack'[u][i].next
               PROVE  \/ Queued(Children[stack'[u][i].job][k])
                      \/ ran[Children[stack'[u][i].job][k]] = 1
    BY <1>1, <1>2 DEF AllSubmitted
  <2>1. stack'[u][i].job = stack[u][i].job /\ stack'[u][i].next = stack[u][i].next
    BY <1>1, <1>5
  <2> QED
    BY Zenon, <2>1 DEF WaitInv, AllSubmitted
<1> QED
  BY <1>2, <1>3, <1>4, <1>5


\* The routines that the waiters count stay the same.
LEMMA SameOpen ==
  ASSUME \A r : Counted(r)' <=> Counted(r)
  PROVE  \A j : Open(j)' = Open(j)
  BY DEF Open

LEMMA MovedCounted ==
  ASSUME TypeInv, NEW th \in Threads, stack[th] # <<>>, NEW f, Moved(th, f),
         f.job = Top(th).job, f.here = Top(th).here, f.at # "leave", Top(th).at # "leave",
         queue' = queue
  PROVE  \A r : Counted(r)' <=> Counted(r)
<1>1. /\ \A u \in Threads : Depths(u)' = Depths(u)
      /\ \A u \in Threads : \A i \in Depths(u) :
           /\ stack'[u][i].job = stack[u][i].job /\ stack'[u][i].here = stack[u][i].here
           /\ u # th \/ i # Len(stack[th]) => stack'[u][i] = stack[u][i]
      /\ stack'[th][Len(stack[th])] = f /\ stack[th][Len(stack[th])] = Top(th)
  BY MovedFacts
<1>2. \A u \in Threads : \A i \in Depths(u) : stack'[u][i].at = "leave" <=> stack[u][i].at = "leave"
  BY Zenon, <1>1
<1> QED
  BY <1>1, <1>2 DEF Counted, Queued

\* A frame that moves on keeps what is said of all others.
LEMMA MovedCounters ==
  ASSUME TypeInv, WaitInv, NEW th \in Threads, stack[th] # <<>>, NEW f, Moved(th, f),
         f.job = Top(th).job, f.here = Top(th).here,
         f.next <= Len(Children[f.job]) + 1,
         f.at # "submit" => f.next = Len(Children[f.job]) + 1,
         f.job \in Leaf => f.at \notin {"flush", "wait"},
         f.at = "leave" => ~f.here
  PROVE  Counters'
<1>1. /\ \A u \in Threads : Depths(u)' = Depths(u)
      /\ \A u \in Threads : \A i \in Depths(u) :
           u # th \/ i # Len(stack[th]) => stack'[u][i] = stack[u][i]
      /\ stack'[th][Len(stack[th])] = f
  BY MovedFacts
<1> SUFFICES ASSUME NEW u \in Threads, NEW i \in Depths(u)
             PROVE  /\ stack'[u][i].next <= Len(Children[stack'[u][i].job]) + 1
                    /\ stack'[u][i].at # "submit" => stack'[u][i].next = Len(Children[stack'[u][i].job]) + 1
                    /\ stack'[u][i].job \in Leaf => stack'[u][i].at \notin {"flush", "wait"}
                    /\ stack'[u][i].at = "leave" => ~stack'[u][i].here
  BY Zenon, <1>1 DEF Counters
<1>2. CASE u = th /\ i = Len(stack[th])
  BY <1>1, <1>2
<1>3. CASE u # th \/ i # Len(stack[th])
  <2>1. stack'[u][i] = stack[u][i]
    BY <1>1, <1>3
  <2> QED
    BY <2>1 DEF WaitInv, Counters
<1> QED
  BY <1>2, <1>3

LEMMA MovedLeaf ==
  ASSUME TypeInv, WaitInv, NEW th \in Threads, stack[th] # <<>>, NEW f, Moved(th, f),
         f.job = Top(th).job, f.here = Top(th).here,
         \A u \in Threads : u # th => is_leaf'[u] = is_leaf[u],
         is_leaf'[th] = (f.job \in Leaf /\ f.at # "leave"),
         \A u \in Threads : stack'[u] = <<>> <=> stack[u] = <<>>
  PROVE  LeafOnTop'
<1>1. /\ \A u \in Threads : Depths(u)' = Depths(u) /\ Len(stack'[u]) = Len(stack[u])
      /\ \A u \in Threads : \A i \in Depths(u) :
           u # th \/ i # Len(stack[th]) => stack'[u][i] = stack[u][i]
      /\ stack'[th][Len(stack[th])] = f
  BY MovedFacts
<1> SUFFICES ASSUME NEW u \in Threads, stack'[u] # <<>>
             PROVE  is_leaf'[u] = (Top(u)'.job \in Leaf /\ Top(u)'.at # "leave")
  BY Zenon DEF LeafOnTop
<1>2. Top(u)' = stack'[u][Len(stack[u])]
  BY <1>1 DEF Top
<1>3. CASE u = th
  BY <1>1, <1>2, <1>3
<1>4. CASE u # th
  <2>1. stack[u] # <<>>
    BY Zenon
  <2>2. Len(stack[u]) \in Depths(u) /\ Top(u) = stack[u][Len(stack[u])]
    BY <2>1, TopFrame DEF Depths
  <2>3. Top(u)' = Top(u)
    BY <1>1, <1>2, <1>4, <2>2
  <2>4. is_leaf[u] = (Top(u).job \in Leaf /\ Top(u).at # "leave")
    BY Zenon, <2>1 DEF WaitInv, LeafOnTop
  <2> QED
    BY Zenon, <1>4, <2>3, <2>4
<1> QED
  BY <1>3, <1>4

\* A job past its wait stays without open routines when nothing is opened.
LEMMA MovedNone ==
  ASSUME TypeInv, WaitInv, NEW th \in Threads, stack[th] # <<>>, NEW f, Moved(th, f),
         f.job = Top(th).job, f.here = Top(th).here,
         \A j \in Jobs : Open(j)' \subseteq Open(j),
         f.at \in {"done", "leave"} /\ f.job \notin Leaf => Open(f.job) = {}
  PROVE  NoneOpen'
<1>1. /\ \A u \in Threads : Depths(u)' = Depths(u)
      /\ \A u \in Threads : \A i \in Depths(u) :
           /\ stack'[u][i].job = stack[u][i].job
           /\ u # th \/ i # Len(stack[th]) => stack'[u][i] = stack[u][i]
      /\ stack'[th][Len(stack[th])] = f
  BY MovedFacts
<1> SUFFICES ASSUME NEW j \in Jobs \ Leaf, NEW u \in Threads, NEW i \in Depths(u),
                    stack'[u][i].job = j, stack'[u][i].at \in {"done", "leave"}
             PROVE  Open(j)' = {}
  BY Zenon, <1>1 DEF NoneOpen
<1>2. Open(j) = {}
  <2>1. CASE u = th /\ i = Len(stack[th])
    BY <1>1, <2>1
  <2>2. CASE u # th \/ i # Len(stack[th])
    BY <1>1, <2>2 DEF WaitInv, NoneOpen
  <2> QED
    BY Zenon, <2>1, <2>2
<1> QED
  BY Zenon, <1>2


\* The numbers of the waiters stay right when nothing is opened or closed.
LEMMA SameCount ==
  ASSUME WaitInv, num' = num, \A j : Open(j)' = Open(j)
  PROVE  CountRight'
  BY Zenon DEF WaitInv, CountRight

LEMMA OpenFinite ==
  ASSUME NEW j \in Jobs
  PROVE  IsFiniteSet(Open(j)) /\ Cardinality(Open(j)) \in Nat
<1>1. Children[j] \in Seq(Routines)
  BY PoolAssumption
<1>2. IsFiniteSet(1..Len(Children[j]))
  BY <1>1, FS_Interval
<1>3. Open(j) \subseteq 1..Len(Children[j])
  BY Zenon DEF Open
<1> QED
  BY <1>2, <1>3, FS_Subset, FS_CardinalityType

\* The fields of the innermost frame.
LEMMA TopFields ==
  ASSUME TypeInv, WaitInv, NEW th \in Threads, stack[th] # <<>>
  PROVE  /\ Top(th) \in FrameType /\ Top(th).job \in Jobs /\ Top(th).next \in Nat /\ Top(th).next >= 1
         /\ Children[Top(th).job] \in Seq(Routines) /\ Len(Children[Top(th).job]) \in Nat
         /\ Top(th).next <= Len(Children[Top(th).job]) + 1
         /\ Top(th).at # "submit" => Top(th).next = Len(Children[Top(th).job]) + 1
         /\ Top(th).job \in Leaf => Top(th).at \notin {"flush", "wait"}
         /\ Top(th).at = "leave" => ~Top(th).here
         /\ Top(th).job \in Routines => ran[Top(th).job] = 1
         /\ Len(stack[th]) \in Depths(th) /\ Top(th) = stack[th][Len(stack[th])]
<1>1. Len(stack[th]) \in Nat \ {0} /\ Top(th) = stack[th][Len(stack[th])] /\ Top(th) \in FrameType
  BY TopFrame
<1>2. Len(stack[th]) \in Depths(th)
  BY <1>1 DEF Depths
<1>3. Top(th).job \in Jobs /\ Top(th).next \in Nat /\ Top(th).next >= 1
  BY <1>1 DEF FrameType
<1>4. Children[Top(th).job] \in Seq(Routines)
  BY <1>3, PoolAssumption
<1>5. /\ Top(th).next <= Len(Children[Top(th).job]) + 1
      /\ Top(th).at # "submit" => Top(th).next = Len(Children[Top(th).job]) + 1
      /\ Top(th).job \in Leaf => Top(th).at \notin {"flush", "wait"}
      /\ Top(th).at = "leave" => ~Top(th).here
  BY <1>1, <1>2 DEF WaitInv, Counters
<1>6. Top(th).job \in Routines => ran[Top(th).job] = 1
  BY <1>1, <1>2 DEF WaitInv, Started
<1> QED
  BY <1>1, <1>2, <1>3, <1>4, <1>5, <1>6

\* A step of wait: the innermost frame goes to another place.
LEMMA WaitingStep ==
  ASSUME TypeInv, WaitInv, NEW th \in Threads, stack[th] # <<>>, NEW at \in {"flush", "wait", "done"},
         MoveTo(th, at), Top(th).at # "leave",
         Top(th).next = Len(Children[Top(th).job]) + 1,
         Top(th).job \in Leaf => at = "done",
         at = "done" /\ Top(th).job \notin Leaf => Open(Top(th).job) = {},
         UNCHANGED <<queue, num, is_leaf, ran>>
  PROVE  WaitInv'
<1> DEFINE f == Going(th, at)
<1>1. at \in Places
  BY DEF Places
<1>2. /\ Moved(th, f) /\ f \in FrameType
      /\ \A u \in Threads : stack'[u] = <<>> <=> stack[u] = <<>>
  BY <1>1, MoveToStep, TopFrame
<1>3. f.job = Top(th).job /\ f.here = Top(th).here /\ f.next = Top(th).next /\ f.at = at
  BY Zenon DEF Going
<1>4. Top(th).next \in Nat /\ Len(Children[Top(th).job]) \in Nat
  BY Zenon, TopFields
<1> HIDE DEF f
<1>5. Nested' /\ Outermost' /\ OneFrame' /\ Started' /\ RunOnce'
  BY <1>2, <1>3, MovedStructure
<1>6. OneEntry' /\ Known' /\ HasParent' /\ AllSubmitted'
  BY <1>2, <1>3, <1>4, MovedRoutines
<1>7. Counters'
  BY <1>2, <1>3, <1>4, MovedCounters
<1>8. is_leaf[th] = (Top(th).job \in Leaf /\ Top(th).at # "leave")
  BY Zenon DEF WaitInv, LeafOnTop
<1>9. LeafOnTop'
  BY <1>2, <1>3, <1>8, MovedLeaf
<1>10. \A j : Open(j)' = Open(j)
  <2>1. f.at # "leave"
    BY <1>3
  <2>2. \A r : Counted(r)' <=> Counted(r)
    BY <1>2, <1>3, <2>1, MovedCounted
  <2> QED
    BY <2>2, SameOpen
<1>11. CountRight'
  BY <1>10, SameCount
<1>12. NoneOpen'
  <2>1. f.at \in {"done", "leave"} /\ f.job \notin Leaf => Open(f.job) = {}
    BY <1>3
  <2> QED
    BY <1>2, <1>3, <1>10, <2>1, MovedNone
<1> QED
  BY <1>5, <1>6, <1>7, <1>9, <1>11, <1>12 DEF WaitInv

LEMMA WaitSafe ==
  ASSUME TypeInv, WaitInv, NEW th \in Threads, StartWait(th) \/ Flushed(th) \/ Waited(th)
  PROVE  WaitInv'
<1>1. stack[th] # <<>> /\ UNCHANGED <<queue, num, is_leaf, ran>>
  BY DEF StartWait, Flushed, Waited, At
<1>2. /\ Top(th).job \in Jobs /\ Top(th).next \in Nat /\ Len(Children[Top(th).job]) \in Nat
      /\ Top(th).next <= Len(Children[Top(th).job]) + 1
      /\ Top(th).at # "submit" => Top(th).next = Len(Children[Top(th).job]) + 1
      /\ Top(th).job \in Leaf => Top(th).at \notin {"flush", "wait"}
  BY <1>1, TopFields
<1>3. CASE StartWait(th)
  <2> DEFINE at == IF Top(th).job \in Leaf THEN "done" ELSE "flush"
  <2>1. Top(th).at = "submit" /\ Top(th).next = Len(Children[Top(th).job]) + 1 /\ MoveTo(th, at)
    BY <1>2, <1>3 DEF StartWait, At, Submitting
  <2>2. /\ at \in {"flush", "wait", "done"} /\ (Top(th).job \in Leaf => at = "done")
        /\ at = "done" => Top(th).job \in Leaf
    OBVIOUS
  <2> HIDE DEF at
  <2> QED
    BY <1>1, <2>1, <2>2, WaitingStep
<1>4. CASE Flushed(th)
  <2>1. Top(th).at = "flush" /\ MoveTo(th, "wait")
    BY <1>4 DEF Flushed, At
  <2> QED
    BY <1>1, <1>2, <2>1, WaitingStep
<1>5. CASE Waited(th)
  <2>1. Top(th).at = "wait" /\ MoveTo(th, "done") /\ num[Top(th).job] = 0
    BY <1>5 DEF Waited, At
  <2>2. Cardinality(Open(Top(th).job)) = 0
    BY <1>2, <2>1 DEF WaitInv, CountRight
  <2>3. Open(Top(th).job) = {}
    BY <1>2, <2>2, OpenFinite, FS_EmptySet
  <2> QED
    BY <1>1, <1>2, <2>1, <2>3, WaitingStep
<1> QED
  BY <1>3, <1>4, <1>5

\* dec: the routine that returns to run is no longer counted.
LEMMA ReturnToRunSafe ==
  ASSUME TypeInv, WaitInv, NEW th \in Threads, ReturnToRun(th)
  PROVE  WaitInv'
<1> DEFINE f == Going(th, "leave")
<1>0. PICK r \in Routines : r = Top(th).job
  BY DEF ReturnToRun
<1>1. /\ stack[th] # <<>> /\ Top(th).at = "done" /\ ~Top(th).here
      /\ num' = [num EXCEPT ![Parent(r)] = @ - 1] /\ is_leaf' = [is_leaf EXCEPT ![th] = FALSE]
      /\ MoveTo(th, "leave") /\ UNCHANGED <<queue, ran>>
  BY <1>0 DEF ReturnToRun, At
<1>2. /\ Moved(th, f) /\ f \in FrameType
      /\ \A u \in Threads : stack'[u] = <<>> <=> stack[u] = <<>>
  BY <1>1, MoveToStep, TopFrame DEF Places
<1>3. f.job = Top(th).job /\ f.here = Top(th).here /\ f.next = Top(th).next /\ f.at = "leave"
      /\ f.job = r
  BY Zenon, <1>0 DEF Going
<1>4. /\ Top(th).next \in Nat /\ Top(th).next = Len(Children[r]) + 1 /\ ran[r] = 1
      /\ Len(Children[r]) \in Nat /\ Len(stack[th]) \in Depths(th) /\ Top(th) = stack[th][Len(stack[th])]
  BY Zenon, <1>0, <1>1, TopFields
<1> HIDE DEF f
<1>a. stack[th] # <<>> /\ UNCHANGED <<queue, ran>>
  BY <1>1
<1>b. f.job = Top(th).job /\ f.here = Top(th).here /\ f.next = Top(th).next /\ f.next >= Top(th).next
  BY <1>3, <1>4
<1>c. /\ f.next <= Len(Children[f.job]) + 1 /\ f.next = Len(Children[f.job]) + 1
      /\ f.at = "leave" /\ ~f.here
  BY <1>1, <1>3, <1>4
<1>5. Nested' /\ Outermost' /\ OneFrame' /\ Started' /\ RunOnce'
  BY <1>a, <1>b, <1>2, MovedStructure
<1>6. OneEntry' /\ Known' /\ HasParent' /\ AllSubmitted'
  BY <1>a, <1>b, <1>2, MovedRoutines
<1>7. Counters'
  BY <1>a, <1>b, <1>c, <1>2, MovedCounters
<1>8. LeafOnTop'
  <2>1. is_leaf'[th] = (f.job \in Leaf /\ f.at # "leave") /\ \A u \in Threads : u # th => is_leaf'[u] = is_leaf[u]
    BY Zenon, <1>1, <1>3 DEF TypeInv
  <2> QED
    BY Zenon, <1>1, <1>2, <1>3, <2>1, MovedLeaf
<1>9. PICK j \in Jobs : \E k \in 1..Len(Children[j]) : Children[j][k] = r
  BY <1>4 DEF WaitInv, HasParent
<1>10. PICK k \in 1..Len(Children[j]) : Children[j][k] = r
  BY <1>9
<1>11. Parent(r) = j
  BY Zenon, <1>10, ParentIs
<1>12. /\ \A u \in Threads : Depths(u)' = Depths(u)
       /\ \A u \in Threads : \A i \in Depths(u) :
            /\ stack'[u][i].job = stack[u][i].job
            /\ u # th \/ i # Len(stack[th]) => stack'[u][i] = stack[u][i]
       /\ stack'[th][Len(stack[th])] = f
  BY Zenon, <1>a, <1>b, <1>2, MovedFacts
<1>13. \A u \in Threads : \A i \in Depths(u) : stack[u][i].job = r => u = th /\ i = Len(stack[th])
  BY <1>0, <1>4 DEF WaitInv, OneFrame
<1>14. Counted(r)
  BY <1>0, <1>1, <1>4 DEF Counted
<1>15. ~Counted(r)'
  <2>1. ~Queued(r)
    BY <1>4 DEF WaitInv, OneEntry, Queued
  <2>2. ~Queued(r)'
    BY <1>1, <2>1 DEF Queued
  <2>3. ASSUME NEW u \in Threads, NEW i \in Depths(u), stack'[u][i].job = r
        PROVE  stack'[u][i].at = "leave"
    BY <1>3, <1>12, <1>13, <2>3
  <2> QED
    BY <1>12, <2>2, <2>3 DEF Counted
<1>16. ASSUME NEW c, c # r
       PROVE  Counted(c)' <=> Counted(c)
  <2>1. \A u \in Threads : \A i \in Depths(u) :
          stack'[u][i].job = c \/ stack[u][i].job = c => stack'[u][i] = stack[u][i]
    BY Zenon, <1>0, <1>4, <1>12, <1>16
  <2>2. Queued(c)' <=> Queued(c)
    BY <1>1 DEF Queued
  <2> QED
    BY <1>12, <2>1, <2>2 DEF Counted
<1>17. Open(j)' = Open(j) \ {k} /\ k \in Open(j)
  <2>1. \A l \in 1..Len(Children[j]) : Children[j][l] = r => l = k
    BY <1>10, OneParent
  <2> QED
    BY <1>10, <1>14, <1>15, <1>16, <2>1 DEF Open
<1>18. ASSUME NEW m \in Jobs, m # j
       PROVE  Open(m)' = Open(m)
  <2>1. \A l \in 1..Len(Children[m]) : Children[m][l] # r
    BY <1>10, <1>18, OneParent
  <2> QED
    BY <1>16, <2>1 DEF Open
<1>19. CountRight'
  <2>1. num'[j] = num[j] - 1 /\ \A m \in Jobs : m # j => num'[m] = num[m]
    BY <1>1, <1>11 DEF TypeInv
  <2>2. Cardinality(Open(j) \ {k}) = Cardinality(Open(j)) - 1
    BY Zenon, <1>17, OpenFinite, FS_RemoveElement
  <2>3. num'[j] = Cardinality(Open(j)')
    BY <1>17, <2>1, <2>2 DEF WaitInv, CountRight
  <2>4. ASSUME NEW m \in Jobs
        PROVE  num'[m] = Cardinality(Open(m)')
    <3>1. CASE m = j
      BY <2>3, <3>1
    <3>2. CASE m # j
      BY <1>18, <2>1, <3>2 DEF WaitInv, CountRight
    <3> QED
      BY <3>1, <3>2
  <2> QED
    BY Zenon, <2>4 DEF CountRight
<1>20. NoneOpen'
  <2>1. \A m \in Jobs : Open(m)' \subseteq Open(m)
    <3> SUFFICES ASSUME NEW m \in Jobs PROVE Open(m)' \subseteq Open(m)
      OBVIOUS
    <3>1. CASE m = j
      BY <1>17, <3>1
    <3>2. CASE m # j
      BY Zenon, <1>18, <3>2
    <3> QED
      BY <3>1, <3>2
  <2>2. r \notin Leaf => Open(r) = {}
    BY <1>0, <1>1, <1>4 DEF WaitInv, NoneOpen, Jobs
  <2> QED
    BY Zenon, <1>1, <1>2, <1>3, <2>1, <2>2, MovedNone
<1> QED
  BY <1>5, <1>6, <1>7, <1>8, <1>19, <1>20 DEF WaitInv


\* A leaf that submits gets an exception, and its waiter counts nothing.
LEMMA SubmitThrowsSafe ==
  ASSUME TypeInv, WaitInv, NEW th \in Threads, SubmitThrows(th)
  PROVE  WaitInv'
<1> DEFINE f == Further(th)
<1>1. /\ stack[th] # <<>> /\ stack' = [stack EXCEPT ![th] = PastSubmit(th)]
      /\ UNCHANGED <<queue, num, is_leaf, ran>> /\ Submitting(th) /\ ~is_leaf[th] = FALSE
  BY SubmittedRoutine DEF SubmitThrows, MaySubmit
<1>2. /\ Moved(th, f) /\ f \in FrameType
      /\ \A u \in Threads : stack'[u] = <<>> <=> stack[u] = <<>>
  BY Zenon, <1>1, PastSubmitStep, TopFrame
<1>3. /\ Top(th).next \in 1..Len(Children[Top(th).job]) /\ Len(Children[Top(th).job]) \in Nat
      /\ Top(th).at = "submit"
  BY <1>1, SubmittedRoutine
<1>4. /\ f.job = Top(th).job /\ f.here = Top(th).here /\ f.next = Top(th).next + 1
      /\ f.at = "submit"
  BY <1>3 DEF Further
<1>5. is_leaf[th] = (Top(th).job \in Leaf /\ Top(th).at # "leave")
  BY Zenon, <1>1 DEF WaitInv, LeafOnTop
<1>6. Top(th).job \in Leaf
  BY Zenon, <1>1, <1>5
<1> HIDE DEF f
<1>7. f.next >= Top(th).next /\ f.next <= Len(Children[f.job]) + 1
  BY <1>3, <1>4
<1>8. Nested' /\ Outermost' /\ OneFrame' /\ Started' /\ RunOnce'
  BY Zenon, <1>1, <1>2, <1>4, MovedStructure
<1>9. OneEntry' /\ Known' /\ HasParent' /\ AllSubmitted'
  BY Zenon, <1>1, <1>2, <1>4, <1>6, <1>7, MovedRoutines
<1>10. Counters'
  BY Zenon, <1>1, <1>2, <1>4, <1>7, MovedCounters
<1>11. LeafOnTop'
  <2>1. is_leaf'[th] = (f.job \in Leaf /\ f.at # "leave") /\ \A u \in Threads : u # th => is_leaf'[u] = is_leaf[u]
    BY <1>1, <1>3, <1>4, <1>5
  <2> QED
    BY <1>1, <1>2, <1>4, <2>1, MovedLeaf
<1>12. \A j : Open(j)' = Open(j)
  <2>1. f.at # "leave" /\ Top(th).at # "leave"
    BY <1>3, <1>4
  <2>2. \A r : Counted(r)' <=> Counted(r)
    BY <1>1, <1>2, <1>4, <2>1, MovedCounted
  <2> QED
    BY <2>2, SameOpen
<1>13. CountRight'
  BY Zenon, <1>1, <1>12, SameCount
<1>14. NoneOpen'
  <2>1. ~(f.at \in {"done", "leave"})
    BY <1>4
  <2> QED
    BY <1>1, <1>2, <1>4, <1>12, <2>1, MovedNone
<1> QED
  BY <1>8, <1>9, <1>10, <1>11, <1>13, <1>14 DEF WaitInv

\* A routine at the front or at the end of the queue.
LEMMA Enqueued ==
  ASSUME TypeInv, NEW r \in Routines, ~Queued(r),
         queue' = <<r>> \o queue \/ queue' = Append(queue, r)
  PROVE  /\ \A c : Queued(c)' <=> Queued(c) \/ c = r
         /\ OneEntry /\ ran' = ran /\ ran[r] = 0 => OneEntry'
<1>0. queue \in Seq(Routines) /\ Len(queue) \in Nat
  BY DEF TypeInv
<1>1. CASE queue' = <<r>> \o queue
  <2>1. /\ Len(queue') = Len(queue) + 1 /\ queue'[1] = r
        /\ \A i \in 1..Len(queue) : queue'[i + 1] = queue[i]
    BY <1>0, <1>1
  <2>2. \A i \in 1..Len(queue') : IF i = 1 THEN queue'[i] = r
                                  ELSE i - 1 \in 1..Len(queue) /\ queue'[i] = queue[i - 1]
    BY <1>0, <1>1, <2>1
  <2>3. \A c : Queued(c)' <=> Queued(c) \/ c = r
    <3> SUFFICES ASSUME NEW c PROVE Queued(c)' <=> Queued(c) \/ c = r
      OBVIOUS
    <3>1. ASSUME Queued(c)' PROVE Queued(c) \/ c = r
      BY <2>2, <3>1 DEF Queued
    <3>2. ASSUME Queued(c) PROVE Queued(c)'
      <4>1. PICK i \in 1..Len(queue) : queue[i] = c
        BY <3>2 DEF Queued
      <4>2. i + 1 \in 1..Len(queue') /\ queue'[i + 1] = c
        BY <1>0, <2>1, <4>1
      <4> QED
        BY <4>2 DEF Queued
    <3>3. Queued(r)'
      <4>1. 1 \in 1..Len(queue')
        BY <1>0, <2>1
      <4> QED
        BY <2>1, <4>1 DEF Queued
    <3> QED
      BY <3>1, <3>2, <3>3
  <2>4. ASSUME OneEntry, ran' = ran, ran[r] = 0
        PROVE  OneEntry'
    <3>1. \A i \in 1..Len(queue') : ran[queue'[i]] = 0
      BY <2>2, <2>4 DEF OneEntry
    <3>2. ASSUME NEW i \in 1..Len(queue'), NEW k \in 1..Len(queue'), queue'[i] = queue'[k]
          PROVE  i = k
      <4>1. \A l \in 1..Len(queue) : queue[l] # r
        BY DEF Queued
      <4>2. \A l, m \in 1..Len(queue) : queue[l] = queue[m] => l = m
        BY <2>4 DEF OneEntry
      <4>3. CASE i = 1 \/ k = 1
        BY <2>2, <3>2, <4>1, <4>3
      <4>4. CASE i # 1 /\ k # 1
        <5>1. i - 1 = k - 1
          <6>1. i - 1 \in 1..Len(queue) /\ queue'[i] = queue[i - 1]
            BY <2>2, <4>4
          <6>2. k - 1 \in 1..Len(queue) /\ queue'[k] = queue[k - 1]
            BY <2>2, <4>4
          <6> QED
            BY Zenon, <3>2, <4>2, <6>1, <6>2
        <5>2. i \in Int /\ k \in Int
          OBVIOUS
        <5> QED
          BY <5>1, <5>2
      <4> QED
        BY <4>3, <4>4
    <3> QED
      BY <2>4, <3>1, <3>2 DEF OneEntry
  <2> QED
    BY <2>3, <2>4
<1>2. CASE queue' = Append(queue, r)
  <2>1. /\ Len(queue') = Len(queue) + 1 /\ queue'[Len(queue) + 1] = r
        /\ \A i \in 1..Len(queue) : queue'[i] = queue[i]
    BY <1>0, <1>2
  <2>2. \A i \in 1..Len(queue') : \/ i = Len(queue) + 1 /\ queue'[i] = r
                                  \/ i \in 1..Len(queue) /\ queue'[i] = queue[i]
    BY <1>0, <2>1
  <2>3. \A c : Queued(c)' <=> Queued(c) \/ c = r
    <3> SUFFICES ASSUME NEW c PROVE Queued(c)' <=> Queued(c) \/ c = r
      OBVIOUS
    <3>1. ASSUME Queued(c)' PROVE Queued(c) \/ c = r
      BY <2>2, <3>1 DEF Queued
    <3>2. ASSUME Queued(c) PROVE Queued(c)'
      <4>1. PICK i \in 1..Len(queue) : queue[i] = c
        BY <3>2 DEF Queued
      <4>2. i \in 1..Len(queue') /\ queue'[i] = c
        BY <1>0, <2>1, <4>1
      <4> QED
        BY <4>2 DEF Queued
    <3>3. Queued(r)'
      <4>1. Len(queue) + 1 \in 1..Len(queue')
        BY <1>0, <2>1
      <4> QED
        BY <2>1, <4>1 DEF Queued
    <3> QED
      BY <3>1, <3>2, <3>3
  <2>4. ASSUME OneEntry, ran' = ran, ran[r] = 0
        PROVE  OneEntry'
    <3>1. \A i \in 1..Len(queue') : ran[queue'[i]] = 0
      BY <2>2, <2>4 DEF OneEntry
    <3>2. \A l \in 1..Len(queue) : queue[l] # r
      BY DEF Queued
    <3>3. \A l, m \in 1..Len(queue) : queue[l] = queue[m] => l = m
      BY <2>4 DEF OneEntry
    <3>4. \A i, k \in 1..Len(queue') : queue'[i] = queue'[k] => i = k
      BY Zenon, <2>2, <3>2, <3>3
    <3> QED
      BY <2>4, <3>1, <3>4 DEF OneEntry
  <2> QED
    BY <2>3, <2>4
<1> QED
  BY <1>1, <1>2

\* The routine that a job submits next is not known to the pool yet.
LEMMA NotYet ==
  ASSUME TypeInv, WaitInv, NEW th \in Threads, Submitting(th), NEW r, r = Submitted(th)
  PROVE  /\ r \in Routines /\ ran[r] = 0 /\ ~Queued(r) /\ ~Counted(r)
         /\ \A u \in Threads : \A i \in Depths(u) : stack[u][i].job # r
<1> DEFINE j == Top(th).job
           k == Top(th).next
<1>1. /\ stack[th] # <<>> /\ j \in Jobs /\ k \in 1..Len(Children[j])
      /\ r = Children[j][k] /\ r \in Routines
  BY Zenon, SubmittedRoutine
<1>2. Len(stack[th]) \in Depths(th) /\ Top(th) = stack[th][Len(stack[th])] /\ k \in Nat
  BY Zenon, <1>1, TopFields
<1>3. ran[r] = 0 /\ ~Queued(r)
  <2>1. Known
    BY Zenon DEF WaitInv
  <2>2. Queued(r) \/ ran[r] # 0 => \A u \in Threads : \A i \in Depths(u) : stack[u][i].job = j => k < stack[u][i].next
    BY Zenon, <1>1, <2>1 DEF Known
  <2>3. ~(k < k)
    BY <1>2
  <2> QED
    BY Zenon, <1>1, <1>2, <2>2, <2>3
<1>4. \A u \in Threads : \A i \in Depths(u) : stack[u][i].job # r
  BY <1>1, <1>3 DEF WaitInv, Started
<1> QED
  BY <1>1, <1>3, <1>4 DEF Counted


\* inc, and the routine is queued.
LEMMA SubmitToQueueSafe ==
  ASSUME TypeInv, WaitInv, NEW th \in Threads, SubmitToQueue(th)
  PROVE  WaitInv'
<1> DEFINE f == Further(th)
<1>0. Submitting(th) /\ stack[th] # <<>>
  BY Zenon, SubmittedRoutine DEF SubmitToQueue
<1>1. PICK r \in Routines, j \in Jobs, k \in Nat :
        /\ r = Submitted(th) /\ j = Top(th).job /\ k = Top(th).next
        /\ k \in 1..Len(Children[j]) /\ r = Children[j][k]
  BY <1>0, SubmittedRoutine
<1>2. /\ stack' = [stack EXCEPT ![th] = PastSubmit(th)] /\ UNCHANGED <<is_leaf, ran>>
      /\ num' = [num EXCEPT ![j] = @ + 1]
      /\ queue' = <<r>> \o queue \/ queue' = Append(queue, r)
  BY <1>1 DEF SubmitToQueue
<1>3. /\ Moved(th, f) /\ f \in FrameType
      /\ \A u \in Threads : stack'[u] = <<>> <=> stack[u] = <<>>
  BY Zenon, <1>0, <1>2, PastSubmitStep, TopFrame
<1>4. /\ f.job = j /\ f.job = Top(th).job /\ f.here = Top(th).here /\ f.next = k + 1
      /\ f.at = "submit" /\ Top(th).at = "submit" /\ f.next <= Len(Children[f.job]) + 1
      /\ Len(Children[j]) \in Nat
  <2>1. Top(th).at = "submit" /\ Len(Children[j]) \in Nat
    BY <1>0, <1>1, SubmittedRoutine
  <2>2. f.job = Top(th).job /\ f.here = Top(th).here /\ f.next = Top(th).next + 1 /\ f.at = Top(th).at
    BY DEF Further
  <2> QED
    BY <1>1, <2>1, <2>2
<1>5. /\ ran[r] = 0 /\ ~Queued(r) /\ ~Counted(r)
      /\ \A u \in Threads : \A i \in Depths(u) : stack[u][i].job # r
  BY Zenon, <1>0, <1>1, NotYet
<1>6. is_leaf[th] = (Top(th).job \in Leaf /\ Top(th).at # "leave") /\ ~is_leaf[th]
  BY Zenon, <1>0 DEF WaitInv, LeafOnTop, SubmitToQueue, MaySubmit
<1>7. j \notin Leaf
  BY Zenon, <1>1, <1>4, <1>6
<1> HIDE DEF f
<1>a. f.job = Top(th).job /\ f.here = Top(th).here
  BY Zenon, <1>4
<1>8. Nested' /\ Outermost' /\ OneFrame' /\ Started' /\ RunOnce'
  BY Zenon, <1>0, <1>2, <1>3, <1>a, MovedStructure
<1>9. Counters'
  BY Zenon, <1>0, <1>3, <1>4, MovedCounters
<1>10. LeafOnTop'
  <2>1. is_leaf'[th] = (f.job \in Leaf /\ f.at # "leave") /\ \A u \in Threads : u # th => is_leaf'[u] = is_leaf[u]
    BY <1>2, <1>4, <1>6
  <2> QED
    BY Zenon, <1>0, <1>3, <1>a, <2>1, MovedLeaf
<1>11. \A c : Queued(c)' <=> Queued(c) \/ c = r
  BY <1>2, <1>5, Enqueued
<1>12. OneEntry'
  BY Zenon, <1>2, <1>5, Enqueued DEF WaitInv
<1>13. /\ \A u \in Threads : Depths(u)' = Depths(u)
       /\ \A u \in Threads : \A i \in Depths(u) :
            /\ stack'[u][i].job = stack[u][i].job /\ stack'[u][i].here = stack[u][i].here
            /\ u # th \/ i # Len(stack[th]) => stack'[u][i] = stack[u][i]
       /\ Len(stack[th]) \in Depths(th) /\ stack'[th][Len(stack[th])] = f
       /\ stack[th][Len(stack[th])] = Top(th)
  BY Zenon, <1>0, <1>3, <1>a, MovedFacts
<1>14. \A u \in Threads : \A i \in Depths(u) : stack[u][i].job = j => u = th /\ i = Len(stack[th])
  BY <1>1, <1>13 DEF WaitInv, OneFrame
<1>15. HasParent'
  BY Zenon, <1>1, <1>2, <1>11 DEF WaitInv, HasParent
<1>16. Known'
  <2> SUFFICES ASSUME NEW m \in Jobs, NEW l \in 1..Len(Children[m]),
                      Queued(Children[m][l])' \/ ran[Children[m][l]] # 0
               PROVE  /\ m \in Routines => ran[m] = 1
                      /\ \A u \in Threads : \A i \in Depths(u) : stack'[u][i].job = m => l < stack'[u][i].next
    BY Zenon, <1>2, <1>13 DEF Known
  <2>1. CASE Children[m][l] = r
    <3>1. m = j /\ l = k
      BY <1>1, <2>1, OneParent
    <3>2. j \in Routines => ran[j] = 1
      BY Zenon, <1>0, <1>1, TopFields
    <3>3. \A u \in Threads : \A i \in Depths(u) : stack'[u][i].job = m => stack'[u][i] = f
      BY Zenon, <1>13, <1>14, <3>1
    <3> QED
      BY <1>1, <1>4, <3>1, <3>2, <3>3
  <2>2. CASE Children[m][l] # r
    <3>1. /\ m \in Routines => ran[m] = 1
          /\ \A u \in Threads : \A i \in Depths(u) : stack[u][i].job = m => l < stack[u][i].next
      BY Zenon, <1>11, <2>2 DEF WaitInv, Known
    <3>2. \A u \in Threads : \A i \in Depths(u) :
            stack'[u][i].next = stack[u][i].next \/ (stack'[u][i].next = k + 1 /\ stack[u][i].next = k)
      BY <1>1, <1>4, <1>13
    <3>3. l \in Nat
      OBVIOUS
    <3>4. ASSUME NEW u \in Threads, NEW i \in Depths(u), stack'[u][i].job = m
          PROVE  l < stack'[u][i].next
      <4>1. l < stack[u][i].next
        BY Zenon, <1>13, <3>1, <3>4
      <4> QED
        BY <3>2, <3>3, <4>1
    <3> QED
      BY <3>1, <3>4
  <2> QED
    BY Zenon, <2>1, <2>2
<1>17. AllSubmitted'
  <2>a. \A u \in Threads : Depths(u)' = Depths(u)
    BY Zenon, <1>13
  <2> SUFFICES ASSUME NEW u \in Threads, NEW i \in Depths(u), stack'[u][i].job \notin Leaf,
                      NEW l \in 1..Len(Children[stack'[u][i].job]), l < stack'[u][i].next,
                      NEW c, c = Children[stack'[u][i].job][l]
               PROVE  Queued(c)' \/ ran'[c] = 1
    BY <2>a DEF AllSubmitted, Queued
  <2>1. CASE l < stack[u][i].next
    <3>1. stack'[u][i].job = stack[u][i].job
      BY Zenon, <1>13
    <3>2. Queued(c) \/ ran[c] = 1
      BY Zenon, <2>1, <3>1 DEF WaitInv, AllSubmitted
    <3>3. ran' = ran
      BY <1>2
    <3> QED
      BY Zenon, <1>11, <3>2, <3>3
  <2>2. CASE ~(l < stack[u][i].next)
    <3>1. u = th /\ i = Len(stack[th])
      BY <1>13, <2>2
    <3>2. stack'[u][i] = f /\ stack[u][i] = Top(th)
      BY Zenon, <1>13, <3>1
    <3>3. l < k + 1 /\ ~(l < k) /\ l \in Nat
      BY <1>1, <1>4, <2>2, <3>2
    <3>4. l = k
      BY <1>1, <3>3
    <3>5. c = r
      BY Zenon, <1>1, <1>4, <3>2, <3>4
    <3> QED
      BY Zenon, <1>11, <3>5
  <2> QED
    BY Zenon, <2>1, <2>2
<1>18. \A c : Counted(c)' <=> Counted(c) \/ c = r
  <2>1. \A u \in Threads : \A i \in Depths(u) : stack'[u][i].at = stack[u][i].at
    BY Zenon, <1>4, <1>13
  <2> QED
    BY <1>11, <1>13, <2>1 DEF Counted
<1>19. Open(j)' = Open(j) \cup {k} /\ k \notin Open(j)
  <2>1. \A l \in 1..Len(Children[j]) : Children[j][l] = r <=> l = k
    BY <1>1, OneParent
  <2> QED
    BY <1>1, <1>5, <1>18, <2>1 DEF Open
<1>20. ASSUME NEW m \in Jobs, m # j
       PROVE  Open(m)' = Open(m)
  <2>1. \A l \in 1..Len(Children[m]) : Children[m][l] # r
    BY <1>1, <1>20, OneParent
  <2> QED
    BY Zenon, <1>18, <2>1 DEF Open
<1>21. CountRight'
  <2>1. num'[j] = num[j] + 1 /\ \A m \in Jobs : m # j => num'[m] = num[m]
    BY <1>2 DEF TypeInv
  <2>2. Cardinality(Open(j) \cup {k}) = Cardinality(Open(j)) + 1
    BY Zenon, <1>19, OpenFinite, FS_AddElement
  <2>3. num'[j] = Cardinality(Open(j)')
    BY <1>19, <2>1, <2>2 DEF WaitInv, CountRight
  <2>4. ASSUME NEW m \in Jobs
        PROVE  num'[m] = Cardinality(Open(m)')
    <3>1. CASE m = j
      BY <2>3, <3>1
    <3>2. CASE m # j
      BY <1>20, <2>1, <3>2 DEF WaitInv, CountRight
    <3> QED
      BY <3>1, <3>2
  <2> QED
    BY Zenon, <2>4 DEF CountRight
<1>22. NoneOpen'
  <2> SUFFICES ASSUME NEW m \in Jobs \ Leaf, NEW u \in Threads, NEW i \in Depths(u)',
                      stack'[u][i].job = m, stack'[u][i].at \in {"done", "leave"}
               PROVE  Open(m)' = {}
    BY Zenon DEF NoneOpen
  <2>0. i \in Depths(u)
    BY Zenon, <1>13
  <2>1. u # th \/ i # Len(stack[th])
    BY Zenon, <1>4, <1>13
  <2>2. stack'[u][i] = stack[u][i]
    BY Zenon, <1>13, <2>0, <2>1
  <2>3. m # j
    BY Zenon, <1>14, <2>0, <2>1, <2>2
  <2>4. Open(m) = {}
    BY Zenon, <2>0, <2>2 DEF WaitInv, NoneOpen
  <2> QED
    BY <1>20, <2>3, <2>4
<1> QED
  BY Zenon, <1>8, <1>9, <1>10, <1>12, <1>15, <1>16, <1>17, <1>21, <1>22 DEF WaitInv


\* What a call of routine r on top of the frame f of th is: one made by submit, from a job
\* that goes on to its next routine, or one made by run.
Calls(th, f, r, here) ==
  /\ Pushed(th, f, Frame(r, here))
  /\ IF here
     THEN /\ stack[th] # <<>> /\ f = Further(th) /\ Top(th).at = "submit"
          /\ Top(th).next \in 1..Len(Children[Top(th).job])
          /\ r = Children[Top(th).job][Top(th).next]
     ELSE f = Top(th) /\ (stack[th] # <<>> => Top(th).at = "flush") /\ Queued(r)
  /\ stack[th] = <<>> => th \notin Clients
  /\ stack[th] # <<>> => Top(th).job \notin Leaf
  /\ ran[r] = 0
  /\ ran' = [ran EXCEPT ![r] = @ + 1]
  /\ is_leaf' = [is_leaf EXCEPT ![th] = r \in Leaf]
  /\ num' = num
  /\ \A c : Queued(c)' <=> Queued(c) /\ c # r

LEMMA FrameFields ==
  \A r, here : Frame(r, here).job = r /\ Frame(r, here).next = 1 /\ Frame(r, here).at = "submit"
               /\ Frame(r, here).here = here
  BY DEF Frame

CallFrames(th, f, r, here, n) ==
  /\ n \in Nat
  /\ \A u \in Threads : \A i : i \in Depths(u)' <=> i \in Depths(u) \/ (u = th /\ i = n + 1)
  /\ \A u \in Threads : Len(stack[u]) \in Nat
  /\ Len(stack[th]) = n /\ Len(stack'[th]) = n + 1
  /\ \A u \in Threads : u # th => Len(stack'[u]) = Len(stack[u])
  /\ \A u \in Threads : \A i \in Depths(u) :
       /\ stack'[u][i].job = stack[u][i].job /\ stack'[u][i].here = stack[u][i].here
       /\ stack'[u][i].at = stack[u][i].at
       /\ u # th \/ i # n => stack'[u][i] = stack[u][i]
       /\ stack[u][i].job # r
  /\ stack'[th][n + 1] = Frame(r, here)
  /\ n > 0 => n \in Depths(th) /\ stack'[th][n] = f /\ stack[th][n] = Top(th)
  /\ n = 0 <=> stack[th] = <<>>

LEMMA Longer ==
  ASSUME NEW m \in Nat, NEW i
  PROVE  i \in 1..m + 1 <=> i \in 1..m \/ i = m + 1
  OBVIOUS

\* The frames before and after a call.
LEMMA PushedFacts ==
  ASSUME TypeInv, WaitInv, NEW th \in Threads, NEW r \in Routines, NEW here \in BOOLEAN,
         NEW f, Calls(th, f, r, here), NEW n, n = Len(stack[th])
  PROVE  CallFrames(th, f, r, here, n)
<1>1. \A u \in Threads : stack[u] \in Seq(FrameType) /\ Len(stack[u]) \in Nat
  BY DEF TypeInv
<1>2. n \in Nat /\ (n = 0 <=> stack[th] = <<>>)
  BY <1>1
<1>3. Len(stack'[th]) = n + 1 /\ \A u \in Threads : u # th => Len(stack'[u]) = Len(stack[u])
  <2>1. \A u \in Threads : Len(stack'[u]) = Len(stack[u]) + (IF u = th THEN 1 ELSE 0)
    BY Zenon DEF Calls, Pushed
  <2>2. Len(stack'[th]) = Len(stack[th]) + 1
    BY Zenon, <2>1
  <2>3. ASSUME NEW u \in Threads, u # th
        PROVE  Len(stack'[u]) = Len(stack[u])
    <3>1. Len(stack'[u]) = Len(stack[u]) + 0
      BY Zenon, <2>1, <2>3
    <3> QED
      BY <1>1, <3>1
  <2> QED
    BY <2>2, <2>3
<1>4. ASSUME NEW u \in Threads, NEW i
      PROVE  i \in Depths(u)' <=> i \in Depths(u) \/ (u = th /\ i = n + 1)
  <2>0. Depths(u) = 1..Len(stack[u]) /\ Depths(u)' = 1..Len(stack'[u])
    BY DEF Depths
  <2>1. CASE u = th
    BY <1>2, <1>3, <2>0, <2>1, Longer
  <2>2. CASE u # th
    BY Zenon, <1>3, <2>0, <2>2
  <2> QED
    BY <2>1, <2>2
<1>5. stack'[th][n + 1] = Frame(r, here)
  BY Zenon DEF Calls, Pushed
<1>6. ASSUME n > 0
      PROVE  n \in Depths(th) /\ stack'[th][n] = f /\ stack[th][n] = Top(th)
  <2>1. n \in Depths(th)
    BY <1>2, <1>6 DEF Depths
  <2>2. stack'[th][n] = f
    BY Zenon, <2>1 DEF Calls, Pushed
  <2> QED
    BY Zenon, <2>1, <2>2 DEF Top
<1>7. ASSUME NEW u \in Threads, NEW i \in Depths(u)
      PROVE  /\ stack'[u][i].job = stack[u][i].job /\ stack'[u][i].here = stack[u][i].here
             /\ stack'[u][i].at = stack[u][i].at
             /\ u # th \/ i # n => stack'[u][i] = stack[u][i]
             /\ stack[u][i].job # r
  <2>1. u # th \/ i # n => stack'[u][i] = stack[u][i]
    BY Zenon DEF Calls, Pushed
  <2>2. stack[u][i].job # r
    <3>1. ran[r] = 0 /\ Started
      BY Zenon DEF Calls, WaitInv
    <3> QED
      BY <3>1 DEF Started
  <2>3. CASE u = th /\ i = n
    <3>1. n > 0
      BY <1>2, <2>3 DEF Depths
    <3>2. f.job = Top(th).job /\ f.here = Top(th).here /\ f.at = Top(th).at
      BY DEF Calls, Further
    <3> QED
      BY <1>6, <2>1, <2>2, <2>3, <3>1, <3>2
  <2> QED
    BY Zenon, <2>1, <2>2, <2>3
<1> QED
  BY <1>1, <1>2, <1>3, <1>4, <1>5, <1>6, <1>7 DEF CallFrames

\* The structure of the stacks after a call.
LEMMA CallStructure ==
  ASSUME TypeInv, WaitInv, NEW th \in Threads, NEW r \in Routines, NEW here \in BOOLEAN,
         NEW f, Calls(th, f, r, here), stack' \in [Threads -> Seq(FrameType)]
  PROVE  Nested' /\ Outermost' /\ OneFrame' /\ Started' /\ RunOnce' /\ Counters'
<1>0. PICK n : n = Len(stack[th])
  BY Zenon
<1>1. CallFrames(th, f, r, here, n)
  BY Zenon, <1>0, PushedFacts
<1> USE DEF CallFrames
<1>2. n + 1 \notin Depths(th)
  <2>1. n \in Nat /\ Depths(th) = 1..n
    BY Zenon, <1>1 DEF Depths
  <2> QED
    BY <2>1
<1>3. /\ stack'[th][n + 1].job = r /\ stack'[th][n + 1].next = 1 /\ stack'[th][n + 1].at = "submit"
      /\ stack'[th][n + 1].here = here
  BY <1>1, FrameFields
<1>4. ran'[r] = 1 /\ \A c \in Routines : c # r => ran'[c] = ran[c]
  <2>1. ran \in [Routines -> Nat] /\ ran' = [ran EXCEPT ![r] = @ + 1] /\ ran[r] = 0
    BY Zenon DEF Calls, TypeInv
  <2> HIDE DEF CallFrames
  <2> QED
    BY <2>1
<1>5. Nested'
  <2> SUFFICES ASSUME NEW u \in Threads, NEW i \in Depths(u)', i < Len(stack'[u])
               PROVE  /\ stack'[u][i].job \notin Leaf
                      /\ stack'[u][i].at = (IF stack'[u][i + 1].here THEN "submit" ELSE "flush")
                      /\ stack'[u][i + 1].here =>
                           /\ stack'[u][i].next > 1
                           /\ stack'[u][i + 1].job = Children[stack'[u][i].job][stack'[u][i].next - 1]
    BY Zenon DEF Nested
  <2>1. CASE u = th /\ i = n
    <3>1. n > 0 /\ stack[th] # <<>>
      BY <1>1, <2>1 DEF Depths
    <3>2. stack'[u][i] = f /\ stack'[u][i + 1] = stack'[th][n + 1]
      BY Zenon, <1>1, <2>1, <3>1
    <3>3. f.job \notin Leaf /\ f.at = (IF here THEN "submit" ELSE "flush")
      BY <3>1 DEF Calls, Further
    <3>4. ASSUME here
          PROVE  f.next > 1 /\ r = Children[f.job][f.next - 1]
      <4>1. /\ f.next = Top(th).next + 1 /\ f.job = Top(th).job
            /\ r = Children[Top(th).job][Top(th).next]
        BY <3>4 DEF Calls, Further
      <4>2. PICK t \in Nat : t = Top(th).next /\ t >= 1
        BY Zenon, <3>1, TopFields
      <4>3. f.next = t + 1
        BY <4>1, <4>2
      <4>4. f.next > 1 /\ f.next - 1 = t
        BY <4>2, <4>3
      <4> QED
        BY Zenon, <4>1, <4>2, <4>4
    <3> QED
      BY Zenon, <1>3, <3>2, <3>3, <3>4
  <2>2. CASE ~(u = th /\ i = n)
    <3>1. i \in Depths(u) /\ i + 1 \in Depths(u) /\ i < Len(stack[u])
      <4>1. CASE u = th
        <5>1. i \in 1..n + 1 /\ i < n + 1 /\ i # n /\ n \in Nat
          BY <1>1, <2>2, <4>1 DEF Depths
        <5>2. i \in 1..n /\ i + 1 \in 1..n /\ i < n
          BY <5>1
        <5> QED
          BY Zenon, <1>1, <4>1, <5>2 DEF Depths
      <4>2. CASE u # th
        <5>1. i \in 1..Len(stack[u]) /\ i < Len(stack[u]) /\ Len(stack[u]) \in Nat
          BY <1>1, <4>2 DEF Depths
        <5>2. i + 1 \in 1..Len(stack[u])
          BY <5>1
        <5> QED
          BY Zenon, <5>1, <5>2 DEF Depths
      <4> QED
        BY Zenon, <4>1, <4>2
    <3>2. stack'[u][i] = stack[u][i]
      BY Zenon, <1>1, <2>2, <3>1
    <3>3. stack'[u][i + 1].here = stack[u][i + 1].here /\ stack'[u][i + 1].job = stack[u][i + 1].job
      BY <1>1, <3>1
    <3> QED
      <4> HIDE DEF CallFrames
      <4>1. Nested
        BY Zenon DEF WaitInv
      <4>2. /\ stack[u][i].job \notin Leaf
            /\ stack[u][i].at = (IF stack[u][i + 1].here THEN "submit" ELSE "flush")
            /\ stack[u][i + 1].here => /\ stack[u][i].next > 1
                                       /\ stack[u][i + 1].job = Children[stack[u][i].job][stack[u][i].next - 1]
        BY <3>1, <4>1 DEF Nested
      <4> QED
        BY Zenon, <3>2, <3>3, <4>2
  <2> QED
    BY <2>1, <2>2
<1>6. Outermost'
  <2>1. \A c \in Clients : stack'[c] # <<>>
    <3> SUFFICES ASSUME NEW c \in Clients PROVE stack'[c] # <<>>
      BY Zenon
    <3>1. c \in Threads /\ stack[c] # <<>> /\ stack[c] \in Seq(FrameType)
      BY Zenon DEF Threads, WaitInv, Outermost, TypeInv
    <3>2. Len(stack[c]) # 0
      BY <3>1
    <3>3. Len(stack'[c]) # 0
      <4>1. CASE c = th
        BY <1>1, <4>1
      <4>2. CASE c # th
        BY Zenon, <1>1, <3>1, <3>2, <4>2
      <4> QED
        BY Zenon, <4>1, <4>2
    <3> QED
      BY <3>3
  <2>2. ASSUME NEW u \in Threads, NEW i \in Depths(u)'
        PROVE  IF i = 1 /\ u \in Clients
               THEN stack'[u][i].job = u /\ stack'[u][i].here
               ELSE stack'[u][i].job \in Routines /\ (i = 1 => ~stack'[u][i].here)
    <3>1. CASE i \in Depths(u)
      <4>1. stack'[u][i].job = stack[u][i].job /\ stack'[u][i].here = stack[u][i].here
        BY Zenon, <1>1, <3>1
      <4> QED
        BY Zenon, <3>1, <4>1 DEF WaitInv, Outermost
    <3>2. CASE u = th /\ i = n + 1
      <4>1. ASSUME i = 1
            PROVE  u \notin Clients /\ ~here
        <5>1. n \in Nat
          BY Zenon, <1>1
        <5>2. n = 0
          BY <3>2, <4>1, <5>1
        <5>3. stack[th] = <<>>
          BY Zenon, <1>1, <5>2
        <5> QED
          BY Zenon, <3>2, <5>3 DEF Calls
      <4> QED
        BY <1>3, <3>2, <4>1
    <3> QED
      BY Zenon, <1>1, <3>1, <3>2
  <2> QED
    BY Zenon, <2>1, <2>2 DEF Outermost
<1>7. OneFrame'
  <2> SUFFICES ASSUME NEW t \in Threads, NEW u \in Threads, NEW i \in Depths(t)', NEW k \in Depths(u)',
                      stack'[t][i].job = stack'[u][k].job
               PROVE  t = u /\ i = k
    BY Zenon DEF OneFrame
  <2>1. CASE i \in Depths(t) /\ k \in Depths(u)
    BY SMTT(20), <1>1, <2>1 DEF WaitInv, OneFrame
  <2>2. CASE ~(i \in Depths(t) /\ k \in Depths(u))
    <3>1. \A v \in Threads : \A l \in Depths(v)' : l \in Depths(v) \/ (v = th /\ l = n + 1)
      BY Zenon, <1>1
    <3>2. ASSUME NEW v \in Threads, NEW l \in Depths(v)
          PROVE  stack'[v][l].job # r
      <4>1. stack'[v][l].job = stack[v][l].job /\ stack[v][l].job # r
        BY Zenon, <1>1
      <4> QED
        BY Zenon, <4>1
    <3> QED
      BY Zenon, <1>3, <2>2, <3>1, <3>2
  <2> QED
    BY Zenon, <2>1, <2>2
<1>8. Started'
  <2> SUFFICES ASSUME NEW u \in Threads, NEW i \in Depths(u)', stack'[u][i].job \in Routines
               PROVE  ran'[stack'[u][i].job] = 1
    BY Zenon DEF Started
  <2>1. CASE i \in Depths(u)
    <3>1. stack'[u][i].job = stack[u][i].job /\ stack[u][i].job # r
      BY Zenon, <1>1, <2>1
    <3>2. ran[stack[u][i].job] = 1
      BY Zenon, <2>1, <3>1 DEF WaitInv, Started
    <3> QED
      BY Zenon, <1>4, <3>1, <3>2
  <2>2. CASE u = th /\ i = n + 1
    BY Zenon, <1>3, <1>4, <2>2
  <2> QED
    BY <1>1, <2>1, <2>2
<1>9. RunOnce'
  BY <1>4 DEF WaitInv, RunOnce
<1>10. Counters'
  <2> SUFFICES ASSUME NEW u \in Threads, NEW i \in Depths(u)'
               PROVE  /\ stack'[u][i].next <= Len(Children[stack'[u][i].job]) + 1
                      /\ stack'[u][i].at # "submit" => stack'[u][i].next = Len(Children[stack'[u][i].job]) + 1
                      /\ stack'[u][i].job \in Leaf => stack'[u][i].at \notin {"flush", "wait"}
                      /\ stack'[u][i].at = "leave" => ~stack'[u][i].here
    BY Zenon DEF Counters
  <2>1. CASE u = th /\ i = n + 1
    <3>1. Len(Children[r]) \in Nat
      BY PoolAssumption DEF Jobs
    <3> QED
      BY SMTT(20), <1>3, <2>1, <3>1
  <2>2. CASE u = th /\ i = n /\ here
    <3>1. stack[th] # <<>> /\ n > 0
      <4>1. stack[th] # <<>> /\ n \in Nat /\ n = Len(stack[th]) /\ stack[th] \in Seq(FrameType)
        BY Zenon, <1>0, <1>1, <2>2 DEF Calls, TypeInv
      <4> QED
        BY <4>1
    <3>2. /\ f.job = Top(th).job /\ f.next = Top(th).next + 1 /\ f.at = "submit"
          /\ Top(th).next \in 1..Len(Children[Top(th).job]) /\ Top(th).job \notin Leaf
      BY <2>2, <3>1 DEF Calls, Further
    <3>3. Len(Children[Top(th).job]) \in Nat
      BY Zenon, <3>1, TopFields
    <3>4. f.next <= Len(Children[f.job]) + 1
      BY <3>2, <3>3
    <3> QED
      BY Zenon, <1>1, <2>2, <3>1, <3>2, <3>4
  <2>3. CASE i \in Depths(u) /\ ~(u = th /\ i = n /\ here)
    <3>1. stack'[u][i] = stack[u][i]
      <4>1. CASE u = th /\ i = n
        <5>1. n > 0
          BY <1>1, <2>3, <4>1 DEF Depths
        <5> QED
          BY Zenon, <1>1, <2>3, <4>1, <5>1 DEF Calls
      <4> QED
        BY Zenon, <1>1, <2>3, <4>1
    <3> QED
      BY Zenon, <2>3, <3>1 DEF WaitInv, Counters
  <2> QED
    BY Zenon, <1>1, <2>1, <2>2, <2>3
<1> QED
  BY <1>5, <1>6, <1>7, <1>8, <1>9, <1>10


\* The routines after a call.
LEMMA CallRoutines ==
  ASSUME TypeInv, WaitInv, NEW th \in Threads, NEW r \in Routines, NEW here \in BOOLEAN,
         NEW f, Calls(th, f, r, here), stack' \in [Threads -> Seq(FrameType)]
  PROVE  Known' /\ HasParent' /\ AllSubmitted' /\ LeafOnTop' /\ CountRight' /\ NoneOpen'
<1>0. PICK n : n = Len(stack[th])
  BY Zenon
<1>1. CallFrames(th, f, r, here, n)
  BY Zenon, <1>0, PushedFacts
<1> USE DEF CallFrames
<1>2. n + 1 \notin Depths(th)
  <2>1. n \in Nat /\ Depths(th) = 1..n
    BY Zenon, <1>1 DEF Depths
  <2> QED
    BY <2>1
<1>3. /\ stack'[th][n + 1].job = r /\ stack'[th][n + 1].next = 1 /\ stack'[th][n + 1].at = "submit"
      /\ stack'[th][n + 1].here = here
  BY <1>1, FrameFields
<1>4. ran'[r] = 1 /\ ran[r] = 0 /\ \A c \in Routines : c # r => ran'[c] = ran[c]
  BY SMTT(20) DEF Calls, TypeInv
<1>5. \A c : Queued(c)' <=> Queued(c) /\ c # r
  BY DEF Calls
<1>6. \A m \in Jobs : \A l \in 1..Len(Children[m]) : Children[m][l] \in Routines
  BY Zenon, OneParent
<1>7. ASSUME here
      PROVE  /\ n > 0 /\ f.job = Top(th).job /\ f.next = Top(th).next + 1 /\ Top(th).job \in Jobs
             /\ Top(th).next \in 1..Len(Children[Top(th).job]) /\ r = Children[Top(th).job][Top(th).next]
             /\ Top(th).next \in Nat /\ (Top(th).job \in Routines => ran[Top(th).job] = 1)
  <2>1. /\ stack[th] # <<>> /\ f.job = Top(th).job /\ f.next = Top(th).next + 1
        /\ Top(th).next \in 1..Len(Children[Top(th).job]) /\ r = Children[Top(th).job][Top(th).next]
    BY <1>7 DEF Calls, Further
  <2>2. /\ Top(th).job \in Jobs /\ Top(th).next \in Nat
        /\ Top(th).job \in Routines => ran[Top(th).job] = 1
    BY Zenon, <2>1, TopFields
  <2>3. n \in Nat /\ n # 0
    BY Zenon, <1>1, <2>1
  <2>4. n > 0
    BY <2>3
  <2> QED
    BY Zenon, <2>1, <2>2, <2>4
<1>8. \A u \in Threads : \A i \in Depths(u) :
        ~(u = th /\ i = n /\ here) => stack'[u][i] = stack[u][i]
  <2> SUFFICES ASSUME NEW u \in Threads, NEW i \in Depths(u), ~(u = th /\ i = n /\ here)
               PROVE  stack'[u][i] = stack[u][i]
    BY Zenon
  <2>1. CASE u = th /\ i = n
    <3>1. n > 0
      <4>1. n \in Nat /\ Depths(th) = 1..n
        BY Zenon, <1>1 DEF Depths
      <4> QED
        BY <2>1, <4>1
    <3> QED
      BY Zenon, <1>1, <2>1, <3>1 DEF Calls
  <2> QED
    BY Zenon, <1>1, <2>1
<1>9. HasParent'
  <2> SUFFICES ASSUME NEW c \in Routines, Queued(c)' \/ ran'[c] # 0
               PROVE  \E j \in Jobs : \E k \in 1..Len(Children[j]) : Children[j][k] = c
    BY Zenon DEF HasParent
  <2>1. CASE c # r
    BY Zenon, <1>4, <1>5, <2>1 DEF WaitInv, HasParent
  <2>2. CASE c = r /\ here
    BY Zenon, <1>7, <2>2
  <2>3. CASE c = r /\ ~here
    BY Zenon, <2>3 DEF Calls, WaitInv, HasParent
  <2> QED
    BY <2>1, <2>2, <2>3
<1>10. Known'
  <2> SUFFICES ASSUME NEW m \in Jobs, NEW l \in 1..Len(Children[m]), NEW c, c = Children[m][l],
                      Queued(c)' \/ ran'[c] # 0
               PROVE  /\ m \in Routines => ran'[m] = 1
                      /\ \A u \in Threads : \A i \in Depths(u)' : stack'[u][i].job = m => l < stack'[u][i].next
    BY Zenon DEF Known, Queued
  <2>1. CASE c # r \/ ~here
    <3>1. Queued(c) \/ ran[c] # 0
      BY Zenon, <1>4, <1>5, <1>6, <2>1 DEF Calls
    <3>2. /\ m \in Routines => ran[m] = 1
          /\ \A u \in Threads : \A i \in Depths(u) : stack[u][i].job = m => l < stack[u][i].next
      BY Zenon, <3>1 DEF WaitInv, Known
    <3>3. m # r
      BY <1>4, <3>2
    <3>4. ASSUME NEW u \in Threads, NEW i \in Depths(u)', stack'[u][i].job = m
          PROVE  l < stack'[u][i].next
      <4>1. i \in Depths(u) /\ stack[u][i].job = m
        BY SMTT(20), <1>1, <1>3, <3>3, <3>4
      <4>2. l < stack[u][i].next /\ l \in Nat
        BY <3>2, <4>1
      <4>3. CASE u = th /\ i = n /\ here
        <5>1. stack'[u][i] = f /\ stack[u][i] = Top(th)
          BY Zenon, <1>1, <1>7, <4>3
        <5> QED
          BY <1>7, <4>2, <4>3, <5>1
      <4>4. CASE ~(u = th /\ i = n /\ here)
        BY Zenon, <1>8, <4>1, <4>2, <4>4
      <4> QED
        BY Zenon, <4>3, <4>4
    <3> QED
      BY Zenon, <1>4, <3>2, <3>3, <3>4
  <2>2. CASE c = r /\ here
    <3>1. m = Top(th).job /\ l = Top(th).next
      <4>1. \A j \in Jobs : \A k \in 1..Len(Children[j]) : Children[j][k] = Children[m][l] => j = m /\ k = l
        BY Zenon, OneParent
      <4>2. Top(th).job \in Jobs /\ Top(th).next \in 1..Len(Children[Top(th).job])
        BY <1>7, <2>2
      <4>3. Children[Top(th).job][Top(th).next] = Children[m][l]
        BY Zenon, <1>7, <2>2
      <4> QED
        BY Zenon, <4>1, <4>2, <4>3
    <3>a. m \in Routines => ran[m] = 1
      BY Zenon, <1>7, <2>2, <3>1
    <3>2. m # r /\ (m \in Routines => ran'[m] = 1)
      BY <1>4, <3>a
    <3>3. ASSUME NEW u \in Threads, NEW i \in Depths(u)', stack'[u][i].job = m
          PROVE  l < stack'[u][i].next
      <4>1. i \in Depths(u) /\ stack[u][i].job = m
        <5>1. i \in Depths(u) \/ (u = th /\ i = n + 1)
          BY Zenon, <1>1
        <5>2. ~(u = th /\ i = n + 1)
          BY Zenon, <1>3, <3>2, <3>3
        <5> QED
          BY Zenon, <1>1, <3>3, <5>1, <5>2
      <4>2. n > 0 /\ n \in Depths(th) /\ stack[th][n] = Top(th)
        BY Zenon, <1>1, <1>7, <2>2
      <4>3. u = th /\ i = n
        BY SMTT(20), <3>1, <4>1, <4>2 DEF WaitInv, OneFrame
      <4>4. stack'[u][i] = f
        BY Zenon, <1>1, <4>2, <4>3
      <4> QED
        BY <1>7, <2>2, <3>1, <4>4
    <3> QED
      BY <3>2, <3>3
  <2> QED
    BY Zenon, <2>1, <2>2
<1>11. AllSubmitted'
  <2> SUFFICES ASSUME NEW u \in Threads, NEW i \in Depths(u)', stack'[u][i].job \notin Leaf,
                      NEW l \in 1..Len(Children[stack'[u][i].job]), l < stack'[u][i].next,
                      NEW c, c = Children[stack'[u][i].job][l]
               PROVE  Queued(c)' \/ ran'[c] = 1
    BY Zenon DEF AllSubmitted, Queued
  <2>1. l \in Nat /\ l >= 1
    OBVIOUS
  <2>2. i \in Depths(u)
    BY SMTT(20), <1>1, <1>3, <2>1
  <2>3. stack'[u][i].job = stack[u][i].job /\ stack[u][i].job \in Jobs
    <3>1. stack[u][i] \in FrameType
      BY <2>2 DEF TypeInv, Depths
    <3> QED
      BY Zenon, <1>1, <2>2, <3>1 DEF FrameType
  <2>4. c \in Routines
    BY Zenon, <1>6, <2>3
  <2>5. CASE l < stack[u][i].next
    <3>1. Queued(c) \/ ran[c] = 1
      BY Zenon, <2>2, <2>3, <2>5 DEF WaitInv, AllSubmitted
    <3> QED
      BY Zenon, <1>4, <1>5, <2>4, <3>1
  <2>6. CASE ~(l < stack[u][i].next)
    <3>1. u = th /\ i = n /\ here
      BY Zenon, <1>8, <2>2, <2>6
    <3>2. stack'[u][i] = f /\ stack[u][i] = Top(th)
      BY Zenon, <1>1, <1>7, <3>1
    <3>3. l = Top(th).next
      BY <1>7, <2>1, <2>6, <3>1, <3>2
    <3>4. c = r
      BY <1>7, <3>1, <3>2, <3>3
    <3> QED
      BY Zenon, <1>4, <3>4
  <2> QED
    BY Zenon, <2>5, <2>6
<1>12. LeafOnTop'
  <2> SUFFICES ASSUME NEW u \in Threads, stack'[u] # <<>>
               PROVE  is_leaf'[u] = (Top(u)'.job \in Leaf /\ Top(u)'.at # "leave")
    BY Zenon DEF LeafOnTop
  <2>1. is_leaf'[th] = (r \in Leaf) /\ (u # th => is_leaf'[u] = is_leaf[u])
    BY DEF Calls, TypeInv
  <2>2. Top(u)' = stack'[u][Len(stack'[u])]
    BY DEF Top
  <2>3. CASE u = th
    <3>1. Top(u)' = stack'[th][n + 1]
      BY <1>1, <2>2, <2>3
    <3>2. Top(u)'.job = r /\ Top(u)'.at = "submit"
      BY Zenon, <1>3, <3>1
    <3>3. "submit" # "leave"
      OBVIOUS
    <3> QED
      <4>1. is_leaf'[u] = (r \in Leaf)
        BY Zenon, <2>1, <2>3
      <4>2. (Top(u)'.job \in Leaf /\ Top(u)'.at # "leave") <=> r \in Leaf
        BY Zenon, <3>2, <3>3
      <4>3. (Top(u)'.job \in Leaf /\ Top(u)'.at # "leave") \in BOOLEAN /\ (r \in Leaf) \in BOOLEAN
        OBVIOUS
      <4> QED
        BY <4>1, <4>2, <4>3
  <2>4. CASE u # th
    <3>1. Len(stack'[u]) = Len(stack[u]) /\ Len(stack'[u]) \in Nat \ {0}
      BY SMTT(20), <1>1, <2>4
    <3>a. Len(stack[u]) \in Depths(u) /\ stack[u] # <<>>
      BY <3>1 DEF Depths, TypeInv
    <3>b. stack'[u][Len(stack[u])] = stack[u][Len(stack[u])]
      BY <1>1, <2>4, <3>a
    <3>c. Top(u) = stack[u][Len(stack[u])]
      BY DEF Top
    <3>2. Top(u)' = Top(u) /\ stack[u] # <<>>
      BY Zenon, <2>2, <3>1, <3>a, <3>b, <3>c
    <3>3. is_leaf[u] = (Top(u).job \in Leaf /\ Top(u).at # "leave")
      BY Zenon, <3>2 DEF WaitInv, LeafOnTop
    <3> QED
      BY Zenon, <2>1, <2>4, <3>2, <3>3
  <2> QED
    BY <2>3, <2>4
<1>13. \A c : Counted(c)' <=> Counted(c)
  <2> SUFFICES ASSUME NEW c PROVE Counted(c)' <=> Counted(c)
    BY Zenon
  <2>1. CASE c # r
    <3>1. ASSUME NEW u \in Threads, NEW i \in Depths(u)', stack'[u][i].job = c
          PROVE  /\ i \in Depths(u) /\ stack[u][i].job = c
                 /\ stack'[u][i].here = stack[u][i].here /\ stack'[u][i].at = stack[u][i].at
      <4>1. i \in Depths(u) \/ (u = th /\ i = n + 1)
        BY Zenon, <1>1
      <4>2. ~(u = th /\ i = n + 1)
        BY Zenon, <1>3, <2>1, <3>1
      <4>3. i \in Depths(u)
        BY Zenon, <4>1, <4>2
      <4> QED
        BY Zenon, <1>1, <3>1, <4>3
    <3>2. ASSUME NEW u \in Threads, NEW i \in Depths(u), stack[u][i].job = c
          PROVE  /\ i \in Depths(u)' /\ stack'[u][i].job = c
                 /\ stack'[u][i].here = stack[u][i].here /\ stack'[u][i].at = stack[u][i].at
      BY Zenon, <1>1, <3>2
    <3>3. Queued(c)' <=> Queued(c)
      BY Zenon, <1>5, <2>1
    <3>4. Counted(c) => Counted(c)'
      BY Zenon, <3>2, <3>3 DEF Counted
    <3>5. Counted(c)' => Counted(c)
      BY Zenon, <3>1, <3>3 DEF Counted
    <3> QED
      BY Zenon, <3>4, <3>5
  <2>2. CASE c = r /\ here
    <3>1. ~Queued(r)
      <4>1. stack[th] # <<>> /\ Top(th).at = "submit"
        BY Zenon, <2>2 DEF Calls
      <4>2. Submitting(th) /\ r = Submitted(th)
        BY <1>7, <2>2, <4>1 DEF Submitting, At, Submitted
      <4> QED
        BY Zenon, <4>2, NotYet
    <3>2. ~Counted(r)
      BY Zenon, <1>1, <3>1 DEF Counted
    <3>3. ASSUME NEW u \in Threads, NEW i \in Depths(u)', stack'[u][i].job = r
          PROVE  stack'[u][i].here
      <4>1. u = th /\ i = n + 1
        BY <1>1, <3>3
      <4>2. stack'[u][i].here = here
        BY Zenon, <1>3, <4>1
      <4> QED
        BY Zenon, <2>2, <4>2
    <3>4. ~Counted(r)'
      BY <1>5, <3>3 DEF Counted
    <3> QED
      BY <2>2, <3>2, <3>4
  <2>3. CASE c = r /\ ~here
    <3>1. Counted(r)
      BY Zenon, <2>3 DEF Calls, Counted
    <3>2. n + 1 \in Depths(th)'
      BY Zenon, <1>1
    <3>3. Counted(r)'
      BY <1>3, <2>3, <3>2 DEF Counted
    <3> QED
      BY Zenon, <2>3, <3>1, <3>3
  <2> QED
    BY <2>1, <2>2, <2>3
<1>14. \A j : Open(j)' = Open(j)
  BY Zenon, <1>13, SameOpen
<1>15. CountRight'
  BY Zenon, <1>14, SameCount DEF Calls
<1>16. NoneOpen'
  <2> SUFFICES ASSUME NEW m \in Jobs \ Leaf, NEW u \in Threads, NEW i \in Depths(u)',
                      stack'[u][i].job = m, stack'[u][i].at \in {"done", "leave"}
               PROVE  Open(m)' = {}
    BY Zenon DEF NoneOpen
  <2>1. i \in Depths(u)
    BY Zenon, <1>1, <1>3
  <2>2. stack[u][i].job = m /\ stack[u][i].at \in {"done", "leave"}
    BY Zenon, <1>1, <2>1
  <2>3. Open(m) = {}
    BY <2>1, <2>2 DEF WaitInv, NoneOpen
  <2> QED
    BY <1>14, <2>3
<1> QED
  BY <1>9, <1>10, <1>11, <1>12, <1>15, <1>16


\* A routine taken off the queue is not in it any more.
LEMMA Dequeued ==
  ASSUME TypeInv, WaitInv, queue # <<>>, queue' = Tail(queue), ran' = [ran EXCEPT ![Head(queue)] = @ + 1]
  PROVE  /\ Queued(Head(queue)) /\ ran[Head(queue)] = 0
         /\ \A c : Queued(c)' <=> Queued(c) /\ c # Head(queue)
         /\ OneEntry'
<1>1. queue \in Seq(Routines) /\ Len(queue) \in Nat \ {0} /\ Head(queue) = queue[1]
  BY DEF TypeInv
<1>2. PICK n \in Nat : n = Len(queue) - 1
  BY <1>1
<1>3. Len(queue') = n /\ \A i \in 1..n : queue'[i] = queue[i + 1]
  BY <1>1, <1>2
<1>4. \A i, k \in 1..Len(queue) : queue[i] = queue[k] => i = k
  BY DEF WaitInv, OneEntry
<1>5. \A i \in 1..Len(queue) : ran[queue[i]] = 0
  BY DEF WaitInv, OneEntry
<1>6. 1 \in 1..Len(queue) /\ \A i \in 1..n : i + 1 \in 1..Len(queue) /\ i + 1 # 1
  BY <1>1, <1>2
<1>7. Queued(Head(queue)) /\ ran[Head(queue)] = 0
  BY <1>1, <1>5, <1>6 DEF Queued
<1>8. ASSUME NEW c
      PROVE  Queued(c)' <=> Queued(c) /\ c # Head(queue)
  <2>1. ASSUME Queued(c)'
        PROVE  Queued(c) /\ c # Head(queue)
    <3>1. PICK i \in 1..n : queue[i + 1] = c
      BY <1>3, <2>1 DEF Queued
    <3> QED
      BY <1>1, <1>4, <1>6, <3>1 DEF Queued
  <2>2. ASSUME Queued(c), c # Head(queue)
        PROVE  Queued(c)'
    <3>1. PICK i \in 1..Len(queue) : queue[i] = c
      BY <2>2 DEF Queued
    <3>2. i # 1
      BY <1>1, <2>2, <3>1
    <3>3. i - 1 \in 1..n /\ (i - 1) + 1 = i
      BY <1>1, <1>2, <3>1, <3>2
    <3>4. queue'[i - 1] = c
      BY <1>3, <3>1, <3>3
    <3> QED
      BY <1>3, <3>3, <3>4 DEF Queued
  <2> QED
    BY <2>1, <2>2
<1>9. OneEntry'
  <2>1. ASSUME NEW i \in 1..Len(queue')
        PROVE  ran'[queue'[i]] = 0
    <3>1. queue'[i] = queue[i + 1] /\ queue[i + 1] # Head(queue) /\ queue[i + 1] \in Routines
      BY <1>1, <1>3, <1>4, <1>6
    <3>2. ran[queue[i + 1]] = 0
      BY <1>3, <1>5, <1>6
    <3> QED
      BY <3>1, <3>2 DEF TypeInv
  <2>2. ASSUME NEW i \in 1..Len(queue'), NEW k \in 1..Len(queue'), queue'[i] = queue'[k]
        PROVE  i = k
    <3>1. queue[i + 1] = queue[k + 1] /\ i + 1 \in 1..Len(queue) /\ k + 1 \in 1..Len(queue)
      BY <1>3, <1>6, <2>2
    <3>2. i + 1 = k + 1
      BY <1>4, <3>1
    <3> QED
      BY <3>2
  <2> QED
    BY <2>1, <2>2 DEF OneEntry
<1> QED
  BY <1>7, <1>8, <1>9

LEMMA CallSafe ==
  ASSUME TypeInv, WaitInv, NEW th \in Threads, NEW r \in Routines, NEW here \in BOOLEAN,
         NEW f, Calls(th, f, r, here), stack' \in [Threads -> Seq(FrameType)], OneEntry'
  PROVE  WaitInv'
<1>1. Nested' /\ Outermost' /\ OneFrame' /\ Started' /\ RunOnce' /\ Counters'
  BY CallStructure
<1>2. Known' /\ HasParent' /\ AllSubmitted' /\ LeafOnTop' /\ CountRight' /\ NoneOpen'
  BY CallRoutines
<1> QED
  BY Zenon, <1>1, <1>2 DEF WaitInv

LEMMA SubmitAndRunSafe ==
  ASSUME TypeInv, WaitInv, NEW th \in Threads, SubmitAndRun(th)
  PROVE  WaitInv'
<1>0. Submitting(th) /\ ~is_leaf[th] /\ queue' = queue /\ num' = num
  BY Zenon DEF SubmitAndRun, MaySubmit
<1>1. PICK r \in Routines : r = Submitted(th)
  BY Zenon, <1>0, SubmittedRoutine
<1>2. /\ stack[th] # <<>> /\ Top(th).at = "submit" /\ Top(th).next \in 1..Len(Children[Top(th).job])
      /\ r = Children[Top(th).job][Top(th).next]
  BY <1>0, <1>1, SubmittedRoutine
<1>3. /\ stack' \in [Threads -> Seq(FrameType)] /\ Pushed(th, Further(th), Frame(r, TRUE))
      /\ ran' = [ran EXCEPT ![r] = @ + 1] /\ is_leaf' = [is_leaf EXCEPT ![th] = r \in Leaf]
  BY Zenon, <1>1, SubmitAndRunStep
<1>4. ran[r] = 0 /\ ~Queued(r)
  BY <1>0, <1>1, NotYet
<1>5. Top(th).job \notin Leaf
  <2>1. is_leaf[th] = (Top(th).job \in Leaf /\ Top(th).at # "leave")
    BY Zenon, <1>2 DEF WaitInv, LeafOnTop
  <2>2. Top(th).at # "leave"
    BY <1>2
  <2> QED
    BY Zenon, <1>0, <2>1, <2>2
<1>6. \A c : Queued(c)' <=> Queued(c) /\ c # r
  BY <1>0, <1>4 DEF Queued
<1>7. PICK f : f = Further(th)
  OBVIOUS
<1>8. Calls(th, f, r, TRUE)
  BY Zenon, <1>0, <1>2, <1>3, <1>4, <1>5, <1>6, <1>7 DEF Calls
<1>9. OneEntry'
  <2>1. \A i \in 1..Len(queue) : queue[i] # r /\ queue[i] \in Routines /\ ran[queue[i]] = 0
    BY <1>4 DEF Queued, TypeInv, WaitInv, OneEntry
  <2>2. \A i \in 1..Len(queue) : ran'[queue[i]] = 0
    BY <1>3, <2>1 DEF TypeInv
  <2> QED
    BY <1>0, <2>2 DEF OneEntry, WaitInv
<1> QED
  BY Zenon, <1>3, <1>8, <1>9, CallSafe

LEMMA TakeSafe ==
  ASSUME TypeInv, WaitInv, NEW th \in Threads, Take(th)
  PROVE  WaitInv'
<1>0. InRun(th) /\ queue # <<>> /\ num' = num
  BY Zenon DEF Take
<1>1. PICK r \in Routines : r = Head(queue)
  BY Zenon, TakeStep
<1>2. /\ stack' \in [Threads -> Seq(FrameType)] /\ queue' = Tail(queue)
      /\ Pushed(th, Top(th), Frame(r, FALSE))
      /\ ran' = [ran EXCEPT ![r] = @ + 1] /\ is_leaf' = [is_leaf EXCEPT ![th] = r \in Leaf]
  BY Zenon, <1>1, TakeStep
<1>3. Queued(r) /\ ran[r] = 0 /\ (\A c : Queued(c)' <=> Queued(c) /\ c # r) /\ OneEntry'
  BY <1>0, <1>1, <1>2, Dequeued
<1>4. stack[th] # <<>> => Top(th).at = "flush"
  BY Zenon, <1>0 DEF InRun, At
<1>5. stack[th] # <<>> => Top(th).job \notin Leaf
  BY <1>4, TopFields
<1>6. stack[th] = <<>> => th \notin Clients
  BY Zenon DEF WaitInv, Outermost
<1>7. PICK f : f = Top(th)
  OBVIOUS
<1>8. Calls(th, f, r, FALSE)
  BY Zenon, <1>0, <1>2, <1>3, <1>4, <1>5, <1>6, <1>7 DEF Calls
<1> QED
  BY Zenon, <1>2, <1>3, <1>8, CallSafe


\* A return from a routine takes a frame away that the waiter does not count (any more).
LEMMA ReturnSafe ==
  ASSUME TypeInv, WaitInv, NEW th \in Threads, ReturnToSubmit(th) \/ Leave(th)
  PROVE  WaitInv'
<1>0. /\ stack[th] # <<>> /\ stack' \in [Threads -> Seq(FrameType)] /\ Popped(th)
      /\ \A u \in Threads : u # th => stack'[u] = stack[u]
  BY Zenon, ReturnStep
<1>1. queue' = queue /\ num' = num /\ ran' = ran
  BY DEF ReturnToSubmit, Leave
<1>2. PICK n \in Nat \ {0} : n = Len(stack[th])
  BY Zenon, <1>0, TopFrame
<1>3. Top(th) = stack[th][n] /\ n \in Depths(th)
  BY <1>0, <1>2, TopFields
<1>4. \A u \in Threads : \A i : i \in Depths(u)' <=> i \in Depths(u) /\ ~(u = th /\ i = n)
  <2> SUFFICES ASSUME NEW u \in Threads, NEW i
               PROVE  i \in Depths(u)' <=> i \in Depths(u) /\ ~(u = th /\ i = n)
    BY Zenon
  <2>1. CASE u = th
    <3>1. Len(stack'[u]) = n - 1 /\ Len(stack[u]) = n
      BY Zenon, <1>0, <1>2, <2>1 DEF Popped
    <3> QED
      BY <2>1, <3>1 DEF Depths
  <2>2. CASE u # th
    BY Zenon, <1>0, <2>2 DEF Depths
  <2> QED
    BY <2>1, <2>2
<1>5. \A u \in Threads : \A i \in Depths(u)' : stack'[u][i] = stack[u][i]
  BY Zenon, <1>0 DEF Popped, Depths
<1>6. Top(th).here \/ Top(th).at = "leave"
  BY DEF ReturnToSubmit, Leave, At
<1>7. th \in Clients => n # 1
  <2> SUFFICES ASSUME th \in Clients, n = 1
               PROVE  FALSE
    BY Zenon
  <2>1. Top(th).job = th /\ Top(th).here
    BY Zenon, <1>3 DEF WaitInv, Outermost
  <2>2. CASE ReturnToSubmit(th)
    BY <2>1, <2>2, PoolAssumption DEF ReturnToSubmit
  <2>3. CASE Leave(th)
    <3>1. ~Top(th).here
      BY Zenon, <1>0, <2>3, TopFields DEF Leave, At
    <3> QED
      BY <2>1, <3>1
  <2> QED
    BY <2>2, <2>3
<1>8. is_leaf'[th] = FALSE /\ \A u \in Threads : u # th => is_leaf'[u] = is_leaf[u]
  <2>1. CASE ReturnToSubmit(th)
    BY <2>1 DEF ReturnToSubmit, TypeInv
  <2>2. CASE Leave(th)
    <3>1. is_leaf' = is_leaf /\ Top(th).at = "leave"
      BY <2>2 DEF Leave, At
    <3>2. is_leaf[th] = (Top(th).job \in Leaf /\ Top(th).at # "leave")
      BY Zenon, <1>0 DEF WaitInv, LeafOnTop
    <3> QED
      BY Zenon, <3>1, <3>2
  <2> QED
    BY Zenon, <2>1, <2>2
<1>9. \A u \in Threads : \A i \in Depths(u)' : i \in Depths(u)
  BY Zenon, <1>4
<1>10. Nested'
  <2> SUFFICES ASSUME NEW u \in Threads, NEW i \in Depths(u)', i < Len(stack'[u])
               PROVE  /\ stack'[u][i].job \notin Leaf
                      /\ stack'[u][i].at = (IF stack'[u][i + 1].here THEN "submit" ELSE "flush")
                      /\ stack'[u][i + 1].here => /\ stack'[u][i].next > 1
                                                  /\ stack'[u][i + 1].job = Children[stack'[u][i].job][stack'[u][i].next - 1]
    BY DEF Nested
  <2>1. i + 1 \in Depths(u)' /\ Len(stack'[u]) \in Nat /\ Len(stack[u]) \in Nat /\ i \in Nat
    BY <1>0 DEF Depths, TypeInv
  <2>2. i + 1 \in Depths(u) /\ i \in Depths(u)
    BY <1>9, <2>1
  <2>3. i < Len(stack[u])
    BY <2>1, <2>2 DEF Depths
  <2>4. stack'[u][i] = stack[u][i] /\ stack'[u][i + 1] = stack[u][i + 1]
    BY Zenon, <1>5, <2>1
  <2>5. /\ stack[u][i].job \notin Leaf
        /\ stack[u][i].at = (IF stack[u][i + 1].here THEN "submit" ELSE "flush")
        /\ stack[u][i + 1].here => /\ stack[u][i].next > 1
                                   /\ stack[u][i + 1].job = Children[stack[u][i].job][stack[u][i].next - 1]
    BY <2>2, <2>3 DEF WaitInv, Nested
  <2> QED
    BY Zenon, <2>4, <2>5
<1>11. Outermost'
  <2>1. ASSUME NEW c \in Clients
        PROVE  stack'[c] # <<>>
    <3>1. CASE c = th
      <4>1. Len(stack'[c]) = n - 1 /\ n # 1
        BY <1>0, <1>2, <1>7, <3>1 DEF Popped
      <4>2. Len(<<>>) = 0 /\ n - 1 # 0
        BY <1>2, <4>1
      <4> QED
        BY Zenon, <4>1, <4>2
    <3>2. CASE c # th
      <4>1. stack'[c] = stack[c]
        BY <1>0, <3>2 DEF Threads
      <4> QED
        BY Zenon, <4>1 DEF WaitInv, Outermost
    <3> QED
      BY <3>1, <3>2
  <2>2. ASSUME NEW u \in Threads, NEW i \in Depths(u)'
        PROVE  IF i = 1 /\ u \in Clients
               THEN stack'[u][i].job = u /\ stack'[u][i].here
               ELSE stack'[u][i].job \in Routines /\ (i = 1 => ~stack'[u][i].here)
    <3>1. i \in Depths(u) /\ stack'[u][i] = stack[u][i]
      BY Zenon, <1>5, <1>9
    <3>2. IF i = 1 /\ u \in Clients
          THEN stack[u][i].job = u /\ stack[u][i].here
          ELSE stack[u][i].job \in Routines /\ (i = 1 => ~stack[u][i].here)
      BY Zenon, <3>1 DEF WaitInv, Outermost
    <3> QED
      BY Zenon, <3>1, <3>2
  <2> QED
    BY Zenon, <2>1, <2>2 DEF Outermost
<1>12. LeafOnTop'
  <2> SUFFICES ASSUME NEW u \in Threads, stack'[u] # <<>>
               PROVE  is_leaf'[u] = (Top(u)'.job \in Leaf /\ Top(u)'.at # "leave")
    BY Zenon DEF LeafOnTop
  <2>1. CASE u = th
    <3>1. Len(stack'[u]) = n - 1 /\ stack'[u] \in Seq(FrameType) /\ Top(u)' = stack'[u][Len(stack'[u])]
      BY <1>0, <1>2, <2>1 DEF Popped, Top
    <3>2. n - 1 \in Depths(th)' /\ n - 1 \in Depths(th)
      BY <1>9, <2>1, <3>1 DEF Depths
    <3>3. Top(u)' = stack[th][n - 1]
      BY Zenon, <1>5, <2>1, <3>1, <3>2
    <3>4. stack[th][n - 1].job \notin Leaf
      BY <1>2, <3>2 DEF WaitInv, Nested
    <3>5. Top(u)'.job \notin Leaf
      BY Zenon, <3>3, <3>4
    <3> QED
      BY Zenon, <1>8, <2>1, <3>5
  <2>2. CASE u # th
    <3>1. stack'[u] = stack[u]
      BY Zenon, <1>0, <2>2
    <3>2. Top(u)' = Top(u) /\ stack[u] # <<>>
      BY Zenon, <3>1 DEF Top
    <3>3. is_leaf[u] = (Top(u).job \in Leaf /\ Top(u).at # "leave")
      BY Zenon, <3>2 DEF WaitInv, LeafOnTop
    <3> QED
      BY Zenon, <1>8, <2>2, <3>2, <3>3
  <2> QED
    BY <2>1, <2>2
<1>13. Counters'
  <2> SUFFICES ASSUME NEW u \in Threads, NEW i \in Depths(u)'
               PROVE  /\ stack'[u][i].next <= Len(Children[stack'[u][i].job]) + 1
                      /\ stack'[u][i].at # "submit" => stack'[u][i].next = Len(Children[stack'[u][i].job]) + 1
                      /\ stack'[u][i].job \in Leaf => stack'[u][i].at \notin {"flush", "wait"}
                      /\ stack'[u][i].at = "leave" => ~stack'[u][i].here
    BY Zenon DEF Counters
  <2>1. i \in Depths(u) /\ stack'[u][i] = stack[u][i]
    BY Zenon, <1>5, <1>9
  <2> QED
    BY Zenon, <2>1 DEF WaitInv, Counters
<1>14. OneFrame' /\ Started'
  <2>1. \A u \in Threads : \A i \in Depths(u)' : i \in Depths(u) /\ stack'[u][i] = stack[u][i]
    BY Zenon, <1>5, <1>9
  <2>2. OneFrame'
    <3> SUFFICES ASSUME NEW t \in Threads, NEW u \in Threads, NEW i \in Depths(t)', NEW k \in Depths(u)',
                        stack'[t][i].job = stack'[u][k].job
                 PROVE  t = u /\ i = k
      BY Zenon DEF OneFrame
    <3>1. i \in Depths(t) /\ k \in Depths(u) /\ stack[t][i].job = stack[u][k].job
      BY Zenon, <2>1
    <3>2. OneFrame
      BY Zenon DEF WaitInv
    <3> QED
      BY <3>1, <3>2 DEF OneFrame
  <2>3. Started'
    <3> SUFFICES ASSUME NEW u \in Threads, NEW i \in Depths(u)', stack'[u][i].job \in Routines
                 PROVE  ran'[stack'[u][i].job] = 1
      BY Zenon DEF Started
    <3>1. i \in Depths(u) /\ stack[u][i] = stack'[u][i]
      BY Zenon, <2>1
    <3>2. ran[stack'[u][i].job] = 1
      BY Zenon, <3>1 DEF WaitInv, Started
    <3> QED
      BY Zenon, <1>1, <3>2
  <2> QED
    BY Zenon, <2>2, <2>3
<1>15. OneEntry' /\ RunOnce' /\ HasParent'
  BY Zenon, <1>1 DEF WaitInv, OneEntry, RunOnce, HasParent, Queued
<1>16. \A c : Queued(c)' <=> Queued(c)
  BY Zenon, <1>1 DEF Queued
<1>17. Known'
  <2> SUFFICES ASSUME NEW m \in Jobs, NEW l \in 1..Len(Children[m]),
                      Queued(Children[m][l]) \/ ran[Children[m][l]] # 0
               PROVE  /\ m \in Routines => ran[m] = 1
                      /\ \A u \in Threads : \A i \in Depths(u)' : stack'[u][i].job = m => l < stack'[u][i].next
    BY Zenon, <1>1 DEF Known, Queued
  <2>1. /\ m \in Routines => ran[m] = 1
        /\ \A u \in Threads : \A i \in Depths(u) : stack[u][i].job = m => l < stack[u][i].next
    BY Zenon DEF WaitInv, Known
  <2> QED
    BY Zenon, <1>5, <1>9, <2>1
<1>18. AllSubmitted'
  <2> SUFFICES ASSUME NEW u \in Threads, NEW i \in Depths(u)', stack'[u][i].job \notin Leaf,
                      NEW l \in 1..Len(Children[stack'[u][i].job]), l < stack'[u][i].next
               PROVE  Queued(Children[stack'[u][i].job][l]) \/ ran[Children[stack'[u][i].job][l]] = 1
    BY <1>1 DEF AllSubmitted, Queued
  <2>1. i \in Depths(u) /\ stack'[u][i] = stack[u][i]
    BY Zenon, <1>5, <1>9
  <2> QED
    BY Zenon, <2>1 DEF WaitInv, AllSubmitted
<1>19. \A c : Counted(c)' <=> Counted(c)
  <2> SUFFICES ASSUME NEW c PROVE Counted(c)' <=> Counted(c)
    BY Zenon
  <2>1. ASSUME NEW u \in Threads, NEW i \in Depths(u),
               stack[u][i].job = c, ~stack[u][i].here, stack[u][i].at # "leave"
        PROVE  i \in Depths(u)' /\ stack'[u][i] = stack[u][i]
    <3>1. ~(u = th /\ i = n)
      BY Zenon, <1>3, <1>6, <2>1
    <3> QED
      BY Zenon, <1>4, <1>5, <3>1
  <2>2. ASSUME NEW u \in Threads, NEW i \in Depths(u)',
               stack'[u][i].job = c, ~stack'[u][i].here, stack'[u][i].at # "leave"
        PROVE  i \in Depths(u) /\ stack'[u][i] = stack[u][i]
    BY Zenon, <1>5, <1>9
  <2>3. ASSUME Counted(c), ~Queued(c)
        PROVE  Counted(c)'
    <3>1. PICK u \in Threads : \E i \in Depths(u) : stack[u][i].job = c /\ ~stack[u][i].here /\ stack[u][i].at # "leave"
      BY Zenon, <2>3 DEF Counted
    <3>2. PICK i \in Depths(u) : stack[u][i].job = c /\ ~stack[u][i].here /\ stack[u][i].at # "leave"
      BY Zenon, <3>1
    <3>3. i \in Depths(u)' /\ stack'[u][i] = stack[u][i]
      BY Zenon, <2>1, <3>2
    <3> QED
      BY Zenon, <3>2, <3>3 DEF Counted
  <2>4. ASSUME Counted(c)', ~Queued(c)
        PROVE  Counted(c)
    <3>1. PICK u \in Threads : \E i \in Depths(u)' : stack'[u][i].job = c /\ ~stack'[u][i].here /\ stack'[u][i].at # "leave"
      BY Zenon, <1>16, <2>4 DEF Counted
    <3>2. PICK i \in Depths(u)' : stack'[u][i].job = c /\ ~stack'[u][i].here /\ stack'[u][i].at # "leave"
      BY Zenon, <3>1
    <3>3. i \in Depths(u) /\ stack'[u][i] = stack[u][i]
      BY Zenon, <2>2, <3>2
    <3> QED
      BY Zenon, <3>2, <3>3 DEF Counted
  <2>5. Queued(c) => Counted(c) /\ Counted(c)'
    BY Zenon, <1>16 DEF Counted
  <2> QED
    BY Zenon, <2>3, <2>4, <2>5
<1>20. \A j : Open(j)' = Open(j)
  BY <1>19, SameOpen
<1>21. CountRight'
  BY Zenon, <1>1, <1>20, SameCount
<1>22. NoneOpen'
  <2> SUFFICES ASSUME NEW m \in Jobs \ Leaf, NEW u \in Threads, NEW i \in Depths(u)',
                      stack'[u][i].job = m, stack'[u][i].at \in {"done", "leave"}
               PROVE  Open(m)' = {}
    BY Zenon DEF NoneOpen
  <2>1. i \in Depths(u) /\ stack'[u][i] = stack[u][i]
    BY Zenon, <1>5, <1>9
  <2>2. Open(m) = {}
    BY <2>1 DEF WaitInv, NoneOpen
  <2> QED
    BY <1>20, <2>2
<1> QED
  BY Zenon, <1>10, <1>11, <1>12, <1>13, <1>14, <1>15, <1>17, <1>18, <1>21, <1>22 DEF WaitInv


LEMMA InitWait == Init => WaitInv
<1> SUFFICES ASSUME Init PROVE WaitInv
  OBVIOUS
<1>1. /\ \A th \in Threads : th \in Clients => stack[th] = <<Frame(th, TRUE)>>
      /\ \A th \in Threads : th \notin Clients => stack[th] = <<>>
      /\ queue = <<>> /\ ran = [r \in Routines |-> 0] /\ num = [j \in Jobs |-> 0]
      /\ is_leaf = [th \in Threads |-> FALSE]
  BY Zenon DEF Init
<1>a. \A th : Frame(th, TRUE).job = th /\ Frame(th, TRUE).next = 1 /\ Frame(th, TRUE).at = "submit"
  BY Zenon, FrameFields
<1>b. \A th : Frame(th, TRUE).here
  BY Zenon, FrameFields
<1>c. \A th \in Threads : \A i \in Depths(th) :
        th \in Clients /\ i = 1 /\ Len(stack[th]) = 1 /\ stack[th][i] = Frame(th, TRUE)
  <2> SUFFICES ASSUME NEW th \in Threads, NEW i \in Depths(th)
               PROVE  th \in Clients /\ i = 1 /\ Len(stack[th]) = 1 /\ stack[th][i] = Frame(th, TRUE)
    BY Zenon
  <2>0. PICK g : g = Frame(th, TRUE)
    BY Zenon
  <2>1. CASE th \in Clients
    <3>1. stack[th] = <<g>>
      BY Zenon, <1>1, <2>0, <2>1
    <3>2. Len(stack[th]) = 1 /\ i = 1 /\ stack[th][1] = g
      BY <3>1 DEF Depths
    <3> QED
      BY Zenon, <2>0, <2>1, <3>2
  <2>2. CASE th \notin Clients
    <3>1. stack[th] = <<>>
      BY Zenon, <1>1, <2>2
    <3> QED
      BY <3>1 DEF Depths
  <2> QED
    BY Zenon, <2>1, <2>2
<1>2. \A th \in Threads : \A i \in Depths(th) :
        /\ th \in Clients /\ i = 1 /\ Len(stack[th]) = 1
        /\ stack[th][i].job = th /\ stack[th][i].next = 1 /\ stack[th][i].at = "submit"
  BY Zenon, <1>a, <1>c
<1>d. \A th \in Threads : \A i \in Depths(th) : stack[th][i].here
  BY Zenon, <1>b, <1>c
<1>3. \A r : ~Queued(r)
  BY <1>1 DEF Queued
<1>4. \A r \in Routines : ran[r] = 0
  BY <1>1
<1>5. \A j : j \in Clients => j \notin Routines /\ j \notin Leaf /\ j \in Jobs /\ j \in Threads
  BY PoolAssumption DEF Jobs, Threads
<1>6. \A j \in Jobs : Len(Children[j]) \in Nat
  BY PoolAssumption
<1>7. \A j \in Jobs : \A k \in 1..Len(Children[j]) : Children[j][k] \in Routines
  BY Zenon, OneParent
<1>8. Nested
  BY <1>2 DEF Nested
<1>9. Outermost
  <2>1. \A c \in Clients : stack[c] # <<>>
    <3> SUFFICES ASSUME NEW c \in Clients PROVE stack[c] # <<>>
      OBVIOUS
    <3>1. stack[c] = <<Frame(c, TRUE)>>
      BY Zenon, <1>1, <1>5
    <3>2. PICK g : stack[c] = <<g>>
      BY Zenon, <3>1
    <3> QED
      BY <3>2
  <2>2. \A th \in Threads : \A i \in Depths(th) :
          i = 1 /\ th \in Clients /\ stack[th][i].job = th /\ stack[th][i].here
    BY Zenon, <1>2, <1>d
  <2> QED
    BY Zenon, <2>1, <2>2 DEF Outermost
<1>10. LeafOnTop
  <2> SUFFICES ASSUME NEW th \in Threads, stack[th] # <<>>
               PROVE  is_leaf[th] = (Top(th).job \in Leaf /\ Top(th).at # "leave")
    BY Zenon DEF LeafOnTop
  <2>1. th \in Clients /\ stack[th] = <<Frame(th, TRUE)>>
    BY Zenon, <1>1
  <2>2. Top(th) = Frame(th, TRUE)
    BY <2>1 DEF Top
  <2>3. Top(th).job \notin Leaf
    BY Zenon, <1>5, <1>a, <2>1, <2>2
  <2>4. is_leaf[th] = FALSE
    BY Zenon, <1>1
  <2> QED
    BY Zenon, <2>3, <2>4
<1>11. Counters
  <2> SUFFICES ASSUME NEW th \in Threads, NEW i \in Depths(th)
               PROVE  /\ stack[th][i].next <= Len(Children[stack[th][i].job]) + 1
                      /\ stack[th][i].at # "submit" => stack[th][i].next = Len(Children[stack[th][i].job]) + 1
                      /\ stack[th][i].job \in Leaf => stack[th][i].at \notin {"flush", "wait"}
                      /\ stack[th][i].at = "leave" => ~stack[th][i].here
    BY DEF Counters
  <2>1. /\ stack[th][i].job \in Jobs /\ stack[th][i].next = 1 /\ stack[th][i].at = "submit"
    <3>1. th \in Clients /\ stack[th][i].job = th
      BY Zenon, <1>2
    <3>2. th \in Jobs
      BY <1>5, <3>1
    <3>3. stack[th][i].next = 1 /\ stack[th][i].at = "submit"
      BY Zenon, <1>2
    <3> QED
      BY Zenon, <3>1, <3>2, <3>3
  <2>2. Len(Children[stack[th][i].job]) \in Nat
    BY Zenon, <1>6, <2>1
  <2> QED
    BY <2>1, <2>2
<1>12. OneFrame /\ Started
  BY <1>2, <1>5 DEF OneFrame, Started
<1>13. OneEntry /\ RunOnce
  BY <1>1, <1>4 DEF OneEntry, RunOnce
<1>14. Known /\ HasParent
  BY Zenon, <1>3, <1>4, <1>7 DEF Known, HasParent
<1>15. AllSubmitted
  BY <1>2 DEF AllSubmitted
<1>16. \A r : ~Counted(r)
  BY Zenon, <1>d, <1>3 DEF Counted
<1>17. \A j : Open(j) = {}
  BY <1>16 DEF Open
<1>18. CountRight
  BY Zenon, <1>1, <1>17, FS_EmptySet DEF CountRight
<1>19. NoneOpen
  BY <1>17 DEF NoneOpen
<1> QED
  BY Zenon, <1>8, <1>9, <1>10, <1>11, <1>12, <1>13, <1>14, <1>15, <1>18, <1>19 DEF WaitInv

LEMMA StepWait == TypeInv /\ WaitInv /\ [Next]_vars => WaitInv'
<1> SUFFICES ASSUME TypeInv, WaitInv, [Next]_vars
             PROVE  WaitInv'
  OBVIOUS
<1>1. ASSUME NEW th \in Threads, Step(th)
      PROVE  WaitInv'
  BY Zenon, <1>1, SubmitThrowsSafe, SubmitAndRunSafe, SubmitToQueueSafe, WaitSafe, TakeSafe,
     ReturnSafe, ReturnToRunSafe DEF Step
<1>2. ASSUME queue' = queue, num' = num, stack' = stack, is_leaf' = is_leaf, ran' = ran
      PROVE  WaitInv'
  <2>1. \A th : Depths(th)' = Depths(th) /\ Top(th)' = Top(th)
    BY Zenon, <1>2 DEF Depths, Top
  <2>2. \A r : Queued(r)' <=> Queued(r)
    BY Zenon, <1>2 DEF Queued
  <2>3. \A r : Counted(r)' <=> Counted(r)
    BY Zenon, <1>2, <2>1, <2>2 DEF Counted
  <2>4. \A j : Open(j)' = Open(j)
    BY <2>3, SameOpen
  <2>5. Nested' /\ Outermost' /\ LeafOnTop'
    BY Zenon, <1>2, <2>1 DEF WaitInv, Nested, Outermost, LeafOnTop
  <2>a. Counters'
    BY Zenon, <1>2, <2>1 DEF WaitInv, Counters
  <2>b. OneFrame' /\ Started'
    BY Zenon, <1>2, <2>1 DEF WaitInv, OneFrame, Started
  <2>c. OneEntry' /\ RunOnce'
    BY Zenon, <1>2 DEF WaitInv, OneEntry, RunOnce
  <2>6. Counters' /\ OneFrame' /\ Started' /\ OneEntry' /\ RunOnce'
    BY Zenon, <2>a, <2>b, <2>c
  <2>7. Known' /\ HasParent' /\ AllSubmitted'
    <3>1. Known'
      BY Zenon, <1>2, <2>1, <2>2 DEF WaitInv, Known
    <3>2. HasParent'
      BY Zenon, <1>2, <2>2 DEF WaitInv, HasParent
    <3>3. AllSubmitted'
      BY Zenon, <1>2, <2>1, <2>2 DEF WaitInv, AllSubmitted
    <3> QED
      BY <3>1, <3>2, <3>3
  <2>8. CountRight'
    BY <1>2, <2>4, SameCount
  <2>9. NoneOpen'
    BY Zenon, <1>2, <2>1, <2>4 DEF WaitInv, NoneOpen
  <2> QED
    BY Zenon, <2>5, <2>6, <2>7, <2>8, <2>9 DEF WaitInv
<1>3. ASSUME NEW w \in Workers, Sleep(w)
      PROVE  WaitInv'
  BY <1>2, <1>3 DEF Sleep
<1>4. CASE UNCHANGED vars
  BY <1>2, <1>4 DEF vars
<1> QED
  BY Zenon, <1>1, <1>3, <1>4 DEF Next

\* Past the last of m routines.
LEMMA PastAll ==
  ASSUME NEW m \in Nat, NEW k \in 1..m, NEW x, x = m + 1
  PROVE  k < x
  OBVIOUS

\* The frames of a thread.
LEMMA FramesAt ==
  ASSUME TypeInv, NEW th \in Threads, NEW f \in Frames(th)
  PROVE  \E i \in Depths(th) : stack[th][i] = f
<1>1. stack[th] \in Seq(FrameType)
  BY Zenon DEF TypeInv
<1>2. DOMAIN stack[th] = Depths(th)
  BY <1>1 DEF Depths
<1> QED
  BY Zenon, <1>2 DEF Frames, Range

\* Past wait, what a job submitted was run and has returned.
LEMMA WaitedForAll == TypeInv /\ WaitInv => WaitWaits
<1> SUFFICES ASSUME TypeInv, WaitInv, NEW th \in Threads, NEW f \in Frames(th),
                    f.at \in {"done", "leave"}, f.job \notin Leaf, NEW r \in Range(Children[f.job])
             PROVE  ran[r] = 1 /\ ~Running(r)
  BY Zenon DEF WaitWaits
<1>1. PICK n \in Depths(th) : stack[th][n] = f
  BY Zenon, FramesAt
<1>2. f \in FrameType
  BY <1>1 DEF TypeInv, Depths
<1>3. PICK j \in Jobs : j = f.job
  BY Zenon, <1>2 DEF FrameType
<1>4. Children[j] \in Seq(Routines) /\ Len(Children[j]) \in Nat
  BY PoolAssumption
<1>5. PICK k \in 1..Len(Children[j]) : Children[j][k] = r
  BY <1>3, <1>4 DEF Range
<1>6. Open(j) = {}
  BY Zenon, <1>1, <1>3 DEF WaitInv, NoneOpen
<1>7. ~Counted(r)
  BY Zenon, <1>5, <1>6 DEF Open
<1>8. k < f.next
  <2>1. f.at # "submit"
    BY Zenon
  <2>2. f.next = Len(Children[f.job]) + 1
    BY Zenon, <1>1, <2>1 DEF WaitInv, Counters
  <2> QED
    <3>1. PICK m \in Nat : m = Len(Children[j])
      BY Zenon, <1>4
    <3>2. f.next = m + 1 /\ k \in 1..m
      BY Zenon, <1>3, <1>5, <2>2, <3>1
    <3> QED
      BY Zenon, <3>2, PastAll
<1>9. ran[r] = 1
  <2>1. Queued(r) \/ ran[r] = 1
    BY Zenon, <1>1, <1>3, <1>5, <1>8 DEF WaitInv, AllSubmitted
  <2> QED
    BY Zenon, <1>7, <2>1 DEF Counted
<1>10. r \in Routines
  BY <1>4, <1>5
<1>11. ASSUME NEW u \in Threads, NEW g \in Frames(u), g.job = r, g.at # "leave"
       PROVE  FALSE
  <2>1. PICK i \in Depths(u) : stack[u][i] = g
    BY Zenon, <1>11, FramesAt
  <2>2. g.here
    BY Zenon, <1>7, <1>11, <2>1 DEF Counted
  <2>3. i # 1
    <3>1. CASE u \in Clients
      <4>1. u # r
        BY <1>10, <3>1, PoolAssumption
      <4> QED
        BY <1>11, <2>1, <3>1, <4>1 DEF WaitInv, Outermost
    <3>2. CASE u \notin Clients
      BY <2>1, <2>2, <3>2 DEF WaitInv, Outermost
    <3> QED
      BY Zenon, <3>1, <3>2
  <2>4. Len(stack[u]) \in Nat /\ i \in Nat \ {0} /\ i - 1 \in Depths(u) /\ i - 1 < Len(stack[u]) /\ (i - 1) + 1 = i
    <3>1. Len(stack[u]) \in Nat
      BY DEF TypeInv
    <3>2. i \in 1..Len(stack[u])
      BY Zenon DEF Depths
    <3>3. i \in Nat \ {0} /\ i - 1 \in 1..Len(stack[u]) /\ i - 1 < Len(stack[u]) /\ (i - 1) + 1 = i
      BY <2>3, <3>1, <3>2
    <3> QED
      BY Zenon, <3>1, <3>3 DEF Depths
  <2>5. PICK m \in Nat : m = i - 1
    BY <2>4
  <2>6. PICK h : h = stack[u][m]
    BY Zenon
  <2>7. h.at = "submit" /\ h.next > 1 /\ r = Children[h.job][h.next - 1]
    <3>1. m \in Depths(u) /\ m < Len(stack[u]) /\ stack[u][m + 1] = g
      BY Zenon, <2>1, <2>4, <2>5
    <3> QED
      BY Zenon, <1>11, <2>2, <2>6, <3>1 DEF WaitInv, Nested
  <2>8. h \in FrameType /\ h.next <= Len(Children[h.job]) + 1
    BY <2>4, <2>5, <2>6 DEF WaitInv, Counters, TypeInv, Depths
  <2>9. h.job \in Jobs /\ h.next \in Nat
    BY Zenon, <2>8 DEF FrameType
  <2>10. Len(Children[h.job]) \in Nat
    <3>1. Children[h.job] \in Seq(Routines)
      BY Zenon, <2>9, PoolAssumption
    <3> QED
      BY <3>1
  <2>11. h.next - 1 \in 1..Len(Children[h.job])
    BY <2>7, <2>8, <2>9, <2>10
  <2>12. h.job = j
    <3>1. \A a \in Jobs : \A l \in 1..Len(Children[a]) : Children[a][l] = Children[j][k] => a = j
      BY Zenon, OneParent
    <3> QED
      BY Zenon, <1>5, <2>7, <2>9, <2>11, <3>1
  <2>13. u = th /\ m = n
    BY <1>1, <1>3, <2>4, <2>5, <2>6, <2>12 DEF WaitInv, OneFrame
  <2> QED
    BY Zenon, <1>1, <2>6, <2>7, <2>13
<1> QED
  BY Zenon, <1>9, <1>11 DEF Running

\* waiter::wait waits for every routine of its job, whichever threads run them and however
\* their calls nest: past it, each of them was started once and none is still running.
THEOREM WaitsForAll == Spec => []WaitWaits
<1>1. Init => WaitInv
  BY InitWait
<1>2. TypeInv /\ WaitInv /\ [Next]_vars => WaitInv'
  BY StepWait
<1>3. TypeInv /\ WaitInv => WaitWaits
  BY WaitedForAll
<1> QED
  BY <1>1, <1>2, <1>3, TypeCorrect, PTL DEF Spec

=============================================================================
