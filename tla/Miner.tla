------------------------------- MODULE Miner -------------------------------
(***************************************************************************)
(* The miner of the daemon (miner.cpp) with the handlers of core that      *)
(* pause it and give it templates: worker threads hash the miner's         *)
(* template; the idle thread asks for a new one now and then; the network  *)
(* thread adds blocks and asks for one when the chain grew; a worker that  *)
(* finds a block adds it and asks for one; the control thread starts and   *)
(* stops the miner; and in background mode one more thread tells the       *)
(* workers when the machine is idle.  Clients of the RPC server ask for    *)
(* templates as well, whether the node mines or not.                       *)
(*                                                                         *)
(* m_template_no is only ever compared with a worker's copy of it, so the  *)
(* copy is a flag: whether the two are equal.  They are equal again after  *)
(* 2^32 templates, which the model leaves out.  So it does the failures of *)
(* create_block_template: a zero difficulty, or a miner transaction that   *)
(* cannot be built.                                                        *)
(***************************************************************************)
EXTENDS BlockTemplate

CONSTANTS
  Workers,     \* m_threads
  Clients,     \* clients of the RPC server
  Serves,      \* role |-> the clients that ask a node of this role
  Background   \* m_is_background_mining_enabled

ASSUME ThreadsAssumption ==
  /\ IsFiniteSet(Workers)
  /\ Workers \cup Clients \cup {"idle", "net", "control"} \subseteq Callers
  /\ {"idle", "net", "control"} \cap (Workers \cup Clients) = {} /\ Workers \cap Clients = {}

VARIABLES
  template,      \* m_template
  stop,          \* m_stop
  pausers,       \* m_pausers_count
  worker,        \* worker |-> where it is, its block b, and whether it has seen m_template_no
  bg,            \* where the background thread is
  started        \* m_is_background_mining_started

miner_vars == <<template, stop, pausers, worker, bg, started>>
vars == <<template_vars, miner_vars>>

NewWorker == [at |-> "loop", b |-> NoBlock, seen |-> FALSE]

\* m_is_background_mining_started has no initial value; only a miner reads it.
Init ==
  /\ TemplateInit
  /\ template = NoBlock /\ stop = TRUE /\ pausers = 0
  /\ worker = [w \in Workers |-> [NewWorker EXCEPT !.at = "gone"]]
  /\ bg = "off" /\ started \in (IF role = "server" THEN {FALSE} ELSE BOOLEAN)

WorkerAt(w, where) == worker[w].at = where

Move(w, where) == worker' = [worker EXCEPT ![w].at = where]

\* miner::resume
Resumed == IF pausers > 0 THEN pausers - 1 ELSE 0

\* Mutant: the template changes, its number does not.
SetWithoutNumber(bl) == template' = bl /\ UNCHANGED worker

\* miner::set_block_template
set_block_template(bl) ==
  /\ template' = bl
  /\ worker' = [w \in Workers |-> [worker[w] EXCEPT !.seen = FALSE]]

\* request_block_template, once create_block_template has returned.
TakeTemplate(c, next) ==
  /\ At(c, "done")
  /\ set_block_template(call[c].b)
  /\ call' = [call EXCEPT ![c] = [Idle EXCEPT !.at = next]]
  /\ UNCHANGED <<role, tip, cookie, btc, pool_lock, raced, stop, pausers, bg, started>>

-----------------------------------------------------------------------------
(* The idle thread and the clients *)

\* miner::on_idle
OnIdle ==
  /\ At("idle", "out") /\ ~stop
  /\ Go("idle", "call")
  /\ UNCHANGED <<role, tip, cookie, btc, pool_lock, raced, miner_vars>>

IdleTemplate == TakeTemplate("idle", "out")

\* core_rpc_server::on_getblocktemplate
ClientAsks(c) ==
  /\ c \in Serves[role] /\ At(c, "out") /\ Go(c, "call")
  /\ UNCHANGED <<role, tip, cookie, btc, pool_lock, raced, miner_vars>>

ClientAnswered(c) ==
  /\ At(c, "done")
  /\ call' = [call EXCEPT ![c] = Idle]
  /\ UNCHANGED <<role, tip, cookie, btc, pool_lock, raced, miner_vars>>

-----------------------------------------------------------------------------
(* The network thread: handle_notify_new_block *)

\* pause_mine, prepare_handle_incoming_blocks
BlockComes ==
  /\ At("net", "out") /\ pool_lock = Nobody
  /\ Go("net", "add") /\ pool_lock' = "net" /\ pausers' = pausers + 1
  /\ UNCHANGED <<role, tip, cookie, btc, raced, template, stop, worker, bg, started>>

\* handle_incoming_block, update_miner_block_template
BlockAdded ==
  /\ At("net", "add") /\ NewTip
  /\ Go("net", IF stop THEN "release" ELSE "call")
  /\ UNCHANGED <<pool_lock, miner_vars>>

BlockRefused ==
  /\ At("net", "add") /\ Go("net", "release")
  /\ UNCHANGED <<role, tip, cookie, btc, pool_lock, raced, miner_vars>>

NetTemplate == TakeTemplate("net", "release")

\* cleanup_handle_incoming_blocks, resume_mine
BlockHandled ==
  /\ At("net", "release")
  /\ Go("net", "out") /\ pool_lock' = Nobody /\ pausers' = Resumed
  /\ UNCHANGED <<role, tip, cookie, btc, raced, template, stop, worker, bg, started>>

-----------------------------------------------------------------------------
(* miner::worker_thread *)

\* The top of the loop: m_stop, then m_pausers_count, then the background flag.
Leave(w) ==
  /\ WorkerAt(w, "loop") /\ stop
  /\ Move(w, "gone")
  /\ UNCHANGED <<template_vars, template, stop, pausers, bg, started>>

Enter(w) ==
  /\ WorkerAt(w, "loop") /\ ~stop /\ pausers = 0
  /\ Move(w, IF Background THEN "flag" ELSE "compare")
  /\ UNCHANGED <<template_vars, template, stop, pausers, bg, started>>

TestFlag(w) ==
  /\ WorkerAt(w, "flag")
  /\ Move(w, IF started THEN (IF stop THEN "loop" ELSE "compare") ELSE "sleepy")
  /\ UNCHANGED <<template_vars, template, stop, pausers, bg, started>>

\* The flag is not tested again once the mutex is taken.
Wait(w) ==
  /\ WorkerAt(w, "sleepy") /\ Move(w, "asleep")
  /\ UNCHANGED <<template_vars, template, stop, pausers, bg, started>>

Wake(w) ==
  /\ WorkerAt(w, "awake")
  /\ Move(w, IF stop THEN "loop" ELSE "flag")
  /\ UNCHANGED <<template_vars, template, stop, pausers, bg, started>>

notify_all(W) == [w \in Workers |-> IF W[w].at = "asleep" THEN [W[w] EXCEPT !.at = "awake"] ELSE W[w]]

\* The template is copied under m_template_lock, its number read after the unlock.
CopyTemplate(w) ==
  /\ WorkerAt(w, "compare") /\ ~worker[w].seen
  /\ worker' = [worker EXCEPT ![w].at = "number", ![w].b = template]
  /\ UNCHANGED <<template_vars, template, stop, pausers, bg, started>>

ReadNumber(w) ==
  /\ WorkerAt(w, "number")
  /\ worker' = [worker EXCEPT ![w].at = "hash", ![w].seen = TRUE]
  /\ UNCHANGED <<template_vars, template, stop, pausers, bg, started>>

SameTemplate(w) ==
  /\ WorkerAt(w, "compare") /\ worker[w].seen
  /\ Move(w, "hash")
  /\ UNCHANGED <<template_vars, template, stop, pausers, bg, started>>

NoLuck(w) ==
  /\ WorkerAt(w, "hash") /\ Move(w, "loop")
  /\ UNCHANGED <<template_vars, template, stop, pausers, bg, started>>

\* core::handle_block_found: pause
Found(w) ==
  /\ WorkerAt(w, "hash") /\ Move(w, "found") /\ pausers' = pausers + 1
  /\ UNCHANGED <<template_vars, template, stop, bg, started>>

\* Mutant: the early return forgets to resume.
FoundTooLateStillPaused(w) ==
  /\ WorkerAt(w, "found") /\ Move(w, "loop")
  /\ UNCHANGED <<template_vars, template, stop, pausers, bg, started>>

\* get_block_complete_entry throws: a transaction of the block has left the pool.
FoundTooLate(w) ==
  /\ WorkerAt(w, "found") /\ Move(w, "loop") /\ pausers' = Resumed
  /\ UNCHANGED <<template_vars, template, stop, bg, started>>

\* prepare_handle_incoming_blocks, add_new_block, cleanup_handle_incoming_blocks: a block on
\* top of the chain may extend it.  A template is asked for in either case.
AddFound(w) ==
  /\ WorkerAt(w, "found") /\ PoolFree(w)
  /\ \/ worker[w].b.prev = tip /\ worker[w].b.txs = tip /\ NewTip
     \/ UNCHANGED <<role, tip, cookie, btc, raced>>
  /\ IF stop
     THEN Move(w, "resume") /\ UNCHANGED call
     ELSE Move(w, "update") /\ Go(w, "call")
  /\ UNCHANGED <<pool_lock, template, stop, pausers, bg, started>>

FoundTemplate(w) ==
  /\ TakeTemplate(w, "out") /\ WorkerAt(w, "update")

Resume(w) ==
  /\ WorkerAt(w, "resume") \/ (WorkerAt(w, "update") /\ At(w, "out"))
  /\ Move(w, "loop") /\ pausers' = Resumed
  /\ UNCHANGED <<template_vars, template, stop, bg, started>>

-----------------------------------------------------------------------------
(* miner::start, miner::stop: one thread at a time (m_threads_lock) *)

Start ==
  /\ role # "server" /\ At("control", "out") /\ stop
  /\ Go("control", "call")
  /\ UNCHANGED <<role, tip, cookie, btc, pool_lock, raced, miner_vars>>

StartTemplate == TakeTemplate("control", "launch")

Launch ==
  /\ At("control", "launch")
  /\ Go("control", "out") /\ stop' = FALSE
  /\ worker' = [w \in Workers |-> NewWorker]
  /\ bg' = IF Background THEN "begin" ELSE "off"
  /\ UNCHANGED <<role, tip, cookie, btc, pool_lock, raced, template, pausers, started>>

SendStopSignal ==
  /\ At("control", "out") /\ ~stop
  /\ Go("control", "notify") /\ stop' = TRUE
  /\ UNCHANGED <<role, tip, cookie, btc, pool_lock, raced, template, pausers, worker, bg, started>>

NotifyWorkers ==
  /\ At("control", "notify") /\ Go("control", "join")
  /\ worker' = notify_all(worker)
  /\ UNCHANGED <<role, tip, cookie, btc, pool_lock, raced, template, stop, pausers, bg, started>>

Joined ==
  /\ At("control", "join") /\ \A w \in Workers : WorkerAt(w, "gone")
  /\ bg = "off" /\ Go("control", "out")
  /\ UNCHANGED <<role, tip, cookie, btc, pool_lock, raced, miner_vars>>

-----------------------------------------------------------------------------
(* miner::background_worker_thread *)

BackgroundBegins ==
  /\ bg = "begin" /\ bg' = "run" /\ started' = FALSE
  /\ UNCHANGED <<template_vars, template, stop, pausers, worker>>

MachineIdle ==
  /\ bg = "run" /\ ~started
  /\ started' = TRUE
  /\ worker' = notify_all(worker)
  /\ UNCHANGED <<template_vars, template, stop, pausers, bg>>

MachineBusy ==
  /\ bg = "run" /\ started
  /\ started' = FALSE
  /\ UNCHANGED <<template_vars, template, stop, pausers, worker, bg>>

BackgroundEnds ==
  /\ bg = "run" /\ stop /\ bg' = "off"
  /\ UNCHANGED <<template_vars, template, stop, pausers, worker, started>>

-----------------------------------------------------------------------------
WorkerStep(w) ==
  \/ Leave(w) \/ Enter(w) \/ TestFlag(w) \/ Wait(w) \/ Wake(w)
  \/ CopyTemplate(w) \/ ReadNumber(w) \/ SameTemplate(w) \/ NoLuck(w) \/ FoundTooLate(w)
  \/ AddFound(w) \/ FoundTemplate(w) \/ Resume(w)

IdleStep == OnIdle \/ IdleTemplate

NetStep == BlockAdded \/ BlockRefused \/ NetTemplate \/ BlockHandled

ControlStep == StartTemplate \/ Launch \/ NotifyWorkers \/ Joined

BackgroundStep == BackgroundBegins \/ BackgroundEnds

CreateStep(c) == create_block_template(c) /\ UNCHANGED miner_vars

Next ==
  \/ \E c \in Callers : CreateStep(c)
  \/ \E w \in Workers : WorkerStep(w) \/ Found(w)
  \/ PoolChange /\ UNCHANGED miner_vars
  \/ IdleStep \/ NetStep \/ ControlStep \/ BackgroundStep
  \/ \E c \in Clients : ClientAsks(c) \/ ClientAnswered(c)
  \/ BlockComes \/ Start \/ SendStopSignal \/ MachineIdle \/ MachineBusy

\* Threads that have begun something go on with it, one that waits for a lock gets it, and
\* the idle thread comes around again.  Nobody has to find a block, to send one, to ask for a
\* template, or to start or stop the miner.
Fairness ==
  /\ \A c \in Callers \ Clients : SF_vars(CreateStep(c))
  /\ SF_vars(\E c \in Clients : CreateStep(c))
  /\ \A w \in Workers : WF_vars(WorkerStep(w))
  /\ WF_vars(IdleStep) /\ WF_vars(NetStep) /\ WF_vars(ControlStep) /\ WF_vars(BackgroundStep)

Spec == Init /\ [][Next]_vars /\ Fairness

-----------------------------------------------------------------------------
\* The template cache (blockchain.cpp:1500 and 4890) never mixes up two callers: unless two
\* of them were at the cache at the same time, or the pool changed just before its cookie
\* was read (blockchain.cpp:1540), every template handed out pays the address it was asked
\* for, states the difficulty of the chain it builds on, and, while that chain is the node's,
\* holds transactions chosen for it; and a cached template is found only while the pool is
\* the one it was filled from.
CacheRight ==
  raced \/
    /\ \A c \in Callers : At(c, "done") =>
         LET b == call[c].b IN
         /\ b.pays = Address[c]
         /\ call[c].diffic = b.prev
         /\ b.prev = tip => b.txs = tip
    /\ \A c \in Callers : At(c, "copy") => btc.block.pool = btc.cookie

\* Every pause of the miner is undone by exactly one resume (miner.cpp:414-435), on every
\* way out of the handlers: the count is the number of handlers that are at work, so it
\* never falls below zero, and mining is never left paused.
PausesBalanced ==
  pausers = Cardinality({w \in Workers : worker[w].at \in {"found", "update", "resume"}})
            + (IF At("net", "out") THEN 0 ELSE 1)

\* Once the chain stays as it is, workers stop hashing blocks that build on an older
\* one, although a worker that reads the template's number after the unlock
\* (miner.cpp:476) takes an old template for the new one: on_idle gives it another.
StaleEnds == <>[](\A w \in Workers : WorkerAt(w, "hash") => worker[w].b.prev = tip)

\* A stop ends: "In case background mining was active and the miner threads are waiting on
\* the background miner to signal start" (miner.cpp:369), they are woken up and join.
\* It does not hold: see README.md.
StopEnds == call["control"].at \in {"notify", "join"} ~> At("control", "out")
=============================================================================
