----------------------------- MODULE HttpServer -----------------------------
(***************************************************************************)
(* An http_server_t run on a thread pool: run() of http_server_run.hpp on  *)
(* the main thread, ioctx_on_thread_pool_t, http_server_t::open_sync() and *)
(* close_sync(), and acceptor_t with its concurrent accepts.               *)
(*                                                                         *)
(* The pool threads execute jobs of one io_context.  open_async() and      *)
(* close_async() put theirs on a strand, so that they exclude each other;  *)
(* accept handlers and initiate_shutdown() use the io_context directly.    *)
(* A job is executed in the steps at which it touches what other threads   *)
(* use: none of these members is atomic or guarded by a lock.              *)
(***************************************************************************)
EXTENDS Integers, Sequences, FiniteSets

CONSTANTS Workers,    \* the threads of the pool
          Accepts,    \* concurrent_accepts_count sockets of socket_supplier_t
          Clients,    \* bound: connections that arrive
          Separate,   \* separate_accept_and_create_connect
          Events,     \* "signal" (SIGINT), "shutdown" (initiate_shutdown())
          Faults      \* "open", "thread", "accept", "create": what may fail

ASSUME HttpServerAssumption ==
  /\ IsFiniteSet(Workers) /\ IsFiniteSet(Accepts) /\ IsFiniteSet(Clients)
  /\ Separate \in BOOLEAN
  /\ Events \subseteq {"signal", "shutdown"}
  /\ Faults \subseteq {"open", "thread", "accept", "create"}

VARIABLES
  main,      \* where run() is
  started,   \* m_status of the pool
  worker,    \* [pc, job] of each thread of the pool
  ctx,       \* the io_context: [stopped, strand, ready], queues of jobs
  running,   \* m_running_state
  acc,       \* the acceptor: [open, waiting], pending accepts of each socket
  conn,      \* what became of each client: [st, at]
  cleanup,   \* m_cleanup_functor is there
  cleanups,  \* history: how often it was called
  exc,       \* exception_caught is set
  events,    \* events still to come
  openFailed, \* history: open_sync() threw
  opened,    \* history: open_sync() succeeded
  overlap,   \* history: two threads were in call_cleanup_functor() at once
  dead       \* std::terminate() was called

vars == <<main, started, worker, ctx, running, acc, conn, cleanup, cleanups, exc,
          events, openFailed, opened, overlap, dead>>

Job(kind)      == [kind |-> kind]
SlotJob(i, c)  == [kind |-> "accepted", slot |-> i, client |-> c]
CreateJob(c)   == [kind |-> "create", client |-> c]
StrandJob(job) == job.kind \in {"open", "close"}

Thread(pc, job) == [pc |-> pc, job |-> job]
NoJob           == Job("none")

Init ==
  /\ main = "open_async"
  /\ started = FALSE
  /\ worker = [w \in Workers |-> Thread("none", NoJob)]
  /\ ctx = [stopped |-> FALSE, strand |-> <<>>, ready |-> <<>>]
  /\ running = FALSE
  /\ acc = [open |-> FALSE, waiting |-> [i \in Accepts |-> 0]]
  /\ conn = [c \in Clients |-> [st |-> "outside", at |-> "nowhere"]]
  /\ cleanup = TRUE /\ cleanups = 0
  /\ exc = FALSE /\ events = Events /\ openFailed = FALSE
  /\ opened = FALSE /\ overlap = FALSE /\ dead = FALSE

-----------------------------------------------------------------------------
(* run() and ioctx_on_thread_pool_t on the main thread *)

Post(job) == ctx' = [ctx EXCEPT !.ready = Append(@, job)]
PostToStrand(job) == ctx' = [ctx EXCEPT !.strand = Append(@, job)]

OpenAsync ==
  /\ main = "open_async"
  /\ main' = "start"
  /\ PostToStrand(Job("open"))
  /\ UNCHANGED <<started, worker, running, acc, conn, cleanup, cleanups, exc, events,
                 openFailed, opened, overlap, dead>>

\* start(): the constructor of a std::thread returns, or throws.
StartThread ==
  /\ main = "start"
  /\ \E w \in Workers :
       /\ worker[w].pc = "none"
       /\ \/ /\ worker' = [worker EXCEPT ![w].pc = "idle"]
             /\ UNCHANGED <<main, ctx, exc>>
          \/ /\ "thread" \in Faults
             /\ main' = "join_after_failure"
             /\ ctx' = [ctx EXCEPT !.stopped = TRUE]
             /\ exc' = TRUE
             /\ UNCHANGED worker
  /\ UNCHANGED <<started, running, acc, conn, cleanup, cleanups, events, openFailed, opened,
                 overlap, dead>>

AllStarted ==
  /\ main = "start"
  /\ \A w \in Workers : worker[w].pc # "none"
  /\ started' = TRUE
  /\ main' = "wait"
  /\ UNCHANGED <<worker, ctx, running, acc, conn, cleanup, cleanups, exc, events,
                 openFailed, opened, overlap, dead>>

\* Mutant: wait() returns when the io_context is stopped.
JoinedWhenStopped == ctx.stopped

Joined == \A w \in Workers : worker[w].pc \in {"none", "exited"}

\* wait(), or the catch clause of start(), joins the threads; run() returns.
Wait ==
  /\ main \in {"wait", "join_after_failure"}
  /\ Joined
  /\ started' = FALSE
  /\ main' = "returned"
  /\ UNCHANGED <<worker, ctx, running, acc, conn, cleanup, cleanups, exc, events,
                 openFailed, opened, overlap, dead>>

CloseAcceptor(a) == [open |-> FALSE, waiting |-> [i \in Accepts |-> 0]]

\* Mutant: the destructor does not close the server.
DestroyWithoutClose ==
  /\ main = "returned"
  /\ main' = "destroyed"
  /\ UNCHANGED <<started, worker, ctx, running, acc, conn, cleanup, cleanups, exc, events,
                 openFailed, opened, overlap, dead>>

\* ~http_server_t() calls close_sync().
DestroyServer ==
  /\ main = "returned"
  /\ main' = "destroyed"
  /\ IF running
     THEN /\ acc' = CloseAcceptor(acc) /\ running' = FALSE
          /\ cleanup' = FALSE
          /\ cleanups' = cleanups + (IF cleanup THEN 1 ELSE 0)
     ELSE UNCHANGED <<acc, running, cleanup, cleanups>>
  /\ UNCHANGED <<started, worker, ctx, conn, exc, events, openFailed, opened, overlap,
                 dead>>

-----------------------------------------------------------------------------
(* The threads of the pool *)

\* io_context::run(): a job of the strand runs when no other one does.
TakeJob(w) ==
  /\ worker[w].pc = "idle" /\ ~ctx.stopped
  /\ \/ /\ ctx.strand # <<>>
        /\ \A v \in Workers : ~StrandJob(worker[v].job)
        /\ worker' = [worker EXCEPT ![w] = Thread(Head(ctx.strand).kind, Head(ctx.strand))]
        /\ ctx' = [ctx EXCEPT !.strand = Tail(@)]
     \/ /\ ctx.ready # <<>>
        /\ worker' = [worker EXCEPT ![w] = Thread(Head(ctx.ready).kind, Head(ctx.ready))]
        /\ ctx' = [ctx EXCEPT !.ready = Tail(@)]
  /\ UNCHANGED <<main, started, running, acc, conn, cleanup, cleanups, exc, events,
                 openFailed, opened, overlap, dead>>

ExitRun(w) ==
  /\ worker[w].pc = "idle" /\ ctx.stopped
  /\ worker' = [worker EXCEPT ![w].pc = "exited"]
  /\ UNCHANGED <<main, started, ctx, running, acc, conn, cleanup, cleanups, exc, events,
                 openFailed, opened, overlap, dead>>

At(w, pc)    == worker[w].pc = pc
GoTo(w, pc)  == worker' = [worker EXCEPT ![w].pc = pc]
EndJob(w)    == worker' = [worker EXCEPT ![w] = Thread("idle", NoJob)]

\* pool.stop(): does nothing until start() has set m_status.
PoolStop == ctx' = IF started THEN [ctx EXCEPT !.stopped = TRUE] ELSE ctx

\* Mutant: the accept is started twice.
AcceptNextTwice(a, i) == IF a.open THEN [a EXCEPT !.waiting[i] = @ + 2] ELSE a

\* accept_next(): async_accept() needs an open acceptor and a closed socket;
\* otherwise it fails at once, and its handler ignores the error.
AcceptNext(a, i) ==
  IF a.open /\ \A c \in Clients : conn[c] # [st |-> "accepted", at |-> i]
  THEN [a EXCEPT !.waiting[i] = @ + 1] ELSE a

-----------------------------------------------------------------------------
(* open_async() and open_sync() *)

OpenSync(w) ==
  /\ At(w, "open")
  /\ IF running THEN EndJob(w) ELSE GoTo(w, "acceptor_open")
  /\ UNCHANGED <<main, started, ctx, running, acc, conn, cleanup, cleanups, exc, events,
                 openFailed, opened, overlap, dead>>

\* acceptor_t::open(): listens and starts an accept for every socket; closes
\* the acceptor again when something fails.
AcceptorOpen(w) ==
  /\ At(w, "acceptor_open")
  /\ \/ /\ acc' = IF acc.open THEN acc
                  ELSE [open |-> TRUE, waiting |-> [i \in Accepts |-> acc.waiting[i] + 1]]
        /\ GoTo(w, "set_running")
        /\ UNCHANGED openFailed
     \/ /\ ~acc.open /\ "open" \in Faults
        /\ openFailed' = TRUE
        /\ GoTo(w, "open_error")
        /\ UNCHANGED acc
  /\ UNCHANGED <<main, started, ctx, running, conn, cleanup, cleanups, exc, events, opened,
                 overlap, dead>>

SetRunning(w) ==
  /\ At(w, "set_running")
  /\ running' = TRUE /\ opened' = TRUE
  /\ EndJob(w)
  /\ UNCHANGED <<main, started, ctx, acc, conn, cleanup, cleanups, exc, events, openFailed,
                 overlap, dead>>

\* The error callback of run(): pool.stop(), then the exception is kept.
OpenError(w) ==
  /\ At(w, "open_error")
  /\ PoolStop
  /\ GoTo(w, "keep_exception")
  /\ UNCHANGED <<main, started, running, acc, conn, cleanup, cleanups, exc, events,
                 openFailed, opened, overlap, dead>>

KeepException(w) ==
  /\ At(w, "keep_exception")
  /\ exc' = TRUE
  /\ EndJob(w)
  /\ UNCHANGED <<main, started, ctx, running, acc, conn, cleanup, cleanups, events,
                 openFailed, opened, overlap, dead>>

-----------------------------------------------------------------------------
(* close_async(), initiate_shutdown() and close_sync() *)

SignalHandler(w) ==
  /\ At(w, "signal")
  /\ PostToStrand(Job("close"))
  /\ EndJob(w)
  /\ UNCHANGED <<main, started, running, acc, conn, cleanup, cleanups, exc, events,
                 openFailed, opened, overlap, dead>>

CloseSync(w) ==
  /\ At(w, "close") \/ At(w, "shutdown")
  /\ GoTo(w, IF running THEN "acceptor_close" ELSE "closed")
  /\ UNCHANGED <<main, started, ctx, running, acc, conn, cleanup, cleanups, exc, events,
                 openFailed, opened, overlap, dead>>

\* acceptor_t::close()
AcceptorClose(w) ==
  /\ At(w, "acceptor_close")
  /\ GoTo(w, IF acc.open THEN "close_impl" ELSE "cleanup")
  /\ UNCHANGED <<main, started, ctx, running, acc, conn, cleanup, cleanups, exc, events,
                 openFailed, opened, overlap, dead>>

\* close_impl(): local_endpoint() throws when another thread has closed the
\* acceptor since the test.
LocalEndpoint(w) ==
  /\ At(w, "close_impl")
  /\ CASE acc.open ->
            GoTo(w, "close_acceptor") /\ UNCHANGED <<exc, dead>>
       [] ~acc.open /\ StrandJob(worker[w].job) ->
            exc' = TRUE /\ EndJob(w) /\ UNCHANGED dead
       [] ~acc.open /\ ~StrandJob(worker[w].job) ->
            dead' = TRUE /\ UNCHANGED <<exc, worker>>
  /\ UNCHANGED <<main, started, ctx, running, acc, conn, cleanup, cleanups, events,
                 openFailed, opened, overlap>>

\* Pending accepts are aborted; their handlers ignore the error.  Closing a
\* closed acceptor is no error.
CloseImpl(w) ==
  /\ At(w, "close_acceptor")
  /\ acc' = CloseAcceptor(acc)
  /\ GoTo(w, "cleanup")
  /\ UNCHANGED <<main, started, ctx, running, conn, cleanup, cleanups, exc, events,
                 openFailed, opened, overlap, dead>>

\* call_cleanup_functor(): the test of the functor, its move constructor, which
\* first copies it and then clears it, and the call.  Nothing keeps another
\* thread from doing the same in between.
InCleanup(w) == worker[w].pc \in {"copy_cleanup", "clear_cleanup", "call_cleanup"}

TestCleanup(w) ==
  /\ At(w, "cleanup")
  /\ GoTo(w, IF cleanup THEN "copy_cleanup" ELSE "set_not_running")
  /\ overlap' = (overlap \/ \E v \in Workers : InCleanup(v))
  /\ UNCHANGED <<main, started, ctx, running, acc, conn, cleanup, cleanups, exc, events,
                 openFailed, opened, dead>>

\* A functor cleared by another thread since the test is empty: calling the
\* copy throws in a noexcept function.
CopyCleanup(w) ==
  /\ At(w, "copy_cleanup")
  /\ IF cleanup THEN GoTo(w, "clear_cleanup") /\ UNCHANGED dead
     ELSE dead' = TRUE /\ UNCHANGED worker
  /\ UNCHANGED <<main, started, ctx, running, acc, conn, cleanup, cleanups, exc, events,
                 openFailed, opened, overlap>>

\* Mutant: the functor is copied and not moved out.
KeepCleanup(w) ==
  /\ At(w, "clear_cleanup")
  /\ GoTo(w, "call_cleanup")
  /\ UNCHANGED <<main, started, ctx, running, acc, conn, cleanup, cleanups, exc, events,
                 openFailed, opened, overlap, dead>>

ClearCleanup(w) ==
  /\ At(w, "clear_cleanup")
  /\ cleanup' = FALSE
  /\ GoTo(w, "call_cleanup")
  /\ UNCHANGED <<main, started, ctx, running, acc, conn, cleanups, exc, events, openFailed,
                 opened, overlap, dead>>

\* The copy is called and destroyed; two copies of one functor share what it
\* owns, so that the second destruction may end the process.
CallCleanupFunctor(w) ==
  /\ At(w, "call_cleanup")
  /\ cleanups' = cleanups + 1
  /\ \/ GoTo(w, "set_not_running") /\ UNCHANGED dead
     \/ cleanups > 0 /\ dead' = TRUE /\ UNCHANGED worker
  /\ UNCHANGED <<main, started, ctx, running, acc, conn, cleanup, exc, events, openFailed,
                 opened, overlap>>

SetNotRunning(w) ==
  /\ At(w, "set_not_running")
  /\ running' = FALSE
  /\ GoTo(w, "closed")
  /\ UNCHANGED <<main, started, ctx, acc, conn, cleanup, cleanups, exc, events, openFailed,
                 opened, overlap, dead>>

\* Mutant: initiate_shutdown() leaves the io_context running.
ClosedWithoutStop(w) ==
  /\ At(w, "closed")
  /\ IF StrandJob(worker[w].job) THEN PoolStop ELSE UNCHANGED ctx
  /\ EndJob(w)
  /\ UNCHANGED <<main, started, running, acc, conn, cleanup, cleanups, exc, events,
                 openFailed, opened, overlap, dead>>

\* close_async() calls pool.stop(), initiate_shutdown() stops the io_context.
Closed(w) ==
  /\ At(w, "closed")
  /\ IF StrandJob(worker[w].job) THEN PoolStop
     ELSE ctx' = [ctx EXCEPT !.stopped = TRUE]
  /\ EndJob(w)
  /\ UNCHANGED <<main, started, running, acc, conn, cleanup, cleanups, exc, events,
                 openFailed, opened, overlap, dead>>

-----------------------------------------------------------------------------
(* accept_current_connection() *)

SettleClient(c, st) == conn' = [conn EXCEPT ![c] = [st |-> st, at |-> "nowhere"]]

\* What becomes of an inspected client: "failed" when remote_endpoint() or the
\* creation of the connection throws.
Outcomes ==
  {"denied", IF Separate THEN "queued" ELSE "served"}
    \cup (IF "create" \in Faults THEN {"failed"} ELSE {})

\* Mutant: the creation of the connection is not posted.
AcceptWithoutPost(w) ==
  /\ At(w, "accepted")
  /\ \E st \in Outcomes : SettleClient(worker[w].job.client, st)
  /\ GoTo(w, "accept_next")
  /\ UNCHANGED <<main, started, ctx, running, acc, cleanup, cleanups, exc, events,
                 openFailed, opened, overlap, dead>>

\* accept_connection_for_socket_with_index(): takes the socket out of the pool,
\* asks the IP-blocker and creates the connection, or posts its creation.
AcceptConnection(w) ==
  /\ At(w, "accepted")
  /\ \E st \in Outcomes :
       /\ SettleClient(worker[w].job.client, st)
       /\ IF st = "queued" THEN Post(CreateJob(worker[w].job.client)) ELSE UNCHANGED ctx
  /\ GoTo(w, "accept_next")
  /\ UNCHANGED <<main, started, running, acc, cleanup, cleanups, exc, events, openFailed,
                 opened, overlap, dead>>

ContinueAccepting(w) ==
  /\ At(w, "accept_next")
  /\ acc' = AcceptNext(acc, worker[w].job.slot)
  /\ EndJob(w)
  /\ UNCHANGED <<main, started, ctx, running, conn, cleanup, cleanups, exc, events,
                 openFailed, opened, overlap, dead>>

\* create_and_init_connection(), posted; exceptions are suppressed.
CreateConnection(w) ==
  /\ At(w, "create")
  /\ LET c == worker[w].job.client IN
     \/ SettleClient(c, "served")
     \/ "create" \in Faults /\ SettleClient(c, "failed")
  /\ EndJob(w)
  /\ UNCHANGED <<main, started, ctx, running, acc, cleanup, cleanups, exc, events,
                 openFailed, opened, overlap, dead>>

-----------------------------------------------------------------------------
(* The environment *)

\* A client connects: the reactor completes a pending accept.
ClientConnects(i, c) ==
  /\ ~ctx.stopped /\ acc.open /\ acc.waiting[i] > 0 /\ conn[c].st = "outside"
  /\ acc' = [acc EXCEPT !.waiting[i] = @ - 1]
  /\ conn' = [conn EXCEPT ![c] = [st |-> "accepted", at |-> i]]
  /\ Post(SlotJob(i, c))
  /\ UNCHANGED <<main, started, worker, running, cleanup, cleanups, exc, events, openFailed,
                 opened, overlap, dead>>

\* A pending accept fails (no descriptors left): its handler does nothing.
AcceptFails(i) ==
  /\ ~ctx.stopped /\ "accept" \in Faults /\ acc.open /\ acc.waiting[i] > 0
  /\ acc' = [acc EXCEPT !.waiting[i] = @ - 1]
  /\ UNCHANGED <<main, started, worker, ctx, running, conn, cleanup, cleanups, exc, events,
                 openFailed, opened, overlap, dead>>

\* The break signal arrives, or the application calls initiate_shutdown().
EventArrives(e) ==
  /\ e \in events /\ main \notin {"returned", "destroyed"} /\ ~ctx.stopped
  /\ events' = events \ {e}
  /\ Post(Job(e))
  /\ UNCHANGED <<main, started, worker, running, acc, conn, cleanup, cleanups, exc,
                 openFailed, opened, overlap, dead>>

MainStep == OpenAsync \/ StartThread \/ AllStarted \/ Wait \/ DestroyServer

WorkerStep(w) ==
  \/ TakeJob(w) \/ ExitRun(w)
  \/ OpenSync(w) \/ AcceptorOpen(w) \/ SetRunning(w) \/ OpenError(w) \/ KeepException(w)
  \/ SignalHandler(w) \/ CloseSync(w) \/ AcceptorClose(w) \/ LocalEndpoint(w)
  \/ CloseImpl(w) \/ TestCleanup(w) \/ CopyCleanup(w) \/ ClearCleanup(w)
  \/ CallCleanupFunctor(w) \/ SetNotRunning(w) \/ Closed(w)
  \/ AcceptConnection(w) \/ ContinueAccepting(w) \/ CreateConnection(w)

Next ==
  /\ ~dead
  /\ \/ MainStep
     \/ \E w \in Workers : WorkerStep(w)
     \/ \E i \in Accepts, c \in Clients : ClientConnects(i, c)
     \/ \E i \in Accepts : AcceptFails(i)
     \/ \E e \in Events : EventArrives(e)

\* Every thread is scheduled again; clients, signals and failures are free.
Fairness ==
  /\ WF_vars(~dead /\ MainStep)
  /\ \A w \in Workers : WF_vars(~dead /\ WorkerStep(w))

Spec == Init /\ [][Next]_vars
FairSpec == Spec /\ Fairness

-----------------------------------------------------------------------------
(* Properties *)

Returned == main \in {"returned", "destroyed"}

Busy(w) == worker[w].pc \notin {"none", "idle", "exited"}

\* The jobs of accept handlers for socket i, queued or executed, whose client
\* still sits in the socket.
Handlers(i) ==
  {c \in Clients : \/ \E k \in DOMAIN ctx.ready : ctx.ready[k] = SlotJob(i, c)
                   \/ \E w \in Workers : worker[w].job = SlotJob(i, c)}

\* Type correctness.
TypeOK ==
  /\ main \in {"open_async", "start", "wait", "join_after_failure", "returned", "destroyed"}
  /\ {started, running, cleanup, exc, openFailed, opened, overlap, dead} \subseteq BOOLEAN
  /\ \A w \in Workers : worker[w].job.kind \in
       {"none", "open", "close", "shutdown", "signal", "accepted", "create"}
  /\ acc.open \in BOOLEAN /\ acc.waiting \in [Accepts -> Nat]
  /\ \A c \in Clients : conn[c].st \in
       {"outside", "accepted", "queued", "served", "denied", "failed"}
  /\ events \subseteq Events /\ cleanups \in Nat

\* The variables have their types, and each socket of socket_supplier_t is in
\* the hands of at most one party: one pending async_accept() or one accept
\* handler, never two of them.
OneAcceptPerSocket ==
  /\ TypeOK
  /\ \A i \in Accepts : acc.waiting[i] + Cardinality(Handlers(i)) <= 1

\* run() returns, and the server is destroyed, only after every thread of the
\* pool has left its last job: the jobs refer to locals of run().
ServerOutlivesItsJobs ==
  Returned => \A w \in Workers : ~Busy(w)

\* An exception of open_sync() is there to be rethrown when run() returns, though
\* the callback stops the pool before it stores the exception.
OpenErrorReported == (Returned /\ openFailed) => exc

\* "Cleanup functor can be called only once. Next call to
\* call_cleanup_functor() will do nothing": so it is for calls that follow one
\* another, though several threads have found the server running.  Calls that
\* overlap (close_async() on the strand, initiate_shutdown() beside it) can call
\* the functor twice or end the process.
CleanupOnce ==
  ~overlap => /\ cleanups <= 1
              /\ \A w \in Workers : At(w, "copy_cleanup") => cleanup

\* A server that was opened is destroyed closed: it does not listen, even when
\* initiate_shutdown() stopped the io_context in the middle of open_sync(), and
\* its cleanup functor was called, whichever threads closed it and however their
\* steps interleaved.
ClosedWhenDestroyed ==
  main = "destroyed" => ~acc.open /\ ~running /\ (opened => cleanups > 0)

\* Whoever closes the server, it is closed completely, and once.
ClosedOnce == CleanupOnce /\ ClosedWhenDestroyed

\* initiate_shutdown() makes run() return (or the race with close_async() on the
\* strand, see CopyCleanup and LocalEndpoint, ends the process).
ShutdownReturns ==
  ("shutdown" \in Events /\ "shutdown" \notin events) ~> (Returned \/ dead)

\* A client taken from the listening socket is served, denied or failed, unless
\* the io_context stops first.
ClientSettled ==
  \A c \in Clients : conn[c].st \in {"accepted", "queued"} ~>
    (conn[c].st \in {"served", "denied", "failed"} \/ ctx.stopped \/ dead)

\* An error of open_sync() makes run() return with it: the callback says "Stop
\* running io_service" and run() "If an error was detected it should be
\* propagated".
OpenErrorPropagated == openFailed ~> Returned

=============================================================================
