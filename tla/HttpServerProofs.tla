-------------------------- MODULE HttpServerProofs --------------------------
(***************************************************************************)
(* The safety of HttpServer for any number of threads, sockets and clients *)
(* and any set of events and faults: the server is closed once and         *)
(* completely, no job outlives it and a failure of open_sync() is          *)
(* reported.                                                               *)
(***************************************************************************)
EXTENDS HttpServer, FiniteSetTheorems, TLAPS

-----------------------------------------------------------------------------
(* Types *)

StrandJobs  == {Job("open"), Job("close")}
SlotJobs(i) == {SlotJob(i, c) : c \in Clients}
CreateJobs  == {CreateJob(c) : c \in Clients}
ReadyJobs   ==
  {Job("signal"), Job("shutdown")} \union CreateJobs \union UNION {SlotJobs(i) : i \in Accepts}

OpenPcs  == {"open", "acceptor_open", "set_running", "open_error", "keep_exception"}
ClosePcs == {"acceptor_close", "close_impl", "close_acceptor", "cleanup", "copy_cleanup",
             "clear_cleanup", "call_cleanup", "set_not_running"}

\* Where a thread is fits the job it executes.
Consistent(pc, job) ==
  \/ pc \in {"none", "idle", "exited"} /\ job = NoJob
  \/ pc \in OpenPcs /\ job = Job("open")
  \/ pc \in ClosePcs \union {"close", "closed"} /\ job = Job("close")
  \/ pc \in ClosePcs \union {"shutdown", "closed"} /\ job = Job("shutdown")
  \/ pc = "signal" /\ job = Job("signal")
  \/ pc \in {"accepted", "accept_next"} /\ \E i \in Accepts : job \in SlotJobs(i)
  \/ pc = "create" /\ job \in CreateJobs

Pcs == {"none", "idle", "exited", "close", "closed", "shutdown", "signal", "accepted",
        "accept_next", "create"} \union OpenPcs \union ClosePcs

Threads == {t \in [pc : Pcs, job : {NoJob} \union StrandJobs \union ReadyJobs] :
              Consistent(t.pc, t.job)}

WorkersOK == worker \in [Workers -> Threads]

QueuesOK ==
  ctx \in [stopped : BOOLEAN, strand : Seq(StrandJobs), ready : Seq(ReadyJobs)]

ClientState ==
  [st : {"outside", "accepted", "queued", "served", "denied", "failed"},
   at : Accepts \union {"nowhere"}]

AcceptorState == [open : BOOLEAN, waiting : [Accepts -> Nat]]
ClientStates  == [Clients -> ClientState]

RestOK ==
  /\ main \in {"open_async", "start", "wait", "join_after_failure", "returned", "destroyed"}
  /\ started \in BOOLEAN /\ running \in BOOLEAN /\ cleanup \in BOOLEAN
  /\ exc \in BOOLEAN /\ openFailed \in BOOLEAN /\ dead \in BOOLEAN
  /\ opened \in BOOLEAN /\ overlap \in BOOLEAN
  /\ acc \in AcceptorState /\ conn \in ClientStates
  /\ events \subseteq Events /\ cleanups \in Nat

TypeInv == WorkersOK /\ QueuesOK /\ RestOK

\* What a thread may become: it goes to another place of its job, ends the job, or
\* takes one.
LEMMA ThreadSteps ==
  /\ Thread("idle", NoJob) \in Threads /\ Thread("none", NoJob) \in Threads
  /\ \A job \in StrandJobs \union ReadyJobs : Thread(job.kind, job) \in Threads
<1>1. /\ NoJob.kind = "none" /\ \A k : Job(k).kind = k
      /\ \A i, c : SlotJob(i, c).kind = "accepted" /\ CreateJob(c).kind = "create"
  BY DEF NoJob, Job, SlotJob, CreateJob
<1>2. \A job \in StrandJobs \union ReadyJobs : Consistent(job.kind, job) /\ job.kind \in Pcs
  BY <1>1 DEF StrandJobs, ReadyJobs, SlotJobs, CreateJobs, Consistent, Pcs, OpenPcs, ClosePcs
<1> QED
  BY <1>2 DEF Thread, Threads, Consistent, Pcs

\* The initial state has the types.
LEMMA InitType == Init => TypeInv
<1> SUFFICES ASSUME Init PROVE TypeInv
  OBVIOUS
<1>1. WorkersOK
  BY ThreadSteps DEF Init, WorkersOK
<1>2. QueuesOK
  BY DEF Init, QueuesOK
<1>3. RestOK
  BY Zenon DEF Init, RestOK, ClientState, ClientStates, AcceptorState
<1> QED
  BY <1>1, <1>2, <1>3 DEF TypeInv

\* A thread that goes on within its job.
LEMMA GoOn ==
  ASSUME WorkersOK, NEW w \in Workers, NEW pc \in Pcs, Consistent(pc, worker[w].job)
  PROVE  [worker EXCEPT ![w].pc = pc] \in [Workers -> Threads]
<1>1. worker[w] \in Threads
  BY DEF WorkersOK
<1>2. [worker[w] EXCEPT !.pc = pc] \in Threads
  BY <1>1 DEF Threads
<1> QED
  BY <1>2 DEF WorkersOK

\* The steps keep the types of the threads.
LEMMA NextWorkers ==
  ASSUME TypeInv, [Next]_vars
  PROVE  WorkersOK'
<1> USE DEF TypeInv
<1>0. \A w \in Workers : worker[w] \in Threads /\ Consistent(worker[w].pc, worker[w].job)
  BY DEF WorkersOK, Threads
<1>1. \A w \in Workers : [worker EXCEPT ![w] = Thread("idle", NoJob)] \in [Workers -> Threads]
  BY ThreadSteps DEF WorkersOK
<1>2. ASSUME NEW w \in Workers, TakeJob(w) PROVE WorkersOK'
  <2>1. /\ ctx.strand # <<>> => Head(ctx.strand) \in StrandJobs
        /\ ctx.ready # <<>> => Head(ctx.ready) \in ReadyJobs
    BY DEF QueuesOK
  <2> QED
    BY <1>2, <2>1, ThreadSteps DEF TakeJob, WorkersOK
<1>3. ASSUME NEW w \in Workers, WorkerStep(w), ~TakeJob(w) PROVE WorkersOK'
  <2>1. \/ worker' = worker
        \/ worker' = [worker EXCEPT ![w] = Thread("idle", NoJob)]
        \/ \E pc \in Pcs : /\ worker' = [worker EXCEPT ![w].pc = pc]
                           /\ Consistent(pc, worker[w].job)
    <3> USE DEF Pcs, OpenPcs, ClosePcs, At, GoTo, EndJob
    <3>0. /\ worker[w].pc = "idle" => worker[w].job = NoJob
          /\ worker[w].pc \in OpenPcs => worker[w].job = Job("open")
          /\ worker[w].pc \in ClosePcs \union {"close", "shutdown", "closed"} =>
               worker[w].job \in {Job("close"), Job("shutdown")}
          /\ worker[w].pc = "accepted" => \E i \in Accepts : worker[w].job \in SlotJobs(i)
      BY <1>0 DEF Consistent
    <3>1. CASE ExitRun(w)
      BY <3>0, <3>1 DEF ExitRun, Consistent
    <3>2. CASE OpenSync(w) \/ AcceptorOpen(w) \/ OpenError(w)
      BY <3>0, <3>2 DEF OpenSync, AcceptorOpen, OpenError, Consistent
    <3>3. CASE SetRunning(w) \/ KeepException(w) \/ SignalHandler(w) \/ Closed(w)
               \/ ContinueAccepting(w) \/ CreateConnection(w)
      BY <3>3 DEF SetRunning, KeepException, SignalHandler, Closed, ContinueAccepting,
                  CreateConnection
    <3>4. CASE CloseSync(w) \/ AcceptorClose(w) \/ CloseImpl(w) \/ TestCleanup(w)
      BY <3>0, <3>4 DEF CloseSync, AcceptorClose, CloseImpl, TestCleanup, Consistent
    <3>7. CASE CopyCleanup(w) \/ ClearCleanup(w) \/ CallCleanupFunctor(w) \/ SetNotRunning(w)
      BY <3>0, <3>7 DEF CopyCleanup, ClearCleanup, CallCleanupFunctor, SetNotRunning,
                        Consistent
    <3>5. CASE LocalEndpoint(w)
      BY <3>0, <3>5, Zenon DEF LocalEndpoint, Consistent, QueuesOK, RestOK
    <3>6. CASE AcceptConnection(w)
      BY <3>0, <3>6 DEF AcceptConnection, Consistent
    <3> QED
      BY <1>3, <3>1, <3>2, <3>3, <3>4, <3>5, <3>6, <3>7 DEF WorkerStep
  <2> QED
    BY <1>1, <2>1, GoOn DEF WorkersOK
<1>4. ASSUME StartThread PROVE WorkersOK'
  <2>1. \A w \in Workers : worker[w].pc = "none" => Consistent("idle", worker[w].job)
    BY <1>0 DEF Consistent, OpenPcs, ClosePcs
  <2>2. "idle" \in Pcs
    BY DEF Pcs
  <2> QED
    BY <1>4, <2>1, <2>2, GoOn DEF StartThread, WorkersOK
<1>5. ASSUME worker' = worker PROVE WorkersOK'
  BY <1>5 DEF WorkersOK
<1>6. CASE Next
  BY <1>2, <1>3, <1>4, <1>5, <1>6
     DEF Next, MainStep, OpenAsync, AllStarted, Wait, DestroyServer, ClientConnects,
         AcceptFails, EventArrives
<1>7. CASE UNCHANGED vars
  BY <1>5, <1>7 DEF vars
<1> QED
  BY <1>6, <1>7

\* How the steps change the queues.
LEMMA QueueSteps ==
  ASSUME TypeInv, [Next]_vars
  PROVE  \/ ctx'.strand = ctx.strand /\ ctx'.ready = ctx.ready /\ ctx'.stopped \in BOOLEAN
            /\ ctx' \in [stopped : BOOLEAN, strand : {ctx.strand}, ready : {ctx.ready}]
         \/ \E job \in StrandJobs : ctx' = [ctx EXCEPT !.strand = Append(@, job)]
         \/ \E job \in ReadyJobs : ctx' = [ctx EXCEPT !.ready = Append(@, job)]
         \/ ctx.strand # <<>> /\ ctx' = [ctx EXCEPT !.strand = Tail(@)]
         \/ ctx.ready # <<>> /\ ctx' = [ctx EXCEPT !.ready = Tail(@)]
<1> USE DEF TypeInv
<1>0. /\ ctx = [stopped |-> ctx.stopped, strand |-> ctx.strand, ready |-> ctx.ready]
      /\ ctx.stopped \in BOOLEAN
  BY DEF QueuesOK
<1>1. CASE ctx' = ctx
  BY <1>0, <1>1
<1>2. CASE ctx' = [ctx EXCEPT !.stopped = TRUE]
  BY <1>0, <1>2, Zenon
<1>3. CASE OpenAsync \/ \E w \in Workers : SignalHandler(w)
  BY <1>3 DEF OpenAsync, SignalHandler, PostToStrand, StrandJobs
<1>4. ASSUME NEW w \in Workers, AcceptConnection(w)
      PROVE  ctx' = ctx \/ \E job \in ReadyJobs : ctx' = [ctx EXCEPT !.ready = Append(@, job)]
  <2>1. \E i \in Accepts : worker[w].job \in SlotJobs(i)
    BY <1>4 DEF AcceptConnection, At, WorkersOK, Threads, Consistent, OpenPcs, ClosePcs
  <2>2. CreateJob(worker[w].job.client) \in ReadyJobs
    BY <2>1 DEF SlotJobs, SlotJob, CreateJobs, ReadyJobs
  <2> QED
    BY <1>4, <2>2 DEF AcceptConnection, Post
<1>5. ASSUME NEW i \in Accepts, NEW c \in Clients, ClientConnects(i, c)
      PROVE  \E job \in ReadyJobs : ctx' = [ctx EXCEPT !.ready = Append(@, job)]
  <2>1. SlotJob(i, c) \in ReadyJobs
    BY DEF ReadyJobs, SlotJobs
  <2> QED
    BY <1>5, <2>1, Zenon DEF ClientConnects, Post
<1>6. ASSUME NEW e \in Events, EventArrives(e)
      PROVE  \E job \in ReadyJobs : ctx' = [ctx EXCEPT !.ready = Append(@, job)]
  <2>1. Job(e) \in ReadyJobs
    BY HttpServerAssumption DEF ReadyJobs
  <2> QED
    BY <1>6, <2>1 DEF EventArrives, Post
<1>7. CASE \E w \in Workers : TakeJob(w)
  BY <1>7 DEF TakeJob
<1>8. CASE Next
  <2>1. ASSUME NEW w \in Workers, WorkerStep(w),
               ~TakeJob(w), ~SignalHandler(w), ~AcceptConnection(w)
        PROVE  ctx' = ctx \/ ctx' = [ctx EXCEPT !.stopped = TRUE]
    BY <2>1, Zenon
       DEF WorkerStep, ExitRun, OpenSync, AcceptorOpen, SetRunning, OpenError,
           KeepException, CloseSync, AcceptorClose, LocalEndpoint, CloseImpl,
           TestCleanup, CopyCleanup, ClearCleanup, CallCleanupFunctor, SetNotRunning,
           Closed, ContinueAccepting, CreateConnection, PoolStop
  <2>2. ASSUME MainStep, ~OpenAsync PROVE ctx' = ctx \/ ctx' = [ctx EXCEPT !.stopped = TRUE]
    BY <2>2 DEF MainStep, StartThread, AllStarted, Wait, DestroyServer
  <2>3. ASSUME NEW i \in Accepts, AcceptFails(i) PROVE ctx' = ctx
    BY <2>3 DEF AcceptFails
  <2> QED
    BY <1>1, <1>2, <1>3, <1>4, <1>5, <1>6, <1>7, <1>8, <2>1, <2>2, <2>3 DEF Next
<1>9. CASE UNCHANGED vars
  BY <1>1, <1>9 DEF vars
<1> QED
  BY <1>8, <1>9

\* The steps keep the types of the queues and of the rest.
LEMMA NextTypes ==
  ASSUME TypeInv, [Next]_vars
  PROVE  TypeInv'
<1> USE DEF TypeInv
<1>1. WorkersOK'
  BY NextWorkers
<1>2. QueuesOK'
  <2>1. ctx.strand \in Seq(StrandJobs) /\ ctx.ready \in Seq(ReadyJobs)
    BY DEF QueuesOK
  <2>2. /\ \A job \in StrandJobs : Append(ctx.strand, job) \in Seq(StrandJobs)
        /\ \A job \in ReadyJobs : Append(ctx.ready, job) \in Seq(ReadyJobs)
        /\ ctx.strand # <<>> => Tail(ctx.strand) \in Seq(StrandJobs)
        /\ ctx.ready # <<>> => Tail(ctx.ready) \in Seq(ReadyJobs)
    BY <2>1
  <2> QED
    BY <2>1, <2>2, QueueSteps, Zenon DEF QueuesOK
<1>3. RestOK'
  <2> DEFINE A == AcceptorState
             F == ClientStates
  <2>a. /\ CloseAcceptor(acc) \in A
        /\ [open |-> TRUE, waiting |-> [i \in Accepts |-> acc.waiting[i] + 1]] \in A
        /\ \A i \in Accepts : AcceptNext(acc, i) \in A
        /\ \A i \in Accepts : acc.waiting[i] > 0 => [acc EXCEPT !.waiting[i] = @ - 1] \in A
    <3>1. acc \in A /\ acc.waiting \in [Accepts -> Nat] /\ \A i \in Accepts : acc.waiting[i] \in Nat
      BY DEF RestOK, AcceptorState
    <3>2. \A i \in Accepts : [acc.waiting EXCEPT ![i] = @ + 1] \in [Accepts -> Nat]
      BY <3>1
    <3>3. \A i \in Accepts :
            acc.waiting[i] > 0 => [acc.waiting EXCEPT ![i] = @ - 1] \in [Accepts -> Nat]
      BY <3>1
    <3>4. \A f \in [Accepts -> Nat] : [acc EXCEPT !.waiting = f] \in A
      BY <3>1 DEF AcceptorState
    <3>5. [i \in Accepts |-> 0] \in [Accepts -> Nat]
          /\ [i \in Accepts |-> acc.waiting[i] + 1] \in [Accepts -> Nat]
      BY <3>1
    <3> QED
      BY <3>1, <3>2, <3>3, <3>4, <3>5 DEF CloseAcceptor, AcceptNext, AcceptorState
  <2>b. \A c, st : st \in {"queued", "served", "denied", "failed"} =>
          [conn EXCEPT ![c] = [st |-> st, at |-> "nowhere"]] \in F
    BY Zenon DEF RestOK, ClientStates, ClientState
  <2>c. \A c, i : i \in Accepts => [conn EXCEPT ![c] = [st |-> "accepted", at |-> i]] \in F
    BY Zenon DEF RestOK, ClientStates, ClientState
  <2> USE DEF RestOK
  <2>1. ASSUME NEW w \in Workers, WorkerStep(w) PROVE RestOK'
    <3>1. CASE TakeJob(w) \/ ExitRun(w) \/ OpenSync(w)
      BY <3>1 DEF TakeJob, ExitRun, OpenSync
    <3>6. CASE SetRunning(w) \/ OpenError(w) \/ KeepException(w) \/ SignalHandler(w)
      BY <3>6, Zenon DEF SetRunning, OpenError, KeepException, SignalHandler
    <3>7. CASE CloseSync(w) \/ AcceptorClose(w) \/ TestCleanup(w)
      <4>1. overlap' \in BOOLEAN
        BY <3>7, Zenon DEF CloseSync, AcceptorClose, TestCleanup
      <4> QED
        BY <3>7, <4>1 DEF CloseSync, AcceptorClose, TestCleanup
    <3>8. CASE \/ CopyCleanup(w) \/ ClearCleanup(w) \/ CallCleanupFunctor(w)
               \/ SetNotRunning(w) \/ Closed(w)
      <4>1. cleanups' \in {cleanups, cleanups + 1}
        BY <3>8 DEF CopyCleanup, ClearCleanup, CallCleanupFunctor, SetNotRunning, Closed
      <4>2. cleanups' \in Nat
        BY <4>1
      <4>3. cleanup' \in BOOLEAN /\ dead' \in BOOLEAN /\ running' \in BOOLEAN
        BY <3>8, Zenon DEF CopyCleanup, ClearCleanup, CallCleanupFunctor, SetNotRunning, Closed
      <4> QED
        BY <3>8, <4>2, <4>3
           DEF CopyCleanup, ClearCleanup, CallCleanupFunctor, SetNotRunning, Closed
    <3>2. CASE AcceptorOpen(w)
      BY <2>a, <3>2, Zenon DEF AcceptorOpen
    <3>3. CASE LocalEndpoint(w) \/ CloseImpl(w)
      <4>1. acc' \in A /\ exc' \in BOOLEAN /\ dead' \in BOOLEAN
        BY <2>a, <3>3, Zenon DEF LocalEndpoint, CloseImpl
      <4> QED
        BY <3>3, <4>1 DEF LocalEndpoint, CloseImpl
    <3>4. CASE AcceptConnection(w) \/ CreateConnection(w)
      <4>1. conn' \in F
        <5>1. CASE AcceptConnection(w)
          <6>1. PICK st \in Outcomes : SettleClient(worker[w].job.client, st)
            BY <5>1 DEF AcceptConnection
          <6>2. st \in {"queued", "served", "denied", "failed"}
            BY DEF Outcomes
          <6> QED
            BY <2>b, <6>1, <6>2, Zenon DEF SettleClient
        <5>2. CASE CreateConnection(w)
          BY <2>b, <5>2, Zenon DEF CreateConnection, SettleClient
        <5> QED
          BY <3>4, <5>1, <5>2
      <4> QED
        BY <3>4, <4>1 DEF AcceptConnection, CreateConnection
    <3>5. CASE ContinueAccepting(w)
      <4>1. \E i \in Accepts : worker[w].job \in SlotJobs(i)
        BY <3>5 DEF ContinueAccepting, At, WorkersOK, Threads, Consistent, OpenPcs, ClosePcs
      <4>2. worker[w].job.slot \in Accepts
        BY <4>1 DEF SlotJobs, SlotJob
      <4>3. acc' \in A
        BY <2>a, <3>5, <4>2 DEF ContinueAccepting
      <4> QED
        BY <3>5, <4>3 DEF ContinueAccepting
    <3> QED
      BY <2>1, <3>1, <3>2, <3>3, <3>4, <3>5, <3>6, <3>7, <3>8 DEF WorkerStep
  <2>2. ASSUME MainStep PROVE RestOK'
    <3>1. CASE OpenAsync \/ AllStarted \/ Wait
      BY <3>1, Zenon DEF OpenAsync, AllStarted, Wait
    <3>2. CASE StartThread
      BY <3>2, Zenon DEF StartThread
    <3>3. CASE DestroyServer
      <4>1. cleanups' \in {cleanups, cleanups + 1, cleanups + 0}
        BY <3>3 DEF DestroyServer
      <4>2. cleanups' \in Nat
        BY <4>1
      <4>3. cleanup' \in BOOLEAN /\ running' \in BOOLEAN /\ acc' \in AcceptorState
        BY <2>a, <3>3, Zenon DEF DestroyServer
      <4> QED
        BY <3>3, <4>2, <4>3 DEF DestroyServer
    <3> QED
      BY <2>2, <3>1, <3>2, <3>3 DEF MainStep
  <2>3. ASSUME NEW i \in Accepts, NEW c \in Clients, ClientConnects(i, c) PROVE RestOK'
    <3>1. acc' \in AcceptorState /\ conn' \in ClientStates
      BY <2>3, <2>a, <2>c, Zenon DEF ClientConnects
    <3> QED
      BY <2>3, <3>1 DEF ClientConnects
  <2>4. ASSUME NEW i \in Accepts, AcceptFails(i) PROVE RestOK'
    BY <2>4, <2>a DEF AcceptFails
  <2>5. ASSUME NEW e \in Events, EventArrives(e) PROVE RestOK'
    BY <2>5 DEF EventArrives
  <2>6. CASE UNCHANGED vars
    BY <2>6 DEF vars
  <2> QED
    BY <2>1, <2>2, <2>3, <2>4, <2>5, <2>6 DEF Next
<1> QED
  BY <1>1, <1>2, <1>3

-----------------------------------------------------------------------------
(* Threads are joined and errors kept *)

\* A thread changes only itself, and only while it runs.
LEMMA WorkerAlone ==
  ASSUME TypeInv, NEW w \in Workers, WorkerStep(w)
  PROVE  /\ worker[w].pc \notin {"none", "exited"}
         /\ \A v \in Workers : v # w => worker'[v] = worker[v]
         /\ main' = main
<1>1. worker \in [Workers -> Threads]
  BY DEF TypeInv, WorkersOK
<1> USE DEF At, GoTo, EndJob
<1>2. CASE TakeJob(w) \/ ExitRun(w) \/ OpenSync(w)
  BY <1>1, <1>2 DEF TakeJob, ExitRun, OpenSync
<1>3. CASE AcceptorOpen(w) \/ SetRunning(w) \/ OpenError(w) \/ KeepException(w)
  BY <1>1, <1>3 DEF AcceptorOpen, SetRunning, OpenError, KeepException
<1>4. CASE SignalHandler(w) \/ CloseSync(w) \/ AcceptorClose(w)
  BY <1>1, <1>4 DEF SignalHandler, CloseSync, AcceptorClose
<1>5. CASE LocalEndpoint(w)
  <2>1. acc.open \in BOOLEAN
    BY DEF TypeInv, RestOK, AcceptorState
  <2> QED
    BY <1>1, <1>5, <2>1, Zenon DEF LocalEndpoint
<1>6. CASE CloseImpl(w) \/ TestCleanup(w) \/ CopyCleanup(w) \/ ClearCleanup(w)
  BY <1>1, <1>6 DEF CloseImpl, TestCleanup, CopyCleanup, ClearCleanup
<1>8. CASE CallCleanupFunctor(w) \/ SetNotRunning(w) \/ Closed(w)
  BY <1>1, <1>8 DEF CallCleanupFunctor, SetNotRunning, Closed
<1>7. CASE AcceptConnection(w) \/ ContinueAccepting(w) \/ CreateConnection(w)
  BY <1>1, <1>7 DEF AcceptConnection, ContinueAccepting, CreateConnection
<1> QED
  BY <1>2, <1>3, <1>4, <1>5, <1>6, <1>7, <1>8 DEF WorkerStep

\* What the clients, the reactor and the application do to the server.
LEMMA EnvironmentAlone ==
  ASSUME TypeInv,
         \/ \E i \in Accepts, c \in Clients : ClientConnects(i, c)
         \/ \E i \in Accepts : AcceptFails(i)
         \/ \E e \in Events : EventArrives(e)
  PROVE  /\ UNCHANGED <<main, started, worker, running, cleanup, cleanups, exc, openFailed, opened,
                        overlap, dead>>
         /\ ctx'.strand = ctx.strand
<1>1. \A job : [ctx EXCEPT !.ready = Append(@, job)].strand = ctx.strand
  BY DEF TypeInv, QueuesOK
<1>2. CASE \E i \in Accepts, c \in Clients : ClientConnects(i, c)
  BY <1>1, <1>2 DEF ClientConnects, Post
<1>3. CASE \E i \in Accepts : AcceptFails(i)
  BY <1>3 DEF AcceptFails
<1>4. CASE \E e \in Events : EventArrives(e)
  BY <1>1, <1>4 DEF EventArrives, Post
<1> QED
  BY <1>2, <1>3, <1>4

JoinInv == Returned => Joined

\* The steps keep JoinInv: a thread that has left io_context::run() stays away.
LEMMA NextJoin ==
  ASSUME TypeInv, JoinInv, [Next]_vars
  PROVE  JoinInv'
<1>1. ASSUME NEW w \in Workers, WorkerStep(w) PROVE JoinInv'
  BY <1>1, WorkerAlone DEF JoinInv, Joined, Returned
<1>2. ASSUME MainStep PROVE JoinInv'
  BY <1>2 DEF MainStep, OpenAsync, StartThread, AllStarted, Wait, DestroyServer, JoinInv,
              Joined, Returned
<1>3. ASSUME UNCHANGED <<main, worker>> PROVE JoinInv'
  BY <1>3 DEF JoinInv, Joined, Returned
<1> QED
  BY <1>1, <1>2, <1>3, EnvironmentAlone DEF Next, vars

\* run() returns only after the threads of the pool: their jobs use its locals.
THEOREM JobsAreOver == Spec => []ServerOutlivesItsJobs
<1>1. Init => TypeInv /\ JoinInv
  BY InitType DEF Init, JoinInv, Returned
<1>2. TypeInv /\ JoinInv /\ [Next]_vars => (TypeInv /\ JoinInv)'
  BY NextTypes, NextJoin
<1>3. JoinInv => ServerOutlivesItsJobs
  BY DEF JoinInv, ServerOutlivesItsJobs, Joined, Busy
<1> QED
  BY <1>1, <1>2, <1>3, PTL DEF Spec

ErrorInv ==
  openFailed => exc \/ \E w \in Workers : worker[w].pc \in {"open_error", "keep_exception"}

\* The steps keep ErrorInv: the thread that failed to open keeps the exception before
\* it takes another job.
LEMMA NextError ==
  ASSUME TypeInv, ErrorInv, [Next]_vars
  PROVE  ErrorInv'
<1>0. worker \in [Workers -> Threads]
  BY DEF TypeInv, WorkersOK
<1>1. ASSUME NEW w \in Workers, WorkerStep(w) PROVE ErrorInv'
  <2>0. worker[w] \in Threads /\ \A v \in Workers : v # w => worker'[v] = worker[v]
    BY <1>0, <1>1, WorkerAlone
  <2> USE DEF At, GoTo, EndJob, ErrorInv, Threads
  <2>1. CASE AcceptorOpen(w)
    BY <1>0, <2>0, <2>1, Zenon DEF AcceptorOpen
  <2>2. CASE OpenError(w)
    BY <1>0, <2>0, <2>2 DEF OpenError
  <2>3. CASE KeepException(w)
    BY <2>3 DEF KeepException
  <2>4. CASE worker[w].pc \notin {"open_error", "keep_exception"}
             /\ openFailed' = openFailed /\ (exc' = exc \/ exc')
    BY <2>0, <2>4
  <2>5. ASSUME ~AcceptorOpen(w), ~OpenError(w), ~KeepException(w)
        PROVE  /\ worker[w].pc \notin {"open_error", "keep_exception"}
               /\ openFailed' = openFailed /\ (exc' = exc \/ exc')
    <3>1. acc.open \in BOOLEAN
      BY DEF TypeInv, RestOK, AcceptorState
    <3>2. CASE LocalEndpoint(w)
      BY <3>1, <3>2, Zenon DEF LocalEndpoint
    <3>3. CASE ~LocalEndpoint(w)
      BY <1>1, <2>5, <3>3
         DEF WorkerStep, TakeJob, ExitRun, OpenSync, SetRunning, SignalHandler, CloseSync,
             AcceptorClose, CloseImpl, TestCleanup, CopyCleanup, ClearCleanup,
             CallCleanupFunctor, SetNotRunning, Closed, AcceptConnection, ContinueAccepting,
             CreateConnection
    <3> QED
      BY <3>2, <3>3
  <2> QED
    BY <2>1, <2>2, <2>3, <2>4, <2>5, Zenon
<1>2. ASSUME MainStep, ~StartThread PROVE ErrorInv'
  <2>1. UNCHANGED <<worker, exc, openFailed>>
    BY <1>2 DEF MainStep, OpenAsync, AllStarted, Wait, DestroyServer
  <2> QED
    BY <2>1 DEF ErrorInv
<1>3. ASSUME StartThread PROVE ErrorInv'
  <2>1. /\ \A v \in Workers : worker[v].pc # "none" => worker'[v] = worker[v]
        /\ openFailed' = openFailed /\ (exc' = exc \/ exc')
    BY <1>0, <1>3 DEF StartThread
  <2> QED
    BY <2>1 DEF ErrorInv
<1>4. ASSUME UNCHANGED <<worker, exc, openFailed>> PROVE ErrorInv'
  BY <1>4 DEF ErrorInv
<1> QED
  BY <1>1, <1>2, <1>3, <1>4, EnvironmentAlone DEF Next, vars

\* A failure of open_sync() is there to be rethrown when run() returns.
THEOREM OpenErrorIsReported == Spec => []OpenErrorReported
<1>1. Init => TypeInv /\ JoinInv /\ ErrorInv
  BY InitType DEF Init, JoinInv, Returned, ErrorInv
<1>2. TypeInv /\ JoinInv /\ ErrorInv /\ [Next]_vars => (TypeInv /\ JoinInv /\ ErrorInv)'
  BY NextTypes, NextJoin, NextError
<1>3. JoinInv /\ ErrorInv => OpenErrorReported
  BY DEF JoinInv, ErrorInv, OpenErrorReported, Joined
<1> QED
  BY <1>1, <1>2, <1>3, PTL DEF Spec

-----------------------------------------------------------------------------
(* A job is in one place: queued once, or executed by one thread *)

Once(q, J)   == \A k, l \in DOMAIN q : q[k] \in J /\ q[l] \in J => k = l
Absent(q, J) == \A k \in DOMAIN q : q[k] \notin J
Idle(wk, J)  == \A w \in Workers : wk[w].job \notin J

NoneOf(q, wk, J) == Absent(q, J) /\ Idle(wk, J)

AtMostOne(q, wk, J) ==
  /\ Once(q, J)
  /\ \A v, w \in Workers : wk[v].job \in J /\ wk[w].job \in J => v = w
  /\ Absent(q, J) \/ Idle(wk, J)

\* A job is appended to a queue.
LEMMA PostJob ==
  ASSUME NEW S, NEW q \in Seq(S), NEW x \in S, NEW wk, NEW J
  PROVE  LET r == Append(q, x) IN
         /\ x \notin J /\ NoneOf(q, wk, J) => NoneOf(r, wk, J)
         /\ x \notin J /\ AtMostOne(q, wk, J) => AtMostOne(r, wk, J)
         /\ NoneOf(q, wk, J) => AtMostOne(r, wk, J)
<1> DEFINE r == Append(q, x)
           n == Len(q)
<1>1. /\ n \in Nat /\ DOMAIN q = 1 .. n /\ DOMAIN r = 1 .. n + 1
      /\ \A k \in 1 .. n : r[k] = q[k]
      /\ r[n + 1] = x
  OBVIOUS
<1> HIDE DEF r, n
<1>2. \A k \in 1 .. n + 1 : k \in 1 .. n \/ k = n + 1
  BY <1>1
<1>3. x \notin J /\ Absent(q, J) => Absent(r, J)
  BY <1>1, <1>2 DEF Absent
<1>4. x \notin J /\ Once(q, J) => Once(r, J)
  BY <1>1, <1>2 DEF Once
<1>5. Absent(q, J) => Once(r, J)
  BY <1>1, <1>2 DEF Once, Absent
<1>6. \A v, w \in Workers : Idle(wk, J) /\ wk[v].job \in J /\ wk[w].job \in J => v = w
  BY DEF Idle
<1> QED
  BY <1>3, <1>4, <1>5, <1>6 DEF NoneOf, AtMostOne, r

\* A thread takes the first job of a queue.
LEMMA TakeFirst ==
  ASSUME NEW S, NEW q \in Seq(S), q # <<>>, NEW J, NEW wk, NEW new, NEW w \in Workers,
         wk[w].job \notin J, new[w].job = Head(q),
         \A v \in Workers : v # w => new[v] = wk[v]
  PROVE  /\ NoneOf(q, wk, J) => NoneOf(Tail(q), new, J)
         /\ AtMostOne(q, wk, J) => AtMostOne(Tail(q), new, J)
<1> DEFINE r == Tail(q)
           n == Len(q)
<1>1. /\ n \in Nat /\ n > 0 /\ DOMAIN q = 1 .. n /\ DOMAIN r = 1 .. n - 1
      /\ \A k \in 1 .. n - 1 : r[k] = q[k + 1] /\ k + 1 \in 1 .. n /\ k + 1 # 1
      /\ Head(q) = q[1] /\ 1 \in 1 .. n
      /\ \A k, l \in 1 .. n - 1 : k + 1 = l + 1 => k = l
  <2>1. n \in Nat /\ n > 0 /\ DOMAIN q = 1 .. n /\ Head(q) = q[1]
    OBVIOUS
  <2>2. DOMAIN r = 1 .. n - 1 /\ \A k \in 1 .. n - 1 : r[k] = q[k + 1]
    OBVIOUS
  <2> QED
    BY <2>1, <2>2
<1> HIDE DEF r, n
<1>2. Absent(q, J) => Absent(r, J) /\ Head(q) \notin J
  BY <1>1 DEF Absent
<1>3. Once(q, J) => Once(r, J)
  <2> SUFFICES ASSUME Once(q, J), NEW k \in 1 .. n - 1, NEW l \in 1 .. n - 1,
                      r[k] \in J, r[l] \in J
               PROVE  k = l
    BY <1>1 DEF Once
  <2>1. k + 1 = l + 1
    BY <1>1, SMTT(30) DEF Once
  <2> QED
    BY <1>1, <2>1
<1>4. Once(q, J) /\ Head(q) \in J => Absent(r, J)
  <2> SUFFICES ASSUME Once(q, J), q[1] \in J, NEW k \in 1 .. n - 1, r[k] \in J
               PROVE  FALSE
    BY <1>1 DEF Absent
  <2>1. q[k + 1] \in J /\ k + 1 \in DOMAIN q /\ 1 \in DOMAIN q /\ k + 1 # 1
    BY <1>1, SMTT(30)
  <2> QED
    BY <2>1 DEF Once
<1>5. ASSUME NoneOf(q, wk, J) PROVE NoneOf(r, new, J)
  BY <1>2, <1>5 DEF NoneOf, Idle
<1>6. ASSUME AtMostOne(q, wk, J) PROVE AtMostOne(r, new, J)
  <2>1. CASE Head(q) \in J
    <3>1. Absent(r, J) /\ Once(r, J)
      BY <1>3, <1>4, <1>6, <2>1 DEF AtMostOne
    <3>2. ~Absent(q, J)
      BY <1>1, <2>1 DEF Absent
    <3>3. \A v \in Workers : new[v].job \in J => v = w
      BY <1>6, <3>2 DEF AtMostOne, Idle
    <3> QED
      BY <3>1, <3>3 DEF AtMostOne
  <2>2. CASE Head(q) \notin J
    <3>1. \A v \in Workers : new[v].job \in J => wk[v].job \in J
      BY <2>2
    <3> QED
      BY <1>2, <1>3, <1>6, <3>1 DEF AtMostOne, Idle
  <2> QED
    BY <2>1, <2>2
<1> QED
  BY <1>5, <1>6 DEF r

\* No thread gets a job; a thread that ends the only one leaves none.
LEMMA KeepJobs ==
  ASSUME NEW q, NEW wk, NEW new, NEW J,
         \A v \in Workers : new[v].job \in J => wk[v].job \in J
  PROVE  /\ NoneOf(q, wk, J) => NoneOf(q, new, J)
         /\ AtMostOne(q, wk, J) => AtMostOne(q, new, J)
         /\ \A w \in Workers :
              AtMostOne(q, wk, J) /\ wk[w].job \in J /\ new[w].job \notin J
                => NoneOf(q, new, J)
BY DEF NoneOf, AtMostOne, Idle

\* Thread w takes the first job of the queue q, which becomes r.
Takes(w, q, r) ==
  /\ q # <<>> /\ r = Tail(q)
  /\ worker[w].job = NoJob /\ worker'[w].job = Head(q)
  /\ \A v \in Workers : v # w => worker'[v] = worker[v]

\* No thread takes a job; some may end theirs.
TakesNone == \A v \in Workers : worker'[v].job \in {worker[v].job, NoJob}

\* Where the jobs go in a step: a thread takes one from a queue, or a queue gets one,
\* or neither.
LEMMA JobSteps ==
  ASSUME TypeInv, [Next]_vars
  PROVE  \/ /\ ctx'.ready = ctx.ready
            /\ \E w \in Workers : Takes(w, ctx.strand, ctx'.strand)
         \/ /\ ctx'.strand = ctx.strand
            /\ \E w \in Workers : Takes(w, ctx.ready, ctx'.ready)
         \/ /\ TakesNone /\ ctx'.ready = ctx.ready
            /\ \/ ctx'.strand = ctx.strand
               \/ OpenAsync /\ ctx'.strand = Append(ctx.strand, Job("open"))
               \/ ctx'.strand = Append(ctx.strand, Job("close"))
         \/ /\ TakesNone /\ ctx'.strand = ctx.strand
            /\ \E job \in ReadyJobs :
                 /\ ctx'.ready = Append(ctx.ready, job)
                 /\ \/ \E i \in Accepts, c \in Clients :
                         ClientConnects(i, c) /\ job = SlotJob(i, c)
                    \/ \A i, c : job # SlotJob(i, c)
<1>0. /\ worker \in [Workers -> Threads]
      /\ \A w \in Workers : worker[w].pc = "idle" => worker[w].job = NoJob
  BY DEF TypeInv, WorkersOK, Threads, Consistent, OpenPcs, ClosePcs
<1>1. /\ \A job : [ctx EXCEPT !.ready = Append(@, job)].strand = ctx.strand
      /\ \A job : [ctx EXCEPT !.ready = Append(@, job)].ready = Append(ctx.ready, job)
      /\ \A job : [ctx EXCEPT !.strand = Append(@, job)].strand = Append(ctx.strand, job)
      /\ \A job : [ctx EXCEPT !.strand = Append(@, job)].ready = ctx.ready
      /\ [ctx EXCEPT !.strand = Tail(@)].strand = Tail(ctx.strand)
      /\ [ctx EXCEPT !.strand = Tail(@)].ready = ctx.ready
      /\ [ctx EXCEPT !.ready = Tail(@)].strand = ctx.strand
      /\ [ctx EXCEPT !.ready = Tail(@)].ready = Tail(ctx.ready)
      /\ [ctx EXCEPT !.stopped = TRUE].strand = ctx.strand
      /\ [ctx EXCEPT !.stopped = TRUE].ready = ctx.ready
  BY DEF TypeInv, QueuesOK
<1>2. CASE \E w \in Workers : TakeJob(w)
  <2>1. PICK w \in Workers : TakeJob(w)
    BY <1>2
  <2>2. worker[w].job = NoJob
    BY <1>0, <2>1 DEF TakeJob
  <2>3. \A k, job : worker' = [worker EXCEPT ![w] = Thread(k, job)] =>
          /\ worker'[w].job = job
          /\ \A v \in Workers : v # w => worker'[v] = worker[v]
    BY <1>0 DEF Thread
  <2>4. CASE /\ ctx.strand # <<>>
             /\ worker' = [worker EXCEPT ![w] = Thread(Head(ctx.strand).kind, Head(ctx.strand))]
             /\ ctx' = [ctx EXCEPT !.strand = Tail(@)]
    <3>1. ctx'.ready = ctx.ready /\ ctx'.strand = Tail(ctx.strand)
      BY <1>1, <2>4
    <3>2. /\ worker'[w].job = Head(ctx.strand)
          /\ \A v \in Workers : v # w => worker'[v] = worker[v]
      BY <2>3, <2>4, Zenon
    <3>3. Takes(w, ctx.strand, ctx'.strand)
      BY <2>2, <2>4, <3>1, <3>2 DEF Takes
    <3> QED
      BY <3>1, <3>3
  <2>5. CASE /\ ctx.ready # <<>>
             /\ worker' = [worker EXCEPT ![w] = Thread(Head(ctx.ready).kind, Head(ctx.ready))]
             /\ ctx' = [ctx EXCEPT !.ready = Tail(@)]
    <3>1. ctx'.strand = ctx.strand /\ ctx'.ready = Tail(ctx.ready)
      BY <1>1, <2>5
    <3>2. /\ worker'[w].job = Head(ctx.ready)
          /\ \A v \in Workers : v # w => worker'[v] = worker[v]
      BY <2>3, <2>5, Zenon
    <3>3. Takes(w, ctx.ready, ctx'.ready)
      BY <2>2, <2>5, <3>1, <3>2 DEF Takes
    <3> QED
      BY <3>1, <3>3
  <2> QED
    BY <2>1, <2>4, <2>5 DEF TakeJob
<1>3. ASSUME NEW w \in Workers, WorkerStep(w), ~TakeJob(w) PROVE TakesNone
  <2>1. \A v \in Workers : v # w => worker'[v].job = worker[v].job
    BY <1>3, WorkerAlone
  <2>2. worker[w] \in [pc : Pcs, job : {NoJob} \union StrandJobs \union ReadyJobs]
    BY <1>0 DEF Threads
  <2>3. /\ \A pc : GoTo(w, pc) => worker'[w].job = worker[w].job
        /\ EndJob(w) => worker'[w].job = NoJob
        /\ worker' = [worker EXCEPT ![w].pc = "exited"] => worker'[w].job = worker[w].job
    BY <1>0, <2>2 DEF GoTo, EndJob, Thread
  <2>4. worker'[w].job \in {worker[w].job, NoJob}
    <3>1. acc.open \in BOOLEAN
      BY DEF TypeInv, RestOK, AcceptorState
    <3>2. CASE LocalEndpoint(w)
      BY <2>3, <3>1, <3>2, Zenon DEF LocalEndpoint
    <3>3. CASE ~LocalEndpoint(w)
      BY <1>3, <2>3, <3>3
         DEF WorkerStep, ExitRun, OpenSync, AcceptorOpen, SetRunning, OpenError,
             KeepException, SignalHandler, CloseSync, AcceptorClose, CloseImpl,
             TestCleanup, CopyCleanup, ClearCleanup, CallCleanupFunctor, SetNotRunning,
             Closed, AcceptConnection, ContinueAccepting, CreateConnection
    <3> QED
      BY <3>2, <3>3
  <2> QED
    BY <2>1, <2>4 DEF TakesNone
<1>4. ASSUME NEW w \in Workers, WorkerStep(w), ~TakeJob(w), ~AcceptConnection(w)
      PROVE  /\ ctx'.ready = ctx.ready
             /\ \/ ctx'.strand = ctx.strand
                \/ ctx'.strand = Append(ctx.strand, Job("close"))
  <2>1. \/ ctx' = ctx \/ ctx' = [ctx EXCEPT !.stopped = TRUE]
        \/ ctx' = [ctx EXCEPT !.strand = Append(@, Job("close"))]
    BY <1>4, Zenon
       DEF WorkerStep, ExitRun, OpenSync, AcceptorOpen, SetRunning, OpenError,
           KeepException, SignalHandler, CloseSync, AcceptorClose, LocalEndpoint,
           CloseImpl, TestCleanup, CopyCleanup, ClearCleanup, CallCleanupFunctor,
           SetNotRunning, Closed, ContinueAccepting, CreateConnection, PoolStop,
           PostToStrand
  <2> QED
    BY <1>1, <2>1, Zenon
<1>5. ASSUME NEW w \in Workers, AcceptConnection(w)
      PROVE  /\ ctx'.strand = ctx.strand
             /\ \/ ctx'.ready = ctx.ready
                \/ \E job \in ReadyJobs : /\ ctx'.ready = Append(ctx.ready, job)
                                          /\ \A i, c : job # SlotJob(i, c)
  <2>1. \E i \in Accepts : worker[w].job \in SlotJobs(i)
    BY <1>5 DEF AcceptConnection, At, TypeInv, WorkersOK, Threads, Consistent, OpenPcs, ClosePcs
  <2> DEFINE job == CreateJob(worker[w].job.client)
  <2>2. job \in ReadyJobs
    BY <2>1 DEF SlotJobs, SlotJob, CreateJobs, ReadyJobs
  <2>3. \A i, c : job # SlotJob(i, c)
    BY DEF CreateJob, SlotJob
  <2>4. ctx' = ctx \/ ctx' = [ctx EXCEPT !.ready = Append(@, job)]
    BY <1>5 DEF AcceptConnection, Post
  <2> HIDE DEF job
  <2> QED
    BY <1>1, <2>2, <2>3, <2>4, Zenon
<1>6. ASSUME NEW i \in Accepts, NEW c \in Clients, ClientConnects(i, c)
      PROVE  /\ TakesNone /\ ctx'.strand = ctx.strand
             /\ SlotJob(i, c) \in ReadyJobs /\ ctx'.ready = Append(ctx.ready, SlotJob(i, c))
  <2>1. SlotJob(i, c) \in ReadyJobs
    BY DEF ReadyJobs, SlotJobs
  <2> QED
    BY <1>1, <1>6, <2>1 DEF ClientConnects, Post, TakesNone
<1>7. ASSUME NEW e \in Events, EventArrives(e)
      PROVE  /\ TakesNone /\ ctx'.strand = ctx.strand
             /\ Job(e) \in ReadyJobs /\ ctx'.ready = Append(ctx.ready, Job(e))
             /\ \A i, c : Job(e) # SlotJob(i, c)
  <2>1. e \in {"signal", "shutdown"}
    BY HttpServerAssumption
  <2>2. \A i, c : Job(e) # SlotJob(i, c)
    BY <2>1 DEF Job, SlotJob
  <2>3. Job(e) \in ReadyJobs
    BY <2>1 DEF ReadyJobs
  <2> QED
    BY <1>1, <1>7, <2>2, <2>3 DEF EventArrives, Post, TakesNone
<1>8. ASSUME MainStep PROVE TakesNone /\ ctx'.ready = ctx.ready
                            /\ \/ ctx'.strand = ctx.strand
                               \/ OpenAsync /\ ctx'.strand = Append(ctx.strand, Job("open"))
  <2>1. CASE StartThread
    <3>1. \A w \in Workers :
            worker' = [worker EXCEPT ![w].pc = "idle"] =>
              \A v \in Workers : worker'[v].job = worker[v].job
      BY <1>0 DEF Threads
    <3> QED
      BY <1>1, <2>1, <3>1, Zenon DEF StartThread, TakesNone
  <2>2. CASE OpenAsync
    BY <1>1, <2>2 DEF OpenAsync, PostToStrand, TakesNone
  <2>3. CASE AllStarted \/ Wait \/ DestroyServer
    BY <2>3 DEF AllStarted, Wait, DestroyServer, TakesNone
  <2> QED
    BY <1>8, <2>1, <2>2, <2>3 DEF MainStep
<1>9. ASSUME UNCHANGED <<ctx, worker>>
      PROVE  TakesNone /\ ctx'.ready = ctx.ready /\ ctx'.strand = ctx.strand
  BY <1>9 DEF TakesNone
<1>10. ASSUME NEW i \in Accepts, AcceptFails(i) PROVE UNCHANGED <<ctx, worker>>
  BY <1>10 DEF AcceptFails
<1>11. ASSUME NEW w \in Workers, WorkerStep(w), ~TakeJob(w)
       PROVE  \/ /\ TakesNone /\ ctx'.ready = ctx.ready
                 /\ \/ ctx'.strand = ctx.strand
                    \/ ctx'.strand = Append(ctx.strand, Job("close"))
              \/ /\ TakesNone /\ ctx'.strand = ctx.strand
                 /\ \E job \in ReadyJobs : /\ ctx'.ready = Append(ctx.ready, job)
                                           /\ \A i, c : job # SlotJob(i, c)
  BY <1>3, <1>4, <1>5, <1>11
<1> QED
  BY <1>2, <1>6, <1>7, <1>8, <1>9, <1>10, <1>11 DEF Next, vars

\* The jobs J when a queue q becomes r: the only one of them stays the only one, and
\* none becomes at most one.
Kept(q, r, J) ==
  /\ NoneOf(q, worker, J) => NoneOf(r, worker', J)
  /\ AtMostOne(q, worker, J) => AtMostOne(r, worker', J)

Brought(q, r, J) == NoneOf(q, worker, J) => AtMostOne(r, worker', J)

\* None of the jobs is a case of at most one.
LEMMA NoneIsOne ==
  ASSUME NEW q, NEW wk, NEW J, NoneOf(q, wk, J)
  PROVE  AtMostOne(q, wk, J)
BY DEF NoneOf, AtMostOne, Absent, Idle, Once

\* A thread takes a job of the queue.
LEMMA TakenIsKept ==
  ASSUME NEW S, NEW q \in Seq(S), NEW r, NEW J, NoJob \notin J,
         NEW w \in Workers, Takes(w, q, r)
  PROVE  Kept(q, r, J)
<1>1. q # <<>> /\ r = Tail(q) /\ worker[w].job \notin J /\ worker'[w].job = Head(q)
      /\ \A v \in Workers : v # w => worker'[v] = worker[v]
  BY DEF Takes
<1>2. /\ NoneOf(q, worker, J) => NoneOf(Tail(q), worker', J)
      /\ AtMostOne(q, worker, J) => AtMostOne(Tail(q), worker', J)
  BY <1>1, TakeFirst
<1> QED
  BY <1>1, <1>2 DEF Kept

\* The queue stays, and no thread gets one of the jobs.
LEMMA StayingIsKept ==
  ASSUME NEW q, NEW J, \A v \in Workers : worker'[v].job \in J => worker[v].job \in J
  PROVE  Kept(q, q, J)
BY KeepJobs DEF Kept

\* The queue gets a job.
LEMMA PostedIsKept ==
  ASSUME NEW S, NEW q \in Seq(S), NEW J, NoJob \notin J, TakesNone, NEW job \in S
  PROVE  /\ job \notin J => Kept(q, Append(q, job), J)
         /\ Brought(q, Append(q, job), J)
<1>1. \A v \in Workers : worker'[v].job \in J => worker[v].job \in J
  BY DEF TakesNone
<1>2. Kept(q, q, J)
  BY <1>1, StayingIsKept
<1>3. /\ job \notin J /\ NoneOf(q, worker', J) => NoneOf(Append(q, job), worker', J)
      /\ job \notin J /\ AtMostOne(q, worker', J) => AtMostOne(Append(q, job), worker', J)
      /\ NoneOf(q, worker', J) => AtMostOne(Append(q, job), worker', J)
  BY PostJob
<1> QED
  BY <1>2, <1>3 DEF Kept, Brought

-----------------------------------------------------------------------------
(* The server is opened once *)

OpenJobs == {Job("open")}
OpenNone == NoneOf(ctx.strand, worker, OpenJobs)
OpenOne  == AtMostOne(ctx.strand, worker, OpenJobs)

\* Only open_async() brings an open job.
LEMMA OpenJobSteps ==
  ASSUME TypeInv, [Next]_vars
  PROVE  /\ ~OpenAsync /\ OpenNone => OpenNone'
         /\ ~OpenAsync /\ OpenOne => OpenOne'
         /\ OpenAsync /\ OpenNone => OpenOne'
<1>0. /\ ctx.strand \in Seq(StrandJobs) /\ ctx.ready \in Seq(ReadyJobs)
      /\ Job("open") \in StrandJobs /\ Job("close") \in StrandJobs
  BY DEF TypeInv, QueuesOK, StrandJobs
<1>1. NoJob \notin OpenJobs /\ Job("close") \notin OpenJobs
  BY DEF NoJob, Job, OpenJobs
<1>2. \A job \in ReadyJobs : job \notin OpenJobs
  BY DEF ReadyJobs, SlotJobs, CreateJobs, SlotJob, CreateJob, Job, OpenJobs
<1> DEFINE q == ctx.strand
           r == ctx'.strand
<1>3. ASSUME NEW w \in Workers, Takes(w, q, r) PROVE Kept(q, r, OpenJobs)
  <2> HIDE DEF q, r
  <2> QED
    BY <1>0, <1>1, <1>3, TakenIsKept DEF q
<1>4. ASSUME r = q, NEW w \in Workers, Takes(w, ctx.ready, ctx'.ready)
      PROVE  Kept(q, r, OpenJobs)
  <2>1. Head(ctx.ready) \in ReadyJobs
    BY <1>0, <1>4 DEF Takes
  <2>2. \A v \in Workers : worker'[v].job \in OpenJobs => worker[v].job \in OpenJobs
    BY <1>2, <1>4, <2>1 DEF Takes
  <2> QED
    BY <1>4, <2>2, StayingIsKept
<1>5. ASSUME r = q, TakesNone PROVE Kept(q, r, OpenJobs)
  <2>1. \A v \in Workers : worker'[v].job \in OpenJobs => worker[v].job \in OpenJobs
    BY <1>1, <1>5 DEF TakesNone
  <2> QED
    BY <1>5, <2>1, StayingIsKept
<1>6. ASSUME TakesNone, NEW job \in StrandJobs, r = Append(q, job)
      PROVE  (job \notin OpenJobs => Kept(q, r, OpenJobs)) /\ Brought(q, r, OpenJobs)
  <2> HIDE DEF q, r
  <2> QED
    BY <1>0, <1>1, <1>6, PostedIsKept DEF q
<1>7. \/ Kept(q, r, OpenJobs)
      \/ OpenAsync /\ Brought(q, r, OpenJobs)
  BY <1>0, <1>1, <1>3, <1>4, <1>5, <1>6, JobSteps
<1>8. Kept(q, r, OpenJobs) => Brought(q, r, OpenJobs)
  BY NoneIsOne DEF Kept, Brought
<1>9. OpenNone' <=> NoneOf(r, worker', OpenJobs)
  BY DEF OpenNone, NoneOf, Absent, Idle, OpenJobs, Job
<1>10. OpenOne' <=> AtMostOne(r, worker', OpenJobs)
  BY DEF OpenOne, AtMostOne, Once, Absent, Idle, OpenJobs, Job
<1> QED
  BY <1>7, <1>8, <1>9, <1>10 DEF Kept, Brought, OpenNone, OpenOne

OpenOver == main # "open_async" /\ OpenNone

AfterClose ==
  {"cleanup", "copy_cleanup", "clear_cleanup", "call_cleanup", "set_not_running"}

NotListening == main = "destroyed" => ~acc.open

OpenInv ==
  /\ OpenOne
  /\ main = "open_async" => OpenNone
  /\ running => OpenOver
  /\ \A w \in Workers : worker[w].pc \in ClosePcs => OpenOver
  /\ \A w \in Workers : worker[w].pc \in AfterClose => ~acc.open
  /\ acc.open => running \/ \E w \in Workers : worker[w].pc = "set_running"
  /\ NotListening

\* A closing thread has found the server open, and after open_sync() nothing opens it.
LEMMA OverStays ==
  ASSUME TypeInv, [Next]_vars
  PROVE  OpenOver => OpenOver'
<1>1. main # "open_async" => main' # "open_async"
  <2>1. ASSUME NEW w \in Workers, WorkerStep(w) PROVE main' = main
    BY <2>1, WorkerAlone
  <2>2. MainStep => main' # "open_async"
    BY DEF MainStep, OpenAsync, StartThread, AllStarted, Wait, DestroyServer
  <2> QED
    BY <2>1, <2>2, EnvironmentAlone DEF Next, vars
<1>2. OpenAsync => main = "open_async"
  BY DEF OpenAsync
<1> QED
  BY <1>1, <1>2, OpenJobSteps DEF OpenOver

\* The thread that executes the open job: the server was neither opened nor closed.
LEMMA OpeningFacts ==
  ASSUME TypeInv, OpenInv, NEW w \in Workers, worker[w].pc \in OpenPcs
  PROVE  /\ worker[w].job = Job("open") /\ ~OpenNone /\ ~running /\ main # "open_async"
         /\ \A v \in Workers : worker[v].pc \notin ClosePcs
<1>1. worker[w] \in Threads
  BY DEF TypeInv, WorkersOK
<1>2. worker[w].job = Job("open")
  BY <1>1 DEF Threads, Consistent, OpenPcs, ClosePcs
<1>3. ~OpenNone
  BY <1>2 DEF OpenNone, NoneOf, Idle, OpenJobs
<1> QED
  BY <1>2, <1>3 DEF OpenInv, OpenOver

\* The steps of open_sync() and close_sync().
LEMMA OpenCloseSteps ==
  ASSUME TypeInv, JoinInv, OpenInv, [Next]_vars, NEW w \in Workers,
         \/ AcceptorOpen(w) \/ SetRunning(w) \/ CloseSync(w) \/ AcceptorClose(w)
         \/ LocalEndpoint(w) \/ CloseImpl(w) \/ TestCleanup(w) \/ CopyCleanup(w)
         \/ ClearCleanup(w) \/ CallCleanupFunctor(w) \/ SetNotRunning(w)
  PROVE  OpenInv'
<1>1. /\ worker \in [Workers -> Threads] /\ worker[w] \in Threads
      /\ worker[w] \in [pc : Pcs, job : {NoJob} \union StrandJobs \union ReadyJobs]
      /\ acc.open \in BOOLEAN /\ running \in BOOLEAN
  BY DEF TypeInv, WorkersOK, Threads, RestOK, AcceptorState
<1>2. /\ worker[w].pc \notin {"none", "exited"} /\ main' = main
      /\ \A v \in Workers : v # w => worker'[v] = worker[v]
  BY WorkerAlone DEF WorkerStep
<1>3. ~OpenAsync
  BY <1>2 DEF OpenAsync
<1>4. OpenOne' /\ (main' = "open_async" => OpenNone') /\ (OpenOver => OpenOver')
  BY <1>2, <1>3, OpenJobSteps, OverStays DEF OpenInv
<1>5. ~Returned /\ ~Returned'
  BY <1>2 DEF JoinInv, Joined, Returned
<1>6. NotListening'
  BY <1>5 DEF NotListening, Returned
<1>7. \A pc : GoTo(w, pc) => worker'[w].pc = pc
  BY <1>1 DEF GoTo
<1>8. EndJob(w) => worker'[w] = [pc |-> "idle", job |-> NoJob]
  BY <1>1 DEF EndJob, Thread
<1>9. ASSUME running' => OpenOver',
             \A v \in Workers : worker'[v].pc \in ClosePcs => OpenOver',
             \A v \in Workers : worker'[v].pc \in AfterClose => ~acc'.open,
             acc'.open => running' \/ \E v \in Workers : worker'[v].pc = "set_running"
      PROVE  OpenInv'
  BY <1>4, <1>6, <1>9 DEF OpenInv
<1> USE DEF At
<1>10. CASE AcceptorOpen(w)
  <2>1. /\ ~running /\ \A v \in Workers : worker[v].pc \notin ClosePcs
    BY <1>10, OpeningFacts DEF AcceptorOpen, OpenPcs
  <2>2. /\ worker'[w].pc \in {"set_running", "open_error"} /\ ~running'
        /\ acc'.open => worker'[w].pc = "set_running"
    BY <1>1, <1>7, <1>10, <2>1 DEF AcceptorOpen
  <2>3. \A v \in Workers : worker'[v].pc \notin ClosePcs
    BY <1>2, <2>1, <2>2 DEF ClosePcs
  <2> QED
    BY <1>9, <2>2, <2>3 DEF AfterClose, ClosePcs
<1>11. CASE SetRunning(w)
  <2>1. /\ worker[w].job = Job("open") /\ main # "open_async"
        /\ \A v \in Workers : worker[v].pc \notin ClosePcs
    BY <1>11, OpeningFacts DEF SetRunning, OpenPcs
  <2>2. worker'[w] = [pc |-> "idle", job |-> NoJob] /\ running' /\ ctx' = ctx
    BY <1>8, <1>11 DEF SetRunning
  <2>3. OpenOver'
    <3>1. /\ worker[w].job \in OpenJobs /\ worker'[w].job \notin OpenJobs
          /\ \A v \in Workers : worker'[v].job \in OpenJobs => worker[v].job \in OpenJobs
      BY <1>2, <2>1, <2>2 DEF OpenJobs, NoJob, Job
    <3>2. NoneOf(ctx.strand, worker', OpenJobs)
      BY <3>1, KeepJobs, Zenon DEF OpenInv, OpenOne
    <3>3. OpenNone'
      BY <2>2, <3>2 DEF OpenNone, NoneOf, Absent, Idle, OpenJobs, Job
    <3> QED
      BY <1>2, <2>1, <3>3 DEF OpenOver
  <2>4. \A v \in Workers : worker'[v].pc \notin ClosePcs
    BY <1>2, <2>1, <2>2, SMTT(30) DEF ClosePcs
  <2> QED
    BY <1>9, <2>2, <2>3, <2>4 DEF AfterClose, ClosePcs
<1>12. CASE CloseSync(w)
  <2>1. /\ running' = running /\ acc' = acc /\ worker[w].pc # "set_running"
        /\ worker'[w].pc = IF running THEN "acceptor_close" ELSE "closed"
    BY <1>7, <1>12 DEF CloseSync
  <2>2. \A v \in Workers : worker'[v].pc \in ClosePcs => OpenOver
    BY <1>2, <2>1 DEF OpenInv, ClosePcs
  <2> QED
    BY <1>2, <1>4, <1>9, <2>1, <2>2 DEF OpenInv, AfterClose
<1>13. CASE \/ AcceptorClose(w) \/ TestCleanup(w) \/ CopyCleanup(w) \/ ClearCleanup(w)
            \/ CallCleanupFunctor(w)
  <2>1. /\ running' = running /\ acc' = acc /\ worker[w].pc # "set_running"
        /\ worker'[w].pc \in AfterClose => ~acc.open
        /\ worker[w].pc \in ClosePcs
    <3>1. worker[w].pc \in AfterClose => ~acc.open
      BY DEF OpenInv
    <3> QED
      BY <1>1, <1>7, <1>13, <3>1
         DEF AcceptorClose, TestCleanup, CopyCleanup, ClearCleanup, CallCleanupFunctor,
             AfterClose, ClosePcs
  <2>2. OpenOver
    BY <2>1 DEF OpenInv
  <2> QED
    BY <1>2, <1>4, <1>9, <2>1, <2>2 DEF OpenInv, AfterClose
<1>14. CASE CloseImpl(w)
  <2>1. /\ running' = running /\ worker[w].pc = "close_acceptor" /\ ~acc'.open
    BY <1>14 DEF CloseImpl, CloseAcceptor
  <2>2. OpenOver
    BY <2>1 DEF OpenInv, ClosePcs
  <2> QED
    BY <1>4, <1>9, <2>1, <2>2
<1>16. CASE LocalEndpoint(w)
  <2>1. /\ running' = running /\ acc' = acc /\ worker[w].pc = "close_impl"
        /\ worker'[w].pc \in {"close_acceptor", "idle", "close_impl"}
    <3>3. EndJob(w) => worker'[w].pc = "idle"
      BY <1>8
    <3>1. CASE acc.open
      BY <1>7, <1>16, <3>1 DEF LocalEndpoint
    <3>2. CASE ~acc.open
      BY <1>16, <3>2, <3>3, Zenon DEF LocalEndpoint
    <3> QED
      BY <3>1, <3>2
  <2>2. OpenOver
    BY <2>1 DEF OpenInv, ClosePcs
  <2> QED
    BY <1>2, <1>4, <1>9, <2>1, <2>2 DEF OpenInv, AfterClose
<1>15. CASE SetNotRunning(w)
  <2>1. /\ running' = FALSE /\ acc' = acc /\ worker[w].pc = "set_not_running"
    BY <1>15 DEF SetNotRunning
  <2>2. OpenOver /\ ~acc.open
    BY <2>1 DEF OpenInv, ClosePcs, AfterClose
  <2> QED
    BY <1>4, <1>9, <2>1, <2>2
<1> QED
  BY <1>10, <1>11, <1>12, <1>13, <1>14, <1>15, <1>16

\* Every step keeps OpenInv.
LEMMA NextOpen ==
  ASSUME TypeInv, JoinInv, OpenInv, [Next]_vars
  PROVE  OpenInv'
<1>1. /\ worker \in [Workers -> Threads] /\ worker' \in [Workers -> Threads]
      /\ acc.open \in BOOLEAN /\ running \in BOOLEAN
      /\ acc = [open |-> acc.open, waiting |-> acc.waiting]
  BY NextTypes DEF TypeInv, WorkersOK, RestOK, AcceptorState
<1>2. OpenOver => OpenOver'
  BY OverStays
<1>3. ASSUME UNCHANGED <<running, main>>, acc'.open = acc.open,
             \A v \in Workers : \/ worker'[v].pc = worker[v].pc
                                \/ /\ worker[v].pc # "set_running"
                                   /\ worker'[v].pc \notin ClosePcs
      PROVE  OpenInv'
  <2>1. OpenOne' /\ (main' = "open_async" => OpenNone')
    <3>1. ~OpenAsync
      BY <1>3 DEF OpenAsync
    <3> QED
      BY <1>3, <3>1, OpenJobSteps DEF OpenInv
  <2>2. running' => OpenOver'
    BY <1>2, <1>3 DEF OpenInv
  <2>3. \A w \in Workers : worker'[w].pc \in ClosePcs => OpenOver'
    BY <1>2, <1>3 DEF OpenInv
  <2>4. \A w \in Workers : worker'[w].pc \in AfterClose => ~acc'.open
    BY <1>3 DEF OpenInv, AfterClose, ClosePcs
  <2>5. acc'.open => running' \/ \E w \in Workers : worker'[w].pc = "set_running"
    BY <1>3 DEF OpenInv
  <2>6. NotListening'
    BY <1>3 DEF OpenInv, NotListening
  <2> QED
    BY <2>1, <2>2, <2>3, <2>4, <2>5, <2>6 DEF OpenInv
<1>4. ASSUME NEW w \in Workers, WorkerStep(w) PROVE OpenInv'
  <2>1. CASE \/ AcceptorOpen(w) \/ SetRunning(w) \/ CloseSync(w) \/ AcceptorClose(w)
             \/ LocalEndpoint(w) \/ CloseImpl(w) \/ TestCleanup(w) \/ CopyCleanup(w)
             \/ ClearCleanup(w) \/ CallCleanupFunctor(w) \/ SetNotRunning(w)
    BY <2>1, OpenCloseSteps
  <2>2. ASSUME \/ TakeJob(w) \/ ExitRun(w) \/ OpenSync(w) \/ OpenError(w)
               \/ KeepException(w) \/ SignalHandler(w) \/ Closed(w)
               \/ AcceptConnection(w) \/ ContinueAccepting(w) \/ CreateConnection(w)
        PROVE  OpenInv'
    <3>1. main' = main /\ \A v \in Workers : v # w => worker'[v] = worker[v]
      BY <1>4, WorkerAlone
    <3>2. running' = running /\ acc'.open = acc.open
      <4>1. \A i : AcceptNext(acc, i).open = acc.open
        BY <1>1 DEF AcceptNext
      <4> QED
        BY <2>2, <4>1
           DEF TakeJob, ExitRun, OpenSync, OpenError, KeepException, SignalHandler, Closed,
               AcceptConnection, ContinueAccepting, CreateConnection
    <3>3. worker[w].pc # "set_running"
      BY <2>2
         DEF TakeJob, ExitRun, OpenSync, OpenError, KeepException, SignalHandler, Closed,
             AcceptConnection, ContinueAccepting, CreateConnection, At
    <3>4. worker'[w].pc \notin ClosePcs
      <4>1. /\ \A pc : GoTo(w, pc) => worker'[w].pc = pc
            /\ EndJob(w) => worker'[w].pc = "idle"
            /\ \A k, job : worker' = [worker EXCEPT ![w] = Thread(k, job)] => worker'[w].pc = k
            /\ worker' = [worker EXCEPT ![w].pc = "exited"] => worker'[w].pc = "exited"
        BY <1>1 DEF GoTo, EndJob, Thread, Threads
      <4>2. CASE TakeJob(w)
        <5>1. \A job \in StrandJobs \union ReadyJobs : job.kind \notin ClosePcs
          BY DEF StrandJobs, ReadyJobs, SlotJobs, CreateJobs, Job, SlotJob, CreateJob, ClosePcs
        <5>2. /\ ctx.strand # <<>> => Head(ctx.strand) \in StrandJobs
              /\ ctx.ready # <<>> => Head(ctx.ready) \in ReadyJobs
          BY DEF TypeInv, QueuesOK
        <5> QED
          BY <4>1, <4>2, <5>1, <5>2, Zenon DEF TakeJob
      <4>3. CASE ~TakeJob(w)
        BY <2>2, <4>1, <4>3
           DEF ExitRun, OpenSync, OpenError, KeepException, SignalHandler, Closed,
               AcceptConnection, ContinueAccepting, CreateConnection, ClosePcs
      <4> QED
        BY <4>2, <4>3
    <3> QED
      BY <1>3, <3>1, <3>2, <3>3, <3>4
  <2> QED
    BY <1>4, <2>1, <2>2 DEF WorkerStep
<1>5. ASSUME OpenAsync PROVE OpenInv'
  <2>1. main = "open_async" /\ main' = "start" /\ UNCHANGED <<worker, running, acc>>
    BY <1>5 DEF OpenAsync
  <2>2. OpenOne'
    BY <1>5, <2>1, OpenJobSteps DEF OpenInv
  <2> QED
    BY <2>1, <2>2 DEF OpenInv, OpenOver, NotListening
<1>6. ASSUME StartThread \/ AllStarted \/ Wait PROVE OpenInv'
  <2>1. /\ main \notin {"open_async", "destroyed"} /\ main' \notin {"open_async", "destroyed"}
        /\ UNCHANGED <<running, acc>>
    BY <1>6 DEF StartThread, AllStarted, Wait
  <2>2. \A v \in Workers : \/ worker'[v].pc = worker[v].pc
                           \/ worker[v].pc # "set_running" /\ worker'[v].pc \notin ClosePcs
    <3>1. \A w \in Workers : worker' = [worker EXCEPT ![w].pc = "idle"] =>
            worker'[w].pc = "idle" /\ \A v \in Workers : v # w => worker'[v] = worker[v]
      BY <1>1 DEF Threads
    <3> QED
      BY <1>6, <3>1 DEF StartThread, AllStarted, Wait, ClosePcs
  <2>3. OpenOne'
    BY <2>1, OpenJobSteps DEF OpenInv, OpenAsync
  <2>4. \A w \in Workers : worker'[w].pc \in ClosePcs => OpenOver'
    BY <1>2, <2>2 DEF OpenInv
  <2>5. \A w \in Workers : worker'[w].pc \in AfterClose => ~acc'.open
    BY <2>1, <2>2 DEF OpenInv, AfterClose, ClosePcs
  <2>6. acc'.open => running' \/ \E w \in Workers : worker'[w].pc = "set_running"
    BY <2>1, <2>2 DEF OpenInv
  <2> QED
    BY <1>2, <2>1, <2>3, <2>4, <2>5, <2>6 DEF OpenInv, NotListening
<1>7. ASSUME DestroyServer PROVE OpenInv'
  <2>1. /\ main = "returned" /\ main' = "destroyed" /\ UNCHANGED worker
        /\ running' = FALSE
        /\ acc'.open => acc.open /\ ~running
    BY <1>1, <1>7 DEF DestroyServer, CloseAcceptor
  <2>2. ~acc'.open
    BY <2>1 DEF OpenInv, JoinInv, Joined, Returned
  <2>3. OpenOne'
    BY <2>1, OpenJobSteps DEF OpenInv, OpenAsync
  <2>4. \A w \in Workers : worker'[w].pc \in ClosePcs => OpenOver'
    BY <1>2, <2>1 DEF OpenInv
  <2> QED
    BY <2>1, <2>2, <2>3, <2>4 DEF OpenInv, NotListening
<1>8. ASSUME \/ \E i \in Accepts, c \in Clients : ClientConnects(i, c)
             \/ \E i \in Accepts : AcceptFails(i)
             \/ \E e \in Events : EventArrives(e)
      PROVE  OpenInv'
  <2>1. UNCHANGED <<running, main, worker>>
    BY <1>8, EnvironmentAlone
  <2>2. acc'.open = acc.open
    BY <1>1, <1>8 DEF ClientConnects, AcceptFails, EventArrives
  <2> QED
    BY <1>3, <2>1, <2>2
<1>9. ASSUME UNCHANGED vars PROVE OpenInv'
  BY <1>3, <1>9 DEF vars
<1> QED
  BY <1>4, <1>5, <1>6, <1>7, <1>8, <1>9 DEF Next, MainStep

\* OpenInv holds initially.
LEMMA InitOpen == Init => OpenInv
<1> SUFFICES ASSUME Init PROVE OpenInv
  OBVIOUS
<1>1. ctx.strand = <<>> /\ \A w \in Workers : worker[w] = [pc |-> "none", job |-> NoJob]
  BY DEF Init, Thread
<1>2. OpenNone /\ OpenOne
  BY <1>1 DEF OpenNone, OpenOne, NoneOf, AtMostOne, Absent, Idle, Once, OpenJobs, NoJob, Job
<1> QED
  BY <1>1, <1>2 DEF Init, OpenInv, NotListening, ClosePcs, AfterClose

-----------------------------------------------------------------------------
(* The cleanup functor is called once, and a destroyed server was closed *)

CleanupPcs == {"copy_cleanup", "clear_cleanup", "call_cleanup", "set_not_running"}

CleanupInv ==
  /\ running => opened
  /\ opened /\ ~running => ~cleanup
  /\ \A w \in Workers : worker[w].pc \in {"call_cleanup", "set_not_running"} => ~cleanup
  /\ ~cleanup => cleanups > 0 \/ \E w \in Workers : worker[w].pc = "call_cleanup"
  /\ main = "destroyed" => ~running

OnceInv ==
  ~overlap =>
    /\ \A v, w \in Workers : InCleanup(v) /\ InCleanup(w) => v = w
    /\ \A w \in Workers : worker[w].pc \in {"copy_cleanup", "clear_cleanup"} => cleanup
    /\ \A w \in Workers : InCleanup(w) => cleanups = 0
    /\ cleanup => cleanups = 0
    /\ cleanups <= 1

\* The steps outside call_cleanup_functor() leave the functor alone.
LEMMA CleanupQuiet ==
  ASSUME TypeInv, NEW w \in Workers, WorkerStep(w),
         ~TestCleanup(w), ~CopyCleanup(w), ~ClearCleanup(w), ~CallCleanupFunctor(w),
         ~SetNotRunning(w)
  PROVE  /\ UNCHANGED <<cleanup, cleanups, overlap>>
         /\ worker[w].pc \notin CleanupPcs /\ worker'[w].pc \notin CleanupPcs
         /\ UNCHANGED <<running, opened>> \/ (running' /\ opened')
<1>1. /\ worker \in [Workers -> Threads]
      /\ worker[w] \in [pc : Pcs, job : {NoJob} \union StrandJobs \union ReadyJobs]
  BY DEF TypeInv, WorkersOK, Threads
<1>2. /\ \A pc : GoTo(w, pc) => worker'[w].pc = pc
      /\ EndJob(w) => worker'[w].pc = "idle"
  BY <1>1 DEF GoTo, EndJob, Thread
<1> USE DEF At, CleanupPcs
<1>3. CASE TakeJob(w)
  <2>1. \A job \in StrandJobs \union ReadyJobs : job.kind \notin CleanupPcs
    BY DEF StrandJobs, ReadyJobs, SlotJobs, CreateJobs, Job, SlotJob, CreateJob
  <2>2. /\ ctx.strand # <<>> => Head(ctx.strand) \in StrandJobs
        /\ ctx.ready # <<>> => Head(ctx.ready) \in ReadyJobs
    BY DEF TypeInv, QueuesOK
  <2>3. \A job : [worker EXCEPT ![w] = Thread(job.kind, job)][w].pc = job.kind
    BY <1>1 DEF Thread
  <2>4. \E job \in StrandJobs \union ReadyJobs :
          worker' = [worker EXCEPT ![w] = Thread(job.kind, job)]
    BY <1>3, <2>2, Zenon DEF TakeJob
  <2>5. worker'[w].pc \notin CleanupPcs
    BY <2>1, <2>3, <2>4, Zenon
  <2> QED
    BY <1>3, <2>5 DEF TakeJob
<1>4. CASE ExitRun(w) \/ OpenSync(w) \/ AcceptorOpen(w) \/ SetRunning(w) \/ OpenError(w)
  BY <1>1, <1>2, <1>4 DEF ExitRun, OpenSync, AcceptorOpen, SetRunning, OpenError
<1>5. CASE KeepException(w) \/ SignalHandler(w) \/ CloseSync(w) \/ AcceptorClose(w)
  BY <1>2, <1>5 DEF KeepException, SignalHandler, CloseSync, AcceptorClose
<1>6. CASE LocalEndpoint(w)
  <2>1. acc.open \in BOOLEAN
    BY DEF TypeInv, RestOK, AcceptorState
  <2>2. /\ UNCHANGED <<cleanup, cleanups, overlap, running, opened>>
        /\ worker[w].pc = "close_impl"
        /\ worker'[w].pc \in {"close_acceptor", "idle", "close_impl"}
    <3>1. CASE acc.open
      BY <1>2, <1>6, <3>1 DEF LocalEndpoint
    <3>2. CASE ~acc.open
      BY <1>2, <1>6, <3>2, Zenon DEF LocalEndpoint
    <3> QED
      BY <3>1, <3>2
  <2> QED
    BY <2>2
<1>7. CASE CloseImpl(w) \/ Closed(w)
  BY <1>2, <1>7 DEF CloseImpl, Closed
<1>8. CASE AcceptConnection(w) \/ ContinueAccepting(w) \/ CreateConnection(w)
  BY <1>2, <1>8 DEF AcceptConnection, ContinueAccepting, CreateConnection
<1> QED
  BY <1>3, <1>4, <1>5, <1>6, <1>7, <1>8 DEF WorkerStep

\* The steps of call_cleanup_functor() and after it.
LEMMA CleanupSteps ==
  ASSUME TypeInv, JoinInv, CleanupInv, OnceInv, NEW w \in Workers,
         \/ TestCleanup(w) \/ CopyCleanup(w) \/ ClearCleanup(w) \/ CallCleanupFunctor(w)
         \/ SetNotRunning(w)
  PROVE  CleanupInv' /\ OnceInv'
<1>0. /\ worker \in [Workers -> Threads]
      /\ worker[w] \in [pc : Pcs, job : {NoJob} \union StrandJobs \union ReadyJobs]
      /\ cleanups \in Nat /\ cleanup \in BOOLEAN /\ overlap \in BOOLEAN /\ running \in BOOLEAN
  BY DEF TypeInv, WorkersOK, Threads, RestOK
<1>1. /\ main' = main /\ \A v \in Workers : v # w => worker'[v] = worker[v]
  BY WorkerAlone DEF WorkerStep
<1>2. \A pc : [worker EXCEPT ![w].pc = pc][w].pc = pc
  BY <1>0
<1> USE DEF At, GoTo, InCleanup
<1>3. CASE TestCleanup(w)
  <2>1. /\ UNCHANGED <<cleanup, cleanups, running, opened>> /\ worker[w].pc = "cleanup"
        /\ worker'[w].pc = IF cleanup THEN "copy_cleanup" ELSE "set_not_running"
        /\ overlap' = (overlap \/ \E v \in Workers : InCleanup(v))
    BY <1>2, <1>3 DEF TestCleanup
  <2>2. CleanupInv'
    BY <1>0, <1>1, <2>1 DEF CleanupInv
  <2>3. OnceInv'
    BY <1>0, <1>1, <2>1 DEF OnceInv
  <2> QED
    BY <2>2, <2>3
<1>4. CASE CopyCleanup(w)
  <2>1. /\ UNCHANGED <<cleanup, cleanups, running, opened, overlap>>
        /\ worker[w].pc = "copy_cleanup"
        /\ worker'[w].pc \in {"copy_cleanup", "clear_cleanup"}
    BY <1>2, <1>4 DEF CopyCleanup
  <2>2. CleanupInv'
    BY <1>0, <1>1, <2>1 DEF CleanupInv
  <2>3. OnceInv'
    BY <1>0, <1>1, <2>1 DEF OnceInv
  <2> QED
    BY <2>2, <2>3
<1>5. CASE ClearCleanup(w)
  <2>1. /\ UNCHANGED <<cleanups, running, opened, overlap>> /\ ~cleanup'
        /\ worker[w].pc = "clear_cleanup" /\ worker'[w].pc = "call_cleanup"
    BY <1>2, <1>5 DEF ClearCleanup
  <2>2. CleanupInv'
    BY <1>0, <1>1, <2>1 DEF CleanupInv
  <2>3. OnceInv'
    BY <1>0, <1>1, <2>1 DEF OnceInv
  <2> QED
    BY <2>2, <2>3
<1>6. CASE CallCleanupFunctor(w)
  <2>1. /\ UNCHANGED <<cleanup, running, opened, overlap>> /\ cleanups' = cleanups + 1
        /\ worker[w].pc = "call_cleanup"
        /\ \/ worker'[w].pc = "set_not_running"
           \/ worker'[w].pc = "call_cleanup" /\ cleanups > 0
    BY <1>2, <1>6 DEF CallCleanupFunctor
  <2>2. ~cleanup
    BY <2>1 DEF CleanupInv
  <2>3. CleanupInv'
    BY <1>0, <1>1, <2>1, <2>2 DEF CleanupInv
  <2>4. ~overlap => cleanups = 0 /\ \A v \in Workers : v # w => ~InCleanup(v)
    BY <2>1 DEF OnceInv
  <2>5. OnceInv'
    BY <1>0, <1>1, <2>1, <2>2, <2>4 DEF OnceInv
  <2> QED
    BY <2>3, <2>5
<1>7. CASE SetNotRunning(w)
  <2>1. /\ UNCHANGED <<cleanup, cleanups, opened, overlap>> /\ ~running'
        /\ worker[w].pc = "set_not_running" /\ worker'[w].pc = "closed"
    BY <1>2, <1>7 DEF SetNotRunning
  <2>2. CleanupInv'
    BY <1>0, <1>1, <2>1 DEF CleanupInv
  <2>3. OnceInv'
    BY <1>0, <1>1, <2>1 DEF OnceInv
  <2> QED
    BY <2>2, <2>3
<1> QED
  BY <1>3, <1>4, <1>5, <1>6, <1>7

\* Every step keeps CleanupInv and OnceInv.
LEMMA NextCleanup ==
  ASSUME TypeInv, JoinInv, CleanupInv, OnceInv, [Next]_vars
  PROVE  CleanupInv' /\ OnceInv'
<1>0. cleanups \in Nat /\ cleanup \in BOOLEAN /\ overlap \in BOOLEAN /\ running \in BOOLEAN
  BY DEF TypeInv, RestOK
<1>1. ASSUME NEW w \in Workers, WorkerStep(w) PROVE CleanupInv' /\ OnceInv'
  <2>1. CASE \/ TestCleanup(w) \/ CopyCleanup(w) \/ ClearCleanup(w) \/ CallCleanupFunctor(w)
             \/ SetNotRunning(w)
    BY <2>1, CleanupSteps
  <2>2. CASE ~(\/ TestCleanup(w) \/ CopyCleanup(w) \/ ClearCleanup(w) \/ CallCleanupFunctor(w)
               \/ SetNotRunning(w))
    <3>1. /\ UNCHANGED <<cleanup, cleanups, overlap>>
          /\ worker[w].pc \notin CleanupPcs /\ worker'[w].pc \notin CleanupPcs
          /\ UNCHANGED <<running, opened>> \/ (running' /\ opened')
      BY <1>1, <2>2, CleanupQuiet
    <3>2. /\ main' = main /\ worker[w].pc \notin {"none", "exited"}
          /\ \A v \in Workers : v # w => worker'[v] = worker[v]
      BY <1>1, WorkerAlone
    <3>3. main # "destroyed"
      BY <3>2 DEF JoinInv, Returned, Joined
    <3> QED
      BY <1>0, <3>1, <3>2, <3>3 DEF CleanupInv, OnceInv, InCleanup, CleanupPcs
  <2> QED
    BY <2>1, <2>2
<1>2. ASSUME DestroyServer PROVE CleanupInv' /\ OnceInv'
  <2>1. \A w \in Workers : worker[w].pc \in {"none", "exited"}
    BY <1>2 DEF DestroyServer, JoinInv, Returned, Joined
  <2>2. UNCHANGED <<worker, opened, overlap>> /\ main' = "destroyed" /\ ~running'
    BY <1>0, <1>2 DEF DestroyServer
  <2>3. CASE running
    <3>1. ~cleanup' /\ cleanups' = cleanups + (IF cleanup THEN 1 ELSE 0)
      BY <1>2, <2>3 DEF DestroyServer
    <3> QED
      BY <1>0, <2>1, <2>2, <3>1 DEF CleanupInv, OnceInv, InCleanup
  <2>4. CASE ~running
    <3>1. UNCHANGED <<running, cleanup, cleanups>>
      BY <1>2, <2>4 DEF DestroyServer
    <3> QED
      BY <1>0, <2>1, <2>2, <3>1 DEF CleanupInv, OnceInv, InCleanup
  <2> QED
    BY <2>3, <2>4
<1>3. ASSUME MainStep, ~DestroyServer PROVE CleanupInv' /\ OnceInv'
  <2>1. /\ UNCHANGED <<running, opened, overlap, cleanup, cleanups>> /\ main' # "destroyed"
    BY <1>3 DEF MainStep, OpenAsync, StartThread, AllStarted, Wait
  <2>2. \A w \in Workers : worker'[w].pc = worker[w].pc
                             \/ (worker[w].pc = "none" /\ worker'[w].pc = "idle")
    BY <1>3 DEF MainStep, OpenAsync, StartThread, AllStarted, Wait, TypeInv, WorkersOK, Threads
  <2> QED
    BY <1>0, <2>1, <2>2 DEF CleanupInv, OnceInv, InCleanup
<1>4. ASSUME UNCHANGED <<main, worker, running, opened, overlap, cleanup, cleanups>>
      PROVE  CleanupInv' /\ OnceInv'
  BY <1>4 DEF CleanupInv, OnceInv, InCleanup
<1> QED
  BY <1>1, <1>2, <1>3, <1>4, EnvironmentAlone DEF Next, vars

\* As long as no two threads are in call_cleanup_functor() at once, the cleanup
\* functor is called at most once and is there when it is moved out; and whatever
\* happened, a destroyed server does not listen, and one that was opened has called
\* its cleanup functor.
THEOREM ServerIsClosedOnce == Spec => []ClosedOnce
<1> DEFINE I == TypeInv /\ JoinInv /\ OpenInv /\ CleanupInv /\ OnceInv
<1>1. Init => I
  BY InitType, InitOpen DEF Init, JoinInv, Returned, CleanupInv, OnceInv, InCleanup, Thread
<1>2. I /\ [Next]_vars => I'
  BY NextTypes, NextJoin, NextOpen, NextCleanup
<1>3. I => ClosedOnce
  <2> SUFFICES ASSUME I PROVE ClosedOnce
    OBVIOUS
  <2>1. CleanupOnce
    BY DEF OnceInv, CleanupOnce, At
  <2>2. ASSUME main = "destroyed" PROVE ~acc.open /\ ~running /\ (opened => cleanups > 0)
    <3>1. \A w \in Workers : worker[w].pc # "call_cleanup"
      BY <2>2 DEF JoinInv, Returned, Joined
    <3> QED
      BY <2>2, <3>1 DEF OpenInv, NotListening, CleanupInv
  <2> QED
    BY <2>1, <2>2 DEF ClosedOnce, ClosedWhenDestroyed
<1> QED
  BY <1>1, <1>2, <1>3, PTL DEF Spec
=============================================================================
