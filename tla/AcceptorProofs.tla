--------------------------- MODULE AcceptorProofs ---------------------------
(***************************************************************************)
(* A socket slot of the acceptor of HttpServer is used by one accept at a  *)
(* time, for any number of threads, sockets and clients and any set of     *)
(* events and faults.                                                      *)
(***************************************************************************)
EXTENDS HttpServerProofs

-----------------------------------------------------------------------------
(* A socket is used by one accept *)

SlotNone(i) == NoneOf(ctx.ready, worker, SlotJobs(i))
SlotOne(i)  == AtMostOne(ctx.ready, worker, SlotJobs(i))

\* A job of a socket slot is the accept handler of that slot.
LEMMA SlotJobFacts ==
  \A i : \A job \in SlotJobs(i) : job.kind = "accepted" /\ job.slot = i
<1>1. ASSUME NEW i, NEW job \in SlotJobs(i) PROVE \E c \in Clients : job = SlotJob(i, c)
  BY Zenon DEF SlotJobs
<1>2. \A i, c : SlotJob(i, c).kind = "accepted" /\ SlotJob(i, c).slot = i
  BY DEF SlotJob
<1> QED
  BY <1>1, <1>2

\* Only a client that connects brings an accept handler.
LEMMA SlotJobSteps ==
  ASSUME TypeInv, [Next]_vars, NEW i \in Accepts
  PROVE  /\ (\A c \in Clients : ~ClientConnects(i, c)) =>
              (SlotNone(i) => SlotNone(i)') /\ (SlotOne(i) => SlotOne(i)')
         /\ SlotNone(i) => SlotOne(i)'
<1> DEFINE J == SlotJobs(i)
           q == ctx.ready
           r == ctx'.ready
<1>0. ctx.strand \in Seq(StrandJobs) /\ q \in Seq(ReadyJobs)
  BY DEF TypeInv, QueuesOK
<1>1. NoJob \notin J /\ \A job \in StrandJobs : job \notin J
  <2>1. \A job \in J : job.kind = "accepted"
    BY SlotJobFacts
  <2>2. NoJob.kind # "accepted" /\ \A job \in StrandJobs : job.kind # "accepted"
    BY DEF NoJob, Job, StrandJobs
  <2> QED
    BY <2>1, <2>2
<1>2. \A job \in J : \E c \in Clients : job = SlotJob(i, c)
  BY DEF SlotJobs
<1>3. \A j, c : j # i => SlotJob(j, c) \notin J
  BY DEF SlotJobs, SlotJob
<1>4. SlotNone(i)' <=> NoneOf(r, worker', J)
  BY DEF SlotNone, NoneOf, Absent, Idle, SlotJobs, SlotJob
<1>5. SlotOne(i)' <=> AtMostOne(r, worker', J)
  BY DEF SlotOne, AtMostOne, Once, Absent, Idle, SlotJobs, SlotJob
<1>6. SlotNone(i) = NoneOf(q, worker, J) /\ SlotOne(i) = AtMostOne(q, worker, J)
  BY DEF SlotNone, SlotOne
<1> HIDE DEF J, q, r
<1>7. ASSUME NEW w \in Workers, Takes(w, q, r) PROVE Kept(q, r, J)
  BY <1>0, <1>1, <1>7, TakenIsKept
<1>8. ASSUME r = q, NEW w \in Workers, Takes(w, ctx.strand, ctx'.strand) PROVE Kept(q, r, J)
  <2>1. Head(ctx.strand) \in StrandJobs
    BY <1>0, <1>8 DEF Takes
  <2>2. \A v \in Workers : worker'[v].job \in J => worker[v].job \in J
    BY <1>1, <1>8, <2>1 DEF Takes
  <2> QED
    BY <1>8, <2>2, StayingIsKept
<1>9. ASSUME r = q, TakesNone PROVE Kept(q, r, J)
  <2>1. \A v \in Workers : worker'[v].job \in J => worker[v].job \in J
    BY <1>1, <1>9 DEF TakesNone
  <2> QED
    BY <1>9, <2>1, StayingIsKept
<1>10. ASSUME TakesNone, NEW job \in ReadyJobs, r = Append(q, job)
       PROVE  (job \notin J => Kept(q, r, J)) /\ Brought(q, r, J)
  BY <1>0, <1>1, <1>10, PostedIsKept
<1>11. \/ Kept(q, r, J)
       \/ (\E c \in Clients : ClientConnects(i, c)) /\ Brought(q, r, J)
  <2>1. CASE \E w \in Workers : Takes(w, q, r)
    BY <1>7, <2>1
  <2>2. CASE r = q /\ (TakesNone \/ \E w \in Workers : Takes(w, ctx.strand, ctx'.strand))
    BY <1>8, <1>9, <2>2
  <2>3. CASE /\ TakesNone
             /\ \E job \in ReadyJobs :
                  /\ r = Append(q, job)
                  /\ \/ \E j \in Accepts, c \in Clients :
                          ClientConnects(j, c) /\ job = SlotJob(j, c)
                     \/ \A j, c : job # SlotJob(j, c)
    <3>1. PICK job \in ReadyJobs :
            /\ r = Append(q, job)
            /\ \/ \E j \in Accepts, c \in Clients : ClientConnects(j, c) /\ job = SlotJob(j, c)
               \/ \A j, c : job # SlotJob(j, c)
      BY <2>3
    <3>2. job \in J => \E c \in Clients : ClientConnects(i, c)
      BY <1>2, <1>3, <3>1
    <3> QED
      BY <1>10, <2>3, <3>1, <3>2
  <2> QED
    BY <2>1, <2>2, <2>3, JobSteps DEF q, r
<1>12. Kept(q, r, J) => Brought(q, r, J)
  BY NoneIsOne DEF Kept, Brought
<1> QED
  BY <1>4, <1>5, <1>6, <1>11, <1>12 DEF Kept, Brought

\* open_sync() has not started the accepts.
BeforeOpen ==
  \/ main = "open_async"
  \/ ~Absent(ctx.strand, OpenJobs)
  \/ \E w \in Workers : worker[w].pc \in {"open", "acceptor_open"}

SlotInv(i) ==
  /\ SlotOne(i)
  /\ acc.waiting[i] <= 1
  /\ acc.waiting[i] > 0 => SlotNone(i)

Untouched(i) == acc.waiting[i] = 0 /\ SlotNone(i)

AcceptInv ==
  /\ \A i \in Accepts : SlotInv(i)
  /\ BeforeOpen => ~acc.open /\ \A i \in Accepts : Untouched(i)

\* open_sync() does not run a second time.
LEMMA BeforeOpenSteps ==
  ASSUME TypeInv, [Next]_vars, BeforeOpen'
  PROVE  BeforeOpen
<1>0. worker \in [Workers -> Threads] /\ ctx.strand \in Seq(StrandJobs)
      /\ ctx.ready \in Seq(ReadyJobs)
  BY DEF TypeInv, WorkersOK, QueuesOK
<1>1. CASE main' = "open_async"
  <2>1. \A w \in Workers : WorkerStep(w) => main' = main
    BY WorkerAlone
  <2>2. MainStep => main' # "open_async"
    BY DEF MainStep, OpenAsync, StartThread, AllStarted, Wait, DestroyServer
  <2> QED
    BY <1>1, <2>1, <2>2, EnvironmentAlone DEF Next, vars, BeforeOpen
<1>2. CASE ~Absent(ctx.strand, OpenJobs)'
  <2>1. CASE ctx'.strand = ctx.strand
    BY <1>2, <2>1 DEF BeforeOpen, Absent, OpenJobs, Job
  <2>2. CASE OpenAsync
    BY <2>2 DEF OpenAsync, BeforeOpen
  <2>3. CASE ctx'.strand = Append(ctx.strand, Job("close"))
    <3>1. PICK k \in DOMAIN Append(ctx.strand, Job("close")) :
            Append(ctx.strand, Job("close"))[k] = Job("open")
      BY <1>2, <2>3 DEF Absent, OpenJobs, Job
    <3>2. Job("close") # Job("open")
      BY DEF Job
    <3>3. k \in DOMAIN ctx.strand /\ ctx.strand[k] = Job("open")
      <4> HIDE DEF Job
      <4>1. Job("close") \in StrandJobs
        BY DEF StrandJobs
      <4> QED
        BY <1>0, <3>1, <3>2, <4>1
    <3> QED
      BY <3>3 DEF BeforeOpen, Absent, OpenJobs
  <2>4. CASE \E w \in Workers : Takes(w, ctx.strand, ctx'.strand)
    <3>1. ctx.strand # <<>> /\ ctx'.strand = Tail(ctx.strand)
      BY <2>4 DEF Takes
    <3>2. PICK k \in DOMAIN Tail(ctx.strand) : Tail(ctx.strand)[k] = Job("open")
      BY <1>2, <3>1 DEF Absent, OpenJobs, Job
    <3>3. k + 1 \in DOMAIN ctx.strand /\ ctx.strand[k + 1] = Job("open")
      BY <1>0, <3>1, <3>2
    <3> QED
      BY <3>3 DEF BeforeOpen, Absent, OpenJobs
  <2> QED
    BY <2>1, <2>2, <2>3, <2>4, JobSteps
<1>3. ASSUME NEW w \in Workers, worker'[w].pc \in {"open", "acceptor_open"} PROVE BeforeOpen
  <2>0. worker' \in [Workers -> Threads]
    BY NextTypes DEF TypeInv, WorkersOK
  <2>1. worker'[w].job = Job("open")
    BY <1>3, <2>0 DEF Threads, Consistent, OpenPcs, ClosePcs
  <2>2. CASE \E v \in Workers : Takes(v, ctx.strand, ctx'.strand) /\ v = w
    <3>1. ctx.strand # <<>> /\ Head(ctx.strand) = Job("open")
      BY <2>1, <2>2 DEF Takes
    <3>2. 1 \in DOMAIN ctx.strand /\ ctx.strand[1] = Job("open")
      BY <1>0, <3>1
    <3> QED
      BY <3>2 DEF BeforeOpen, Absent, OpenJobs
  <2>3. CASE worker'[w] = worker[w]
    BY <1>3, <2>3 DEF BeforeOpen
  <2>4. CASE Takes(w, ctx.ready, ctx'.ready)
    <3>1. Head(ctx.ready) \in ReadyJobs /\ worker'[w].job = Head(ctx.ready)
      BY <1>0, <2>4 DEF Takes
    <3> QED
      BY <2>1, <3>1
         DEF ReadyJobs, SlotJobs, CreateJobs, SlotJob, CreateJob, Job
  <2>5. ASSUME ~TakeJob(w), WorkerStep(w) PROVE BeforeOpen
    <3>1. /\ \A pc : GoTo(w, pc) => worker'[w].pc = pc
          /\ EndJob(w) => worker'[w].pc = "idle"
          /\ worker' = [worker EXCEPT ![w].pc = "exited"] => worker'[w].pc = "exited"
      BY <1>0 DEF GoTo, EndJob, Thread, Threads
    <3>2. OpenSync(w) => worker[w].pc = "open"
      BY DEF OpenSync, At
    <3>3. CASE LocalEndpoint(w)
      <4>1. acc.open \in BOOLEAN
        BY DEF TypeInv, RestOK, AcceptorState
      <4>2. worker' = worker \/ worker'[w].pc \in {"close_acceptor", "idle"}
        BY <3>1, <3>3, <4>1, Zenon DEF LocalEndpoint
      <4> QED
        BY <1>3, <4>2 DEF BeforeOpen
    <3>4. ASSUME ~LocalEndpoint(w), ~OpenSync(w) PROVE BeforeOpen
      <4>1. worker' = worker \/ worker'[w].pc \notin {"open", "acceptor_open"}
        <5>1. CASE AcceptorOpen(w) \/ SetRunning(w) \/ OpenError(w) \/ KeepException(w)
          BY <3>1, <5>1 DEF AcceptorOpen, SetRunning, OpenError, KeepException
        <5>2. CASE CloseSync(w) \/ AcceptorClose(w) \/ CloseImpl(w) \/ TestCleanup(w)
          BY <3>1, <5>2 DEF CloseSync, AcceptorClose, CloseImpl, TestCleanup
        <5>5. CASE CopyCleanup(w) \/ ClearCleanup(w) \/ CallCleanupFunctor(w)
          BY <3>1, <5>5 DEF CopyCleanup, ClearCleanup, CallCleanupFunctor
        <5>3. CASE SetNotRunning(w) \/ Closed(w) \/ SignalHandler(w) \/ ExitRun(w)
          BY <3>1, <5>3 DEF SetNotRunning, Closed, SignalHandler, ExitRun
        <5>4. CASE AcceptConnection(w) \/ ContinueAccepting(w) \/ CreateConnection(w)
          BY <3>1, <5>4 DEF AcceptConnection, ContinueAccepting, CreateConnection
        <5> QED
          BY <2>5, <3>4, <5>1, <5>2, <5>3, <5>4, <5>5 DEF WorkerStep
      <4> QED
        BY <1>3, <4>1 DEF BeforeOpen
    <3> QED
      BY <3>2, <3>3, <3>4 DEF BeforeOpen
  <2>6. ASSUME TakeJob(w) PROVE BeforeOpen
    <3>1. worker[w].pc = "idle" /\ worker[w].job = NoJob
      BY <1>0, <2>6 DEF TakeJob, Threads, Consistent, OpenPcs, ClosePcs
    <3>2. NoJob # Job("open")
      BY DEF NoJob, Job
    <3>3. ~TakesNone
      BY <2>1, <3>1, <3>2 DEF TakesNone
    <3>4. PICK v \in Workers : \/ Takes(v, ctx.strand, ctx'.strand)
                               \/ Takes(v, ctx.ready, ctx'.ready)
      BY <3>3, JobSteps
    <3>5. v = w
      BY <2>1, <3>1, <3>2, <3>4 DEF Takes
    <3> QED
      BY <2>2, <2>4, <3>4, <3>5
  <2>7. ASSUME NEW v \in Workers, WorkerStep(v) PROVE BeforeOpen
    BY <2>3, <2>5, <2>6, <2>7, WorkerAlone
  <2>8. ASSUME MainStep PROVE BeforeOpen
    <3>1. \A v \in Workers : worker' = [worker EXCEPT ![v].pc = "idle"] =>
            worker'[v].pc = "idle" /\ (v # w => worker'[w] = worker[w])
      BY <1>0 DEF Threads
    <3>2. worker'[w] = worker[w] \/ worker'[w].pc = "idle"
      BY <2>8, <3>1
         DEF MainStep, OpenAsync, StartThread, AllStarted, Wait, DestroyServer
    <3> QED
      BY <1>3, <2>3, <3>2
  <2> QED
    BY <2>3, <2>7, <2>8, EnvironmentAlone DEF Next, vars
<1>4. \/ main' = "open_async" \/ ~Absent(ctx.strand, OpenJobs)'
      \/ \E w \in Workers : worker'[w].pc \in {"open", "acceptor_open"}
  BY DEF BeforeOpen
<1> QED
  BY <1>1, <1>2, <1>3, <1>4

\* A step in which no client connects keeps what the accepts and handlers are.
LEMMA FewerAccepts ==
  ASSUME TypeInv, AcceptInv, [Next]_vars,
         \A i \in Accepts, c \in Clients : ~ClientConnects(i, c),
         acc'.open => acc.open, acc' \in AcceptorState,
         \A i \in Accepts : acc'.waiting[i] <= acc.waiting[i]
  PROVE  AcceptInv'
<1>1. \A i \in Accepts : (SlotNone(i) => SlotNone(i)') /\ (SlotOne(i) => SlotOne(i)')
  BY SlotJobSteps
<1>2. \A i \in Accepts : acc'.waiting[i] \in Nat /\ acc.waiting[i] \in Nat
  BY DEF TypeInv, RestOK, AcceptorState
<1>3. ASSUME NEW i \in Accepts PROVE SlotInv(i)'
  BY <1>1, <1>2 DEF AcceptInv, SlotInv
<1>4. ASSUME NEW i \in Accepts, Untouched(i) PROVE Untouched(i)'
  BY <1>1, <1>2, <1>4 DEF Untouched
<1>5. BeforeOpen' => ~acc'.open /\ \A i \in Accepts : Untouched(i)'
  BY <1>4, BeforeOpenSteps DEF AcceptInv
<1> QED
  BY <1>3, <1>5 DEF AcceptInv

\* acceptor_t::open() starts the accepts, once.
LEMMA OpenAccepts ==
  ASSUME TypeInv, OpenInv, AcceptInv, [Next]_vars,
         \A i \in Accepts, c \in Clients : ~ClientConnects(i, c),
         NEW w \in Workers, AcceptorOpen(w), acc' # acc
  PROVE  AcceptInv'
<1>0. /\ worker \in [Workers -> Threads] /\ worker' \in [Workers -> Threads]
      /\ acc \in AcceptorState
  BY NextTypes DEF TypeInv, WorkersOK, RestOK
<1>1. /\ worker[w].pc = "acceptor_open" /\ GoTo(w, "set_running") /\ UNCHANGED <<main, ctx>>
      /\ acc' = [open |-> TRUE, waiting |-> [i \in Accepts |-> acc.waiting[i] + 1]]
  BY DEF AcceptorOpen, At
<1>2. \A i \in Accepts : Untouched(i)
  BY <1>1 DEF AcceptInv, BeforeOpen
<1>3. \A i \in Accepts : SlotNone(i)' /\ SlotOne(i)'
  BY <1>2, SlotJobSteps, SMTT(30) DEF Untouched
<1>4. \A i \in Accepts : acc'.waiting[i] = 1
  BY <1>1, <1>2, SMTT(30) DEF Untouched
<1>5. \A i \in Accepts : SlotInv(i)'
  BY <1>3, <1>4 DEF SlotInv
<1>6. /\ worker[w].job = Job("open") /\ main # "open_async"
  BY <1>1, OpeningFacts DEF OpenPcs
<1>7. Absent(ctx.strand, OpenJobs)' /\ main' # "open_async"
  <2>1. ~Idle(worker, OpenJobs)
    BY <1>6 DEF Idle, OpenJobs
  <2>2. Absent(ctx.strand, OpenJobs)
    BY <2>1 DEF OpenInv, OpenOne, AtMostOne
  <2> QED
    BY <1>1, <1>6, <2>2 DEF Absent, OpenJobs, Job
<1>8. worker'[w].pc = "set_running" /\ \A v \in Workers : v # w => worker'[v] = worker[v]
  BY <1>0, <1>1 DEF GoTo, Threads
<1>9. \A v \in Workers : worker'[v].pc \notin {"open", "acceptor_open"}
  <2> SUFFICES ASSUME NEW v \in Workers, worker'[v].pc \in {"open", "acceptor_open"}
               PROVE  FALSE
    OBVIOUS
  <2>1. v # w /\ worker[v].pc \in {"open", "acceptor_open"}
    BY <1>8
  <2>2. worker[v].job = Job("open")
    BY <2>1, OpeningFacts DEF OpenPcs
  <2> QED
    BY <1>6, <2>1, <2>2 DEF OpenInv, OpenOne, AtMostOne, OpenJobs
<1>10. ~BeforeOpen'
  BY <1>7, <1>9 DEF BeforeOpen
<1> QED
  BY <1>5, <1>10 DEF AcceptInv

\* The accept handler of a socket starts the next accept when it is through.
LEMMA AcceptAgain ==
  ASSUME TypeInv, AcceptInv, [Next]_vars,
         \A i \in Accepts, c \in Clients : ~ClientConnects(i, c),
         NEW w \in Workers, ContinueAccepting(w)
  PROVE  AcceptInv'
<1>0. /\ worker \in [Workers -> Threads] /\ worker[w] \in Threads /\ acc \in AcceptorState
  BY DEF TypeInv, WorkersOK, RestOK
<1>1. PICK i \in Accepts : worker[w].job \in SlotJobs(i)
  BY <1>0 DEF ContinueAccepting, At, Threads, Consistent, OpenPcs, ClosePcs
<1>2. worker[w].job.slot = i
  BY <1>1, SlotJobFacts
<1>3. /\ ctx' = ctx /\ acc' = AcceptNext(acc, i) /\ worker'[w].job = NoJob
      /\ \A v \in Workers : v # w => worker'[v] = worker[v]
  BY <1>0, <1>2 DEF ContinueAccepting, EndJob, Thread
<1>4. SlotNone(i)'
  <2>1. NoJob \notin SlotJobs(i)
    BY Zenon DEF NoJob, Job, SlotJobs, SlotJob
  <2>2. \A v \in Workers : worker'[v].job \in SlotJobs(i) => worker[v].job \in SlotJobs(i)
    BY <1>3, <2>1
  <2>3. NoneOf(ctx.ready, worker', SlotJobs(i))
    BY <1>1, <1>3, <2>1, <2>2, KeepJobs DEF AcceptInv, SlotInv, SlotOne
  <2> QED
    BY <1>3, <2>3 DEF SlotNone, NoneOf, Absent, Idle, SlotJobs, SlotJob
<1>5. ~SlotNone(i)
  BY <1>1 DEF SlotNone, NoneOf, Idle
<1>6. \A j \in Accepts : (SlotNone(j) => SlotNone(j)') /\ (SlotOne(j) => SlotOne(j)')
  BY SlotJobSteps
<1>7. acc.waiting[i] = 0 /\ \A j \in Accepts : acc.waiting[j] \in Nat
  BY <1>0, <1>5 DEF AcceptInv, SlotInv, AcceptorState
<1>8. /\ acc'.waiting[i] \in {0, 1}
      /\ \A j \in Accepts : j # i => acc'.waiting[j] = acc.waiting[j]
  BY <1>0, <1>3, <1>7 DEF AcceptNext, AcceptorState
<1>9. \A j \in Accepts : SlotInv(j)'
  <2>1. SlotInv(i)'
    BY <1>4, <1>6, <1>8 DEF AcceptInv, SlotInv
  <2>2. ASSUME NEW j \in Accepts, j # i PROVE SlotInv(j)'
    BY <1>6, <1>8, <2>2 DEF AcceptInv, SlotInv
  <2> QED
    BY <2>1, <2>2
<1>10. ~BeforeOpen'
  BY <1>5, BeforeOpenSteps DEF AcceptInv, Untouched
<1> QED
  BY <1>9, <1>10 DEF AcceptInv

\* A client takes the pending accept of a socket, and its handler is queued.
LEMMA ConnectToSocket ==
  ASSUME TypeInv, AcceptInv, [Next]_vars,
         NEW i \in Accepts, NEW c \in Clients, ClientConnects(i, c)
  PROVE  AcceptInv'
<1>0. acc \in AcceptorState
  BY DEF TypeInv, RestOK
<1>1. \A j \in Accepts : acc.waiting[j] \in Nat
  BY <1>0 DEF AcceptorState
<1>2. /\ acc.open /\ acc.waiting[i] > 0 /\ acc' = [acc EXCEPT !.waiting[i] = @ - 1]
  BY DEF ClientConnects
<1>3. acc'.waiting[i] = acc.waiting[i] - 1
      /\ \A j \in Accepts : j # i => acc'.waiting[j] = acc.waiting[j]
  BY <1>0, <1>2 DEF AcceptorState
<1>4. SlotNone(i) /\ acc.waiting[i] = 1
  BY <1>1, <1>2 DEF AcceptInv, SlotInv
<1>5. SlotInv(i)'
  BY <1>3, <1>4, SlotJobSteps DEF SlotInv
<1>6. ASSUME NEW j \in Accepts, j # i PROVE SlotInv(j)'
  <2>1. \A d \in Clients : ClientConnects(j, d) => acc'.waiting[j] = acc.waiting[j] - 1
    BY <1>0 DEF ClientConnects, AcceptorState
  <2>2. \A d \in Clients : ~ClientConnects(j, d)
    BY <1>1, <1>3, <1>6, <2>1
  <2> QED
    BY <1>3, <1>6, <2>2, SlotJobSteps DEF AcceptInv, SlotInv
<1>7. ~BeforeOpen'
  BY <1>2, BeforeOpenSteps DEF AcceptInv
<1> QED
  BY <1>5, <1>6, <1>7 DEF AcceptInv

\* Every step keeps AcceptInv.
LEMMA NextAccept ==
  ASSUME TypeInv, OpenInv, AcceptInv, [Next]_vars
  PROVE  AcceptInv'
<1>0. acc \in AcceptorState /\ acc' \in AcceptorState
  BY NextTypes DEF TypeInv, RestOK
<1>1. \A i \in Accepts : acc.waiting[i] \in Nat /\ acc'.waiting[i] \in Nat
  BY <1>0 DEF AcceptorState
<1>2. CASE \E i \in Accepts, c \in Clients : ClientConnects(i, c)
  BY <1>2, ConnectToSocket
<1>3. CASE \A i \in Accepts, c \in Clients : ~ClientConnects(i, c)
  <2>1. ASSUME acc' = acc PROVE AcceptInv'
    BY <1>0, <1>1, <1>3, <2>1, FewerAccepts
  <2>2. ASSUME acc' = CloseAcceptor(acc) PROVE AcceptInv'
    <3>1. ~acc'.open /\ \A i \in Accepts : acc'.waiting[i] = 0
      BY <2>2 DEF CloseAcceptor
    <3> QED
      BY <1>0, <1>1, <1>3, <3>1, FewerAccepts
  <2>3. ASSUME NEW i \in Accepts, AcceptFails(i) PROVE AcceptInv'
    <3>1. acc'.open = acc.open /\ \A j \in Accepts : acc'.waiting[j] <= acc.waiting[j]
      <4>1. acc' = [acc EXCEPT !.waiting[i] = @ - 1]
        BY <2>3 DEF AcceptFails
      <4>2. /\ acc'.open = acc.open /\ acc'.waiting[i] = acc.waiting[i] - 1
            /\ \A j \in Accepts : j # i => acc'.waiting[j] = acc.waiting[j]
        BY <1>0, <4>1 DEF AcceptorState
      <4> QED
        BY <1>1, <4>2
    <3> QED
      BY <1>0, <1>3, <3>1, FewerAccepts
  <2>4. ASSUME NEW w \in Workers, AcceptorOpen(w) PROVE AcceptInv'
    BY <1>3, <2>1, <2>4, OpenAccepts
  <2>5. ASSUME NEW w \in Workers, ContinueAccepting(w) PROVE AcceptInv'
    BY <1>3, <2>5, AcceptAgain
  <2>6. ASSUME NEW w \in Workers, WorkerStep(w), ~AcceptorOpen(w), ~ContinueAccepting(w)
        PROVE  acc' = acc \/ acc' = CloseAcceptor(acc)
    <3>1. CASE LocalEndpoint(w) \/ CloseImpl(w)
      BY <1>0, <3>1, Zenon DEF LocalEndpoint, CloseImpl, AcceptorState
    <3>2. CASE ~LocalEndpoint(w) /\ ~CloseImpl(w)
      BY <2>6, <3>2
         DEF WorkerStep, TakeJob, ExitRun, OpenSync, SetRunning, OpenError, KeepException,
             SignalHandler, CloseSync, AcceptorClose, TestCleanup, CopyCleanup, ClearCleanup,
             CallCleanupFunctor, SetNotRunning, Closed, AcceptConnection, CreateConnection
    <3> QED
      BY <3>1, <3>2
  <2>7. MainStep => acc' = acc \/ acc' = CloseAcceptor(acc)
    BY DEF MainStep, OpenAsync, StartThread, AllStarted, Wait, DestroyServer
  <2>8. \A e \in Events : EventArrives(e) => acc' = acc
    BY DEF EventArrives
  <2> QED
    BY <1>3, <2>1, <2>2, <2>3, <2>4, <2>5, <2>6, <2>7, <2>8 DEF Next, vars
<1> QED
  BY <1>2, <1>3

\* The invariant counts the users of a socket.
LEMMA OneHandler ==
  ASSUME TypeInv, AcceptInv, NEW i \in Accepts
  PROVE  acc.waiting[i] + Cardinality(Handlers(i)) <= 1
<1>0. acc.waiting[i] \in Nat /\ acc.waiting[i] <= 1
  BY DEF TypeInv, RestOK, AcceptorState, AcceptInv, SlotInv
<1>1. \A c \in Clients : SlotJob(i, c) \in SlotJobs(i)
  BY DEF SlotJobs
<1>2. \A c, d : SlotJob(i, c) = SlotJob(i, d) => c = d
  BY DEF SlotJob
<1>3. CASE Handlers(i) = {}
  <2>1. Cardinality(Handlers(i)) = 0
    BY <1>3, FS_EmptySet
  <2> QED
    BY <1>0, <2>1
<1>4. CASE Handlers(i) # {}
  <2>1. PICK c \in Handlers(i) : TRUE
    BY <1>4
  <2>2. ~SlotNone(i)
    BY <1>1, <2>1 DEF Handlers, SlotNone, NoneOf, Absent, Idle
  <2>3. acc.waiting[i] = 0
    BY <1>0, <2>2 DEF AcceptInv, SlotInv
  <2>4. ASSUME NEW d \in Handlers(i) PROVE d = c
    <3>1. /\ c \in Clients /\ d \in Clients
          /\ \/ \E k \in DOMAIN ctx.ready : ctx.ready[k] = SlotJob(i, c)
             \/ \E w \in Workers : worker[w].job = SlotJob(i, c)
          /\ \/ \E k \in DOMAIN ctx.ready : ctx.ready[k] = SlotJob(i, d)
             \/ \E w \in Workers : worker[w].job = SlotJob(i, d)
      BY <2>1 DEF Handlers
    <3>2. SlotOne(i)
      BY DEF AcceptInv, SlotInv
    <3>3. SlotJob(i, c) = SlotJob(i, d)
      BY <1>1, <3>1, <3>2, SMTT(30) DEF SlotOne, AtMostOne, Once, Absent, Idle
    <3> QED
      BY <1>2, <3>3
  <2>5. Handlers(i) = {c}
    BY <2>1, <2>4
  <2>6. Cardinality(Handlers(i)) = 1
    BY <2>5, FS_Singleton, Zenon
  <2> QED
    BY <2>3, <2>6
<1> QED
  BY <1>3, <1>4

\* Each socket of socket_supplier_t is used by at most one pending accept or one
\* accept handler, whatever the threads, the clients and the faults do.
THEOREM SocketsAreExclusive == Spec => []OneAcceptPerSocket
<1> DEFINE I == TypeInv /\ JoinInv /\ OpenInv /\ AcceptInv
<1>1. Init => I
  <2> SUFFICES ASSUME Init PROVE I
    OBVIOUS
  <2>1. /\ ctx.strand = <<>> /\ ctx.ready = <<>>
        /\ \A w \in Workers : worker[w] = [pc |-> "none", job |-> NoJob]
        /\ ~acc.open /\ \A i \in Accepts : acc.waiting[i] = 0
    BY DEF Init, Thread
  <2>2. \A i \in Accepts : SlotNone(i) /\ SlotOne(i)
    <3>1. \A i \in Accepts : NoJob \notin SlotJobs(i)
      BY Zenon DEF NoJob, Job, SlotJobs, SlotJob
    <3> QED
      BY <2>1, <3>1 DEF SlotNone, SlotOne, NoneOf, AtMostOne, Absent, Idle, Once
  <2>3. AcceptInv
    BY <2>1, <2>2 DEF AcceptInv, SlotInv, Untouched
  <2>4. TypeInv /\ JoinInv /\ OpenInv
    BY InitType, InitOpen DEF Init, JoinInv, Returned
  <2> QED
    BY <2>3, <2>4
<1>2. I /\ [Next]_vars => I'
  BY NextTypes, NextJoin, NextOpen, NextAccept
<1>3. I => OneAcceptPerSocket
  <2> SUFFICES ASSUME I PROVE OneAcceptPerSocket
    OBVIOUS
  <2>1. \A w \in Workers : worker[w].job.kind \in
          {"none", "open", "close", "shutdown", "signal", "accepted", "create"}
    <3>1. \A job \in {NoJob} \union StrandJobs \union ReadyJobs : job.kind \in
            {"none", "open", "close", "shutdown", "signal", "accepted", "create"}
      BY DEF NoJob, Job, StrandJobs, ReadyJobs, SlotJobs, SlotJob, CreateJobs, CreateJob
    <3> QED
      BY <3>1 DEF TypeInv, WorkersOK, Threads
  <2>2. acc.open \in BOOLEAN /\ acc.waiting \in [Accepts -> Nat]
    BY DEF TypeInv, RestOK, AcceptorState
  <2>3. \A c \in Clients : conn[c].st \in
          {"outside", "accepted", "queued", "served", "denied", "failed"}
    BY DEF TypeInv, RestOK, ClientStates, ClientState
  <2>4. TypeOK
    BY <2>1, <2>2, <2>3 DEF TypeOK, TypeInv, RestOK
  <2> QED
    BY <2>4, OneHandler DEF OneAcceptPerSocket
<1> QED
  BY <1>1, <1>2, <1>3, PTL DEF Spec
=============================================================================
