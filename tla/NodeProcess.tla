----------------------------- MODULE NodeProcess ----------------------------
(***************************************************************************)
(* One process of app.cpp with its three threads: the receiver thread of   *)
(* AsyncUDPServer, its handler thread, which calls PeerManager::receive,   *)
(* and main, which starts the csv file and, on one node, broadcasts.  They *)
(* share an AtomicQueue (mutex, condition variable) and the csv file.      *)
(***************************************************************************)
EXTENDS Naturals, Sequences, SequencesExt

CONSTANTS
    Datagrams,   \* what may arrive, each once
    MaxSends,    \* bound: how many datagrams handling one sends
    Broadcasts   \* whether main broadcasts: the node is number 1

ASSUME ProcessAssumption == MaxSends \in Nat \ {0} /\ Broadcasts \in BOOLEAN

VARIABLES
    todo,        \* datagrams that have not arrived
    receiver,    \* where the receiver thread is
    received,    \* its local variable data, as a sequence of at most one
    handler,     \* where the handler thread is
    front,       \* its local variable front, likewise
    sends,       \* how many sends the handler and main have before them
    main,        \* where main is
    mutex,       \* buffer_mutex: who holds it
    q,           \* the queue
    csv,         \* the lines of the file
    entered,     \* history: everything pushed
    taken,       \* history: everything PeerManager was given
    rows,        \* history: everything appended to the file
    cut          \* history: how much of that was before the header was written

vars == <<todo, receiver, received, handler, front, sends, main, mutex, q,
          csv, entered, taken, rows, cut>>

-----------------------------------------------------------------------------
Row(io, of) == <<io, of>>

\* Two lines that are not rows: the header, and what it leaves of a row.
Header == Row("header", "main")
Damaged == Row("damaged", "main")

\* A mutant: the file is opened to be written anew.
AppendRecordAnew(row) == csv' = <<row>> /\ rows' = Append(rows, row)

\* append_message_record: one write at the end of the file.
AppendRecord(row) == csv' = Append(csv, row) /\ rows' = Append(rows, row)

-----------------------------------------------------------------------------
\* AsyncUDPServer::receive.
RecvFrom(d) ==
    /\ receiver = "recvfrom"
    /\ d \in todo
    /\ todo' = todo \ {d}
    /\ received' = <<d>>
    /\ receiver' = "enqueue"
    /\ UNCHANGED <<handler, front, sends, main, mutex, q, csv, entered, taken,
                   rows, cut>>

\* recvfrom fails: the thread returns for good.
RecvFails ==
    /\ receiver = "recvfrom"
    /\ receiver' = "ended"
    /\ UNCHANGED <<todo, received, handler, front, sends, main, mutex, q, csv,
                   entered, taken, rows, cut>>

\* A mutant: enqueue_and_notify without the lock.
LockFree == TRUE

Lockable == mutex = "free"

\* AtomicQueue::enqueue_and_notify, in three steps.
EnqueueLock ==
    /\ receiver = "enqueue"
    /\ Lockable
    /\ mutex' = "receiver"
    /\ receiver' = "push"
    /\ UNCHANGED <<todo, received, handler, front, sends, main, q, csv,
                   entered, taken, rows, cut>>

Push ==
    /\ receiver = "push"
    /\ q' = q \o received
    /\ entered' = entered \o received
    /\ received' = <<>>
    /\ receiver' = "notify"
    /\ UNCHANGED <<todo, handler, front, sends, main, mutex, csv, taken, rows,
                   cut>>

\* A mutant: notify_one is forgotten.
WokenNever == handler

Woken == IF handler = "waiting" THEN "lock" ELSE handler

NotifyUnlock ==
    /\ receiver = "notify"
    /\ handler' = Woken
    /\ mutex' = "free"
    /\ receiver' = "recvfrom"
    /\ UNCHANGED <<todo, received, front, sends, main, q, csv, entered, taken,
                   rows, cut>>

-----------------------------------------------------------------------------
\* AtomicQueue::wait_for_dequeue; "lock" is both its beginning and the end of
\* a wait.
DequeueLock ==
    /\ handler = "lock"
    /\ Lockable
    /\ mutex' = "handler"
    /\ handler' = "check"
    /\ UNCHANGED <<todo, receiver, received, front, sends, main, q, csv,
                   entered, taken, rows, cut>>

Check ==
    /\ handler = "check"
    /\ handler' = IF q = <<>> THEN "wait" ELSE "pop"
    /\ UNCHANGED <<todo, receiver, received, front, sends, main, mutex, q, csv,
                   entered, taken, rows, cut>>

Wait ==
    /\ handler = "wait"
    /\ mutex' = "free"
    /\ handler' = "waiting"
    /\ UNCHANGED <<todo, receiver, received, front, sends, main, q, csv,
                   entered, taken, rows, cut>>

\* A condition variable may wake a thread for no reason.
SpuriousWake ==
    /\ handler = "waiting"
    /\ handler' = "lock"
    /\ UNCHANGED <<todo, receiver, received, front, sends, main, mutex, q, csv,
                   entered, taken, rows, cut>>

\* A mutant: pop is forgotten.
RestAll == q

Rest == Tail(q)

PopUnlock ==
    /\ handler = "pop"
    /\ front' = <<Head(q)>>
    /\ q' = Rest
    /\ mutex' = "free"
    /\ handler' = "receive"
    /\ UNCHANGED <<todo, receiver, received, sends, main, csv, entered, taken,
                   rows, cut>>

\* PeerManager::receive: log the datagram; on_receive sends some others.
Receive ==
    /\ handler = "receive"
    /\ taken' = taken \o front
    /\ AppendRecord(Row("received", front[1]))
    /\ \E n \in 0 .. MaxSends : sends' = [sends EXCEPT !.handler = n]
    /\ handler' = "on_receive"
    /\ UNCHANGED <<todo, receiver, received, front, main, mutex, q, entered,
                   cut>>

HandlerSend ==
    /\ handler = "on_receive"
    /\ sends.handler > 0
    /\ AppendRecord(Row("sent", front[1]))
    /\ sends' = [sends EXCEPT !.handler = @ - 1]
    /\ UNCHANGED <<todo, receiver, received, handler, front, main, mutex, q,
                   entered, taken, cut>>

ReceiveReturns ==
    /\ handler = "on_receive"
    /\ sends.handler = 0
    /\ front' = <<>>
    /\ handler' = "lock"
    /\ UNCHANGED <<todo, receiver, received, sends, main, mutex, q, csv,
                   entered, taken, rows, cut>>

-----------------------------------------------------------------------------
\* main: the file is truncated when it is opened,
OpenLog ==
    /\ main = "open"
    /\ csv' = <<>>
    /\ main' = "header"
    /\ UNCHANGED <<todo, receiver, received, handler, front, sends, mutex, q,
                   entered, taken, rows, cut>>

\* and the header is written to its beginning when it is closed; it is shorter
\* than a row and leaves the end of one that is there.
CloseLog ==
    /\ main = "header"
    /\ csv' = IF csv = <<>> THEN <<Header>> ELSE <<Header, Damaged>> \o Tail(csv)
    /\ cut' = Len(rows)
    /\ main' = IF Broadcasts THEN "sleep" ELSE "stop"
    /\ UNCHANGED <<todo, receiver, received, handler, front, sends, mutex, q,
                   entered, taken, rows>>

\* BaseApp::broadcast: one send, or all of on_receive's if the contact node
\* chosen is the node itself.
Broadcast ==
    /\ main = "sleep"
    /\ \E n \in 0 .. MaxSends : sends' = [sends EXCEPT !.main = n]
    /\ main' = "broadcast"
    /\ UNCHANGED <<todo, receiver, received, handler, front, mutex, q, csv,
                   entered, taken, rows, cut>>

Left(thread) == sends[thread] > 0

MainSend ==
    /\ main = "broadcast"
    /\ Left("main")
    /\ AppendRecord(Row("sent", "own"))
    /\ sends' = [sends EXCEPT !.main = @ - 1]
    /\ UNCHANGED <<todo, receiver, received, handler, front, main, mutex, q,
                   entered, taken, cut>>

BroadcastReturns ==
    /\ main = "broadcast"
    /\ ~ Left("main")
    /\ main' = "stop"
    /\ UNCHANGED <<todo, receiver, received, handler, front, sends, mutex, q,
                   csv, entered, taken, rows, cut>>

\* AsyncUDPServer::stop joins the receiver thread, then the handler thread.
Joined ==
    /\ main = "stop"
    /\ receiver = "ended"
    /\ main' = "join handler"
    /\ UNCHANGED <<todo, receiver, received, handler, front, sends, mutex, q,
                   csv, entered, taken, rows, cut>>

-----------------------------------------------------------------------------
\* The threads run, main has returned from BaseApp::start.
Init ==
    /\ todo = Datagrams
    /\ receiver = "recvfrom"
    /\ received = <<>>
    /\ handler = "lock"
    /\ front = <<>>
    /\ sends = [handler |-> 0, main |-> 0]
    /\ main = "open"
    /\ mutex = "free"
    /\ q = <<>>
    /\ csv = <<>>
    /\ entered = <<>>
    /\ taken = <<>>
    /\ rows = <<>>
    /\ cut = 0

Enqueue == EnqueueLock \/ Push \/ NotifyUnlock

Handle ==
    \/ DequeueLock \/ Check \/ Wait \/ PopUnlock
    \/ Receive \/ HandlerSend \/ ReceiveReturns

Main ==
    \/ OpenLog \/ CloseLog
    \/ Broadcast \/ MainSend \/ BroadcastReturns
    \/ Joined

Next ==
    \/ (\E d \in Datagrams : RecvFrom(d)) \/ RecvFails
    \/ Enqueue \/ Handle \/ SpuriousWake \/ Main

Spec == Init /\ [][Next]_vars

\* Threads that can go on do; a mutex that is free now and again is had in the
\* end.  Nothing has to arrive, to fail or to wake without reason.
Fairness ==
    /\ WF_vars(Push \/ NotifyUnlock) /\ SF_vars(EnqueueLock)
    /\ WF_vars(Handle) /\ SF_vars(DequeueLock)

FairSpec == Spec /\ Fairness

-----------------------------------------------------------------------------
Line == {"received", "sent", "header", "damaged"} \X (Datagrams \cup {"own", "main"})

AtMostOne == {<<>>} \cup {<<d>> : d \in Datagrams}

(***************************************************************************)
(* Type invariant.                                                         *)
(***************************************************************************)
TypeOK ==
    /\ todo \subseteq Datagrams
    /\ receiver \in {"recvfrom", "enqueue", "push", "notify", "ended"}
    /\ handler \in {"lock", "check", "wait", "waiting", "pop", "receive", "on_receive"}
    /\ main \in {"open", "header", "sleep", "broadcast", "stop", "join handler"}
    /\ mutex \in {"free", "receiver", "handler"}
    /\ received \in AtMostOne /\ front \in AtMostOne
    /\ sends \in [handler : 0 .. MaxSends, main : 0 .. MaxSends]
    /\ q \in Seq(Datagrams)
    /\ entered \in Seq(Datagrams) /\ taken \in Seq(Datagrams)
    /\ csv \in Seq(Line) /\ rows \in Seq(Line) /\ cut \in 0 .. Len(rows)

(***************************************************************************)
(* No wakeup is lost: a handler waits over a queue that is not empty only  *)
(* until the receiver thread, which is about to notify it, has done so.    *)
(***************************************************************************)
NoLostWakeup == handler = "waiting" /\ q # <<>> => receiver = "notify"

(***************************************************************************)
(* Queue and threads are a FIFO channel: PeerManager is given the datagrams*)
(* the receiver thread pushed, each once and in this order, whatever main  *)
(* does in between.                                                        *)
(***************************************************************************)
Channel == INSTANCE FifoChannel

ImplementsChannel == Channel!Spec

(***************************************************************************)
(* The file that the evaluation scripts count lines of: its first line is  *)
(* the header, and of all rows appended, by two threads, only such are     *)
(* missing or damaged as came before main had written the header; the rest *)
(* is there once and in order.                                             *)
(***************************************************************************)
LogKeepsRows ==
    main \notin {"open", "header"} =>
        \/ \E k \in 0 .. cut :
              csv = <<Header>> \o SubSeq(rows, k + 1, Len(rows))
        \/ \E k \in 1 .. cut :
              csv = <<Header, Damaged>> \o SubSeq(rows, k + 1, Len(rows))

Logged(d) == Row("received", d) \in Range(rows)

(***************************************************************************)
(* Whatever the receiver thread got is handled some time, even if the      *)
(* thread ends afterwards.                                                 *)
(***************************************************************************)
ArrivalsHandled == \A d \in Datagrams : d \notin todo ~> Logged(d)

=============================================================================
