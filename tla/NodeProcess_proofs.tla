-------------------------- MODULE NodeProcess_proofs ------------------------
(***************************************************************************)
(* Proofs about NodeProcess, for any number of datagrams and of sends.     *)
(***************************************************************************)
EXTENDS NodeProcess, SequenceTheorems, TLAPS

-----------------------------------------------------------------------------
(***************************************************************************)
(* The inductive invariant.                                                *)
(***************************************************************************)

\* Where a thread is says whether it holds the mutex.
Locked ==
    /\ mutex = "receiver" <=> receiver \in {"push", "notify"}
    /\ mutex = "handler" <=> handler \in {"check", "wait", "pop"}

\* Where a thread is says whether it carries a datagram.
Carried ==
    /\ received # <<>> <=> receiver \in {"enqueue", "push"}
    /\ front # <<>> <=> handler \in {"receive", "on_receive"}

\* What the handler thread found is so as long as it holds the mutex.
Checked ==
    /\ handler = "wait" => q = <<>>
    /\ handler = "pop" => q # <<>>

\* The datagram between queue and PeerManager.
Passing == IF handler = "receive" THEN front ELSE <<>>

\* What was pushed was handed over, is about to be, or is queued.
InOrder == entered = taken \o Passing \o q

\* Between truncation and header the file has the rows since the truncation.
FileFollows ==
    main = "header" => \E k \in 0 .. Len(rows) : csv = SubSeq(rows, k + 1, Len(rows))

IInv ==
    /\ TypeOK /\ Locked /\ Carried /\ Checked
    /\ NoLostWakeup /\ InOrder /\ FileFollows /\ LogKeepsRows

-----------------------------------------------------------------------------
\* A row at the end of all rows is at the end of every tail of them.
LEMMA AppendToTail ==
    ASSUME NEW S, NEW s \in Seq(S), NEW e \in S, NEW k \in 0 .. Len(s)
    PROVE  /\ Append(s, e) \in Seq(S) /\ Len(Append(s, e)) = Len(s) + 1
           /\ SubSeq(s, k + 1, Len(s)) \in Seq(S)
           /\ SubSeq(Append(s, e), k + 1, Len(s) + 1)
                    = Append(SubSeq(s, k + 1, Len(s)), e)
<1> DEFINE t == Append(s, e)
           a == SubSeq(s, k + 1, Len(s))
<1>1. t \in Seq(S) /\ Len(t) = Len(s) + 1 /\ t[Len(s) + 1] = e
      /\ \A i \in 1 .. Len(s) : t[i] = s[i]
  BY AppendProperties
<1>2. Len(s) \in Nat
  BY LenProperties
<1>3. a \in Seq(S)
  <2>1. \A i \in k + 1 .. Len(s) : s[i] \in S
    BY <1>2, ElementOfSeq
  <2>2. QED BY <1>2, <2>1, SubSeqProperties
<1>4. t = s \o <<e>> /\ Append(a, e) = a \o <<e>> /\ <<e>> \in Seq(S)
  <2>1. t = s \o <<e>>
    BY AppendIsConcat, Zenon
  <2>2. Append(a, e) = a \o <<e>>
    BY <1>3, AppendIsConcat, Zenon
  <2>3. <<e>> \in Seq(S)
    OBVIOUS
  <2>4. QED BY <2>1, <2>2, <2>3, Zenon
<1>5. SubSeq(t, k + 1, Len(s)) = a
  BY <1>2, <1>4, SubSeqOfConcat1
<1> HIDE DEF t, a
<1>6. SubSeq(t, k + 1, Len(s) + 1) = SubSeq(t, k + 1, Len(s)) \o <<t[Len(s) + 1]>>
  <2>1. k + 1 \in 1 .. Len(t) /\ Len(t) \in k + 1 .. Len(t)
    BY <1>1, <1>2
  <2>2. SubSeq(t, k + 1, Len(t)) = SubSeq(t, k + 1, Len(t) - 1) \o <<t[Len(t)]>>
    BY ONLY <1>1, <2>1, SubSeqRecursiveSecond
  <2>3. Len(t) = Len(s) + 1 /\ Len(t) - 1 = Len(s)
    BY <1>1, <1>2
  <2>4. QED BY <2>2, <2>3, Zenon
<1>7. QED BY <1>1, <1>3, <1>4, <1>5, <1>6 DEF t, a

\* Appending to what was put behind a head is appending to the whole.
LEMMA AppendConcat ==
    \A s, t \in Seq(Line), e \in Line : Append(s \o t, e) = s \o Append(t, e)
<1> HIDE DEF Line
<1>1. QED OBVIOUS

-----------------------------------------------------------------------------
(***************************************************************************)
(* Each step preserves each part of the invariant.                         *)
(***************************************************************************)
LEMMA RowsAreLines ==
    /\ Header \in Line /\ Damaged \in Line
    /\ Row("sent", "own") \in Line
    /\ \A d \in Datagrams : Row("received", d) \in Line /\ Row("sent", d) \in Line
BY DEF Header, Damaged, Row, Line

\* Appending a row keeps the types of file and rows.
LEMMA AppendTypes ==
    ASSUME TypeOK, NEW row \in Line, AppendRecord(row)
    PROVE  /\ csv' \in Seq(Line) /\ rows' \in Seq(Line)
           /\ Len(rows') = Len(rows) + 1 /\ cut \in 0 .. Len(rows')
<1>1. csv \in Seq(Line) /\ rows \in Seq(Line) /\ cut \in 0 .. Len(rows)
  BY DEF TypeOK
<1>2. csv' = Append(csv, row) /\ rows' = Append(rows, row)
  BY DEF AppendRecord
<1>3. csv' \in Seq(Line) /\ rows' \in Seq(Line) /\ Len(rows') = Len(rows) + 1
  BY <1>1, <1>2, AppendProperties
<1>4. QED BY <1>1, <1>3, LenProperties

LEMMA CarriedAreSeqs == AtMostOne \subseteq Seq(Datagrams)
<1>1. <<>> \in Seq(Datagrams)
  BY EmptySeq
<1>2. \A d \in Datagrams : <<d>> \in Seq(Datagrams)
  OBVIOUS
<1>3. QED BY <1>1, <1>2 DEF AtMostOne

LEMMA TypeStep ==
    ASSUME TypeOK, Carried, Checked, Next
    PROVE  TypeOK'
<1> USE ProcessAssumption
<1>1. ASSUME NEW d \in Datagrams, RecvFrom(d) PROVE TypeOK'
  BY <1>1 DEF TypeOK, RecvFrom, AtMostOne
<1>2. CASE RecvFails \/ EnqueueLock \/ NotifyUnlock
  BY <1>2 DEF TypeOK, RecvFails, EnqueueLock, NotifyUnlock, Woken
<1>3. CASE Push
  <2>1. received \in Seq(Datagrams)
    BY CarriedAreSeqs DEF TypeOK
  <2>2. q' \in Seq(Datagrams) /\ entered' \in Seq(Datagrams)
    BY <1>3, <2>1, ConcatProperties DEF TypeOK, Push
  <2>3. QED BY <1>3, <2>2 DEF TypeOK, Push, AtMostOne
<1>4. CASE DequeueLock \/ Check \/ Wait \/ SpuriousWake
  BY <1>4 DEF TypeOK, DequeueLock, Check, Wait, SpuriousWake
<1>5. CASE PopUnlock
  <2>1. q # <<>> /\ q \in Seq(Datagrams)
    BY <1>5 DEF TypeOK, Checked, PopUnlock
  <2>2. Head(q) \in Datagrams /\ Tail(q) \in Seq(Datagrams)
    BY <2>1, HeadTailProperties
  <2>3. QED BY <1>5, <2>2 DEF TypeOK, PopUnlock, Rest, AtMostOne
<1>6. CASE Receive
  <2>1. PICK d \in Datagrams : front = <<d>>
    BY <1>6 DEF TypeOK, Carried, Receive, AtMostOne
  <2>2. AppendRecord(Row("received", d))
    BY <1>6, <2>1 DEF Receive
  <2>3. taken' \in Seq(Datagrams)
    <3>1. front \in Seq(Datagrams)
      BY <2>1
    <3>2. QED BY <1>6, <3>1, ConcatProperties DEF TypeOK, Receive
  <2>4. csv' \in Seq(Line) /\ rows' \in Seq(Line) /\ cut \in 0 .. Len(rows')
    BY <2>2, RowsAreLines, AppendTypes
  <2>5. sends' \in [handler : 0 .. MaxSends, main : 0 .. MaxSends]
    BY <1>6 DEF TypeOK, Receive
  <2>6. QED BY <1>6, <2>3, <2>4, <2>5 DEF TypeOK, Receive
<1>7. CASE HandlerSend
  <2>1. PICK d \in Datagrams : front = <<d>>
    BY <1>7 DEF TypeOK, Carried, HandlerSend, AtMostOne
  <2>2. AppendRecord(Row("sent", d))
    BY <1>7, <2>1 DEF HandlerSend
  <2>3. csv' \in Seq(Line) /\ rows' \in Seq(Line) /\ cut \in 0 .. Len(rows')
    BY <2>2, RowsAreLines, AppendTypes
  <2>4. sends' \in [handler : 0 .. MaxSends, main : 0 .. MaxSends]
    <3>1. sends.handler \in 0 .. MaxSends /\ sends.handler > 0
          /\ sends' = [sends EXCEPT !.handler = sends.handler - 1]
      BY <1>7 DEF TypeOK, HandlerSend
    <3>2. sends.handler - 1 \in 0 .. MaxSends
      BY <3>1
    <3>3. QED BY <3>1, <3>2 DEF TypeOK
  <2>5. QED BY <1>7, <2>3, <2>4 DEF TypeOK, HandlerSend
<1>8. CASE ReceiveReturns
  BY <1>8 DEF TypeOK, ReceiveReturns, AtMostOne
<1>9. CASE OpenLog
  BY <1>9, EmptySeq DEF TypeOK, OpenLog
<1>10. CASE CloseLog
  <2>1. csv' \in Seq(Line)
    <3>1. CASE csv = <<>>
      BY <1>10, <3>1, RowsAreLines DEF CloseLog
    <3>2. CASE csv # <<>>
      <4>1. Tail(csv) \in Seq(Line)
        BY <3>2, HeadTailProperties DEF TypeOK
      <4>2. <<Header, Damaged>> \in Seq(Line)
        BY RowsAreLines
      <4>3. QED BY <1>10, <3>2, <4>1, <4>2, ConcatProperties DEF CloseLog
    <3>3. QED BY <3>1, <3>2
  <2>2. cut' \in 0 .. Len(rows)
    BY <1>10, LenProperties DEF TypeOK, CloseLog
  <2>3. QED BY <1>10, <2>1, <2>2 DEF TypeOK, CloseLog
<1>11. CASE Broadcast \/ BroadcastReturns \/ Joined
  BY <1>11 DEF TypeOK, Broadcast, BroadcastReturns, Joined
<1>12. CASE MainSend
  <2>1. csv' \in Seq(Line) /\ rows' \in Seq(Line) /\ cut \in 0 .. Len(rows')
    BY <1>12, RowsAreLines, AppendTypes DEF MainSend
  <2>2. sends' \in [handler : 0 .. MaxSends, main : 0 .. MaxSends]
    <3>1. sends.main \in 0 .. MaxSends /\ sends.main > 0
          /\ sends' = [sends EXCEPT !.main = sends.main - 1]
      BY <1>12 DEF TypeOK, MainSend, Left
    <3>2. sends.main - 1 \in 0 .. MaxSends
      BY <3>1
    <3>3. QED BY <3>1, <3>2 DEF TypeOK
  <2>3. QED BY <1>12, <2>1, <2>2 DEF TypeOK, MainSend
<1>13. QED
  BY <1>1, <1>2, <1>3, <1>4, <1>5, <1>6, <1>7, <1>8, <1>9, <1>10, <1>11, <1>12
  DEF Next, Enqueue, Handle, Main

LEMMA ControlStep ==
    ASSUME TypeOK, Locked, Carried, Checked, NoLostWakeup, Next
    PROVE  Locked' /\ Carried' /\ Checked' /\ NoLostWakeup'
<1> USE DEF Locked, Carried, Checked, NoLostWakeup
<1>1. ASSUME NEW d \in Datagrams, RecvFrom(d)
      PROVE  Locked' /\ Carried' /\ Checked' /\ NoLostWakeup'
  BY <1>1 DEF RecvFrom
<1>2. CASE RecvFails \/ EnqueueLock
  BY <1>2 DEF RecvFails, EnqueueLock, Lockable
<1>3. CASE Push
  BY <1>3 DEF TypeOK, Push
<1>4. CASE NotifyUnlock
  BY <1>4 DEF TypeOK, NotifyUnlock, Woken
<1>5. CASE DequeueLock \/ Check \/ Wait \/ SpuriousWake
  BY <1>5 DEF TypeOK, DequeueLock, Check, Wait, SpuriousWake, Lockable
<1>6. CASE PopUnlock
  BY <1>6 DEF TypeOK, PopUnlock
<1>7. CASE Receive \/ HandlerSend \/ ReceiveReturns
  BY <1>7 DEF TypeOK, Receive, HandlerSend, ReceiveReturns
<1>8. CASE Main
  BY <1>8 DEF Main, OpenLog, CloseLog, Broadcast, MainSend, BroadcastReturns, Joined
<1>9. QED
  BY <1>1, <1>2, <1>3, <1>4, <1>5, <1>6, <1>7, <1>8 DEF Next, Enqueue, Handle

LEMMA Regroup ==
    \A s, t, u \in Seq(Datagrams) : (s \o t) \o u = s \o (t \o u)
BY ConcatAssociative, SMT

LEMMA OrderStep ==
    ASSUME TypeOK, Carried, Checked, InOrder, Next
    PROVE  InOrder'
<1>1. entered \in Seq(Datagrams) /\ taken \in Seq(Datagrams) /\ q \in Seq(Datagrams)
      /\ front \in Seq(Datagrams) /\ received \in Seq(Datagrams)
      /\ Passing \in Seq(Datagrams)
  BY CarriedAreSeqs, EmptySeq DEF TypeOK, Passing
<1>2. CASE Push
  <2>1. entered' = (taken \o Passing \o q) \o received /\ q' = q \o received
    BY <1>2 DEF InOrder, Push
  <2>2. taken \o Passing \in Seq(Datagrams)
    BY <1>1, ConcatProperties
  <2>3. (taken \o Passing \o q) \o received = taken \o Passing \o (q \o received)
    <3>1. q \in Seq(Datagrams) /\ received \in Seq(Datagrams)
      BY <1>1
    <3>2. QED BY <2>2, <3>1, Regroup, ZenonT(60)
  <2>4. taken' = taken /\ Passing' = Passing
    BY <1>2 DEF Push, Passing
  <2>5. QED BY <2>1, <2>3, <2>4 DEF InOrder
<1>3. CASE PopUnlock
  <2>1. q = <<Head(q)>> \o Tail(q) /\ Passing = <<>>
    BY <1>1, <1>3 DEF PopUnlock, Checked, Passing
  <2>2. Passing' = <<Head(q)>> /\ q' = Tail(q) /\ taken' = taken /\ entered' = entered
    BY <1>3 DEF PopUnlock, Passing, Rest
  <2>3. <<Head(q)>> \in Seq(Datagrams) /\ Tail(q) \in Seq(Datagrams)
    <3>1. q # <<>>
      BY <1>3 DEF PopUnlock, Checked
    <3>2. QED BY <1>1, <3>1, HeadTailProperties
  <2>4. (taken \o <<Head(q)>>) \o Tail(q) = taken \o (<<Head(q)>> \o Tail(q))
    <3>1. \A h, r \in Seq(Datagrams) : (taken \o h) \o r = taken \o (h \o r)
      BY <1>1, Regroup, Zenon
    <3>2. QED BY <2>3, <3>1, SMT
  <2>5. taken \o <<>> = taken
    BY <1>1, ConcatEmptySeq
  <2>6. QED BY <2>1, <2>2, <2>4, <2>5 DEF InOrder
<1>4. CASE Receive
  <2>1. Passing = front /\ Passing' = <<>> /\ taken' = taken \o front
        /\ q' = q /\ entered' = entered
    BY <1>4 DEF Receive, Passing
  <2>2. taken \o front \o <<>> = taken \o front
    BY <1>1, ConcatProperties, ConcatEmptySeq
  <2>3. QED BY <2>1, <2>2 DEF InOrder
<1>5. ASSUME UNCHANGED <<entered, taken, q, front>>,
             handler # "receive", handler' # "receive"
      PROVE  InOrder'
  BY <1>5 DEF InOrder, Passing
<1>6. ASSUME UNCHANGED <<entered, taken, q, front, handler>> PROVE InOrder'
  BY <1>6 DEF InOrder, Passing
<1>7. ASSUME NEW d \in Datagrams, RecvFrom(d) PROVE InOrder'
  BY <1>6, <1>7 DEF RecvFrom
<1>8. CASE RecvFails \/ EnqueueLock \/ Main \/ HandlerSend
  BY <1>6, <1>8
  DEF RecvFails, EnqueueLock, Main, OpenLog, CloseLog, Broadcast, MainSend,
      BroadcastReturns, Joined, HandlerSend
<1>9. CASE DequeueLock \/ Check \/ Wait \/ SpuriousWake
  BY <1>5, <1>9 DEF DequeueLock, Check, Wait, SpuriousWake
<1>10. CASE NotifyUnlock
  BY <1>10 DEF NotifyUnlock, Woken, InOrder, Passing
<1>11. CASE ReceiveReturns
  BY <1>11 DEF ReceiveReturns, InOrder, Passing
<1>12. QED
  BY <1>2, <1>3, <1>4, <1>7, <1>8, <1>9, <1>10, <1>11 DEF Next, Enqueue, Handle

LEMMA FileStep ==
    ASSUME TypeOK, Carried, FileFollows, LogKeepsRows, Next
    PROVE  FileFollows' /\ LogKeepsRows'
<1>1. csv \in Seq(Line) /\ rows \in Seq(Line) /\ Len(rows) \in Nat
      /\ cut \in 0 .. Len(rows)
  BY LenProperties DEF TypeOK
<1>2. ASSUME NEW row \in Line, AppendRecord(row), UNCHANGED <<main, cut>>
      PROVE  FileFollows' /\ LogKeepsRows'
  <2>1. csv' = Append(csv, row) /\ rows' = Append(rows, row)
    BY <1>2 DEF AppendRecord
  <2>2. \A k \in 0 .. Len(rows) :
            /\ SubSeq(rows, k + 1, Len(rows)) \in Seq(Line)
            /\ Len(rows') = Len(rows) + 1
            /\ SubSeq(rows', k + 1, Len(rows'))
                    = Append(SubSeq(rows, k + 1, Len(rows)), row)
    BY <1>1, <2>1, AppendToTail
  <2>3. FileFollows'
    <3>1. SUFFICES ASSUME main = "header"
                   PROVE  \E k \in 0 .. Len(rows') :
                              csv' = SubSeq(rows', k + 1, Len(rows'))
      BY <1>2 DEF FileFollows
    <3>2. PICK k \in 0 .. Len(rows) : csv = SubSeq(rows, k + 1, Len(rows))
      BY <3>1 DEF FileFollows
    <3>3. csv' = SubSeq(rows', k + 1, Len(rows')) /\ k \in 0 .. Len(rows')
      <4>1. csv' = SubSeq(rows', k + 1, Len(rows'))
        BY <2>1, <2>2, <3>2, Zenon
      <4>2. Len(rows') = Len(rows) + 1
        BY <2>2, Zenon
      <4>3. k \in 0 .. Len(rows')
        BY <1>1, <4>2
      <4>4. QED BY <4>1, <4>3, Zenon
    <3>4. QED BY <3>3, Zenon
  <2>4. LogKeepsRows'
    <3>1. SUFFICES ASSUME main \notin {"open", "header"} PROVE LogKeepsRows'
      BY <1>2 DEF LogKeepsRows
    <3>2. ASSUME NEW head \in Seq(Line), NEW k \in 0 .. cut,
                 csv = head \o SubSeq(rows, k + 1, Len(rows))
          PROVE  csv' = head \o SubSeq(rows', k + 1, Len(rows'))
      <4>1. k \in 0 .. Len(rows)
        BY <1>1
      <4>2. SubSeq(rows, k + 1, Len(rows)) \in Seq(Line)
        BY <2>2, <4>1
      <4>3. Append(head \o SubSeq(rows, k + 1, Len(rows)), row)
                = head \o Append(SubSeq(rows, k + 1, Len(rows)), row)
        BY <1>2, <3>2, <4>2, AppendConcat, Zenon
      <4>4. QED BY <2>1, <2>2, <3>2, <4>1, <4>3, Zenon
    <3>3. <<Header>> \in Seq(Line) /\ <<Header, Damaged>> \in Seq(Line)
      BY RowsAreLines
    <3>4. CASE \E k \in 0 .. cut : csv = <<Header>> \o SubSeq(rows, k + 1, Len(rows))
      BY <1>2, <3>2, <3>3, <3>4 DEF LogKeepsRows
    <3>5. CASE \E k \in 1 .. cut :
                  csv = <<Header, Damaged>> \o SubSeq(rows, k + 1, Len(rows))
      <4>1. PICK k \in 1 .. cut :
                csv = <<Header, Damaged>> \o SubSeq(rows, k + 1, Len(rows))
        BY <3>5
      <4>2. k \in 0 .. cut
        BY <1>1
      <4>3. csv' = <<Header, Damaged>> \o SubSeq(rows', k + 1, Len(rows'))
        BY <3>2, <3>3, <4>1, <4>2, Zenon
      <4>4. QED BY <1>2, <4>3, Zenon DEF LogKeepsRows
    <3>6. QED BY <3>1, <3>4, <3>5 DEF LogKeepsRows
  <2>5. QED BY <2>3, <2>4
<1>3. CASE Receive \/ HandlerSend
  <2>1. PICK d \in Datagrams : front = <<d>>
    BY <1>3 DEF TypeOK, Carried, Receive, HandlerSend, AtMostOne
  <2>2. (AppendRecord(Row("received", d)) \/ AppendRecord(Row("sent", d)))
        /\ UNCHANGED <<main, cut>>
    BY <1>3, <2>1 DEF Receive, HandlerSend
  <2>3. QED BY <1>2, <2>2, RowsAreLines
<1>4. CASE MainSend
  BY <1>2, <1>4, RowsAreLines DEF MainSend
<1>5. CASE OpenLog
  <2>1. csv' = <<>> /\ main' = "header" /\ rows' = rows
    BY <1>5 DEF OpenLog
  <2>2. SubSeq(rows, Len(rows) + 1, Len(rows)) = <<>>
    BY <1>1, SubSeqEmpty
  <2>3. FileFollows'
    <3>1. Len(rows) \in 0 .. Len(rows)
      BY <1>1
    <3>2. csv' = SubSeq(rows', Len(rows) + 1, Len(rows')) /\ Len(rows) \in 0 .. Len(rows')
      BY <2>1, <2>2, <3>1, Zenon
    <3>3. QED BY <3>2, Zenon DEF FileFollows
  <2>4. LogKeepsRows'
    BY <2>1, Zenon DEF LogKeepsRows
  <2>5. QED BY <2>3, <2>4
<1>6. CASE CloseLog
  <2>1. PICK k \in 0 .. Len(rows) : csv = SubSeq(rows, k + 1, Len(rows))
    BY <1>6 DEF CloseLog, FileFollows
  <2>2. main' # "header" /\ cut' = Len(rows) /\ rows' = rows
    BY <1>6 DEF CloseLog
  <2>3. CASE csv = <<>>
    <3>1. csv' = <<Header>> /\ SubSeq(rows, Len(rows) + 1, Len(rows)) = <<>>
      BY <1>1, <1>6, <2>3, SubSeqEmpty DEF CloseLog
    <3>2. csv' = <<Header>> \o SubSeq(rows, Len(rows) + 1, Len(rows))
      BY <3>1
    <3>3. Len(rows) \in 0 .. Len(rows)
      BY <1>1
    <3>4. \E i \in 0 .. cut' : csv' = <<Header>> \o SubSeq(rows', i + 1, Len(rows'))
      BY <2>2, <3>2, <3>3, Zenon
    <3>5. QED BY <2>2, <3>4, Zenon DEF FileFollows, LogKeepsRows
  <2>4. CASE csv # <<>>
    <3>1. k + 1 \in 1 .. Len(rows) /\ Len(rows) \in k + 1 .. Len(rows)
      <4>1. k # Len(rows)
        BY <1>1, <2>1, <2>4, SubSeqEmpty
      <4>2. QED BY <1>1, <4>1
    <3>2. Tail(csv) = SubSeq(rows, (k + 1) + 1, Len(rows))
      BY <1>1, <2>1, <3>1, HeadTailOfSubSeq
    <3>3. csv' = <<Header, Damaged>> \o SubSeq(rows, (k + 1) + 1, Len(rows))
      BY <1>6, <2>4, <3>2 DEF CloseLog
    <3>4. \E i \in 1 .. cut' :
              csv' = <<Header, Damaged>> \o SubSeq(rows', i + 1, Len(rows'))
      BY <2>2, <3>1, <3>3, Zenon
    <3>5. QED BY <2>2, <3>4, Zenon DEF FileFollows, LogKeepsRows
  <2>5. QED BY <2>3, <2>4
<1>7. ASSUME UNCHANGED <<main, csv, rows, cut>> PROVE FileFollows' /\ LogKeepsRows'
  BY <1>7 DEF FileFollows, LogKeepsRows
<1>8. CASE Broadcast \/ BroadcastReturns \/ Joined
  BY <1>1, <1>8 DEF Broadcast, BroadcastReturns, Joined, FileFollows, LogKeepsRows
<1>9. ASSUME NEW d \in Datagrams, RecvFrom(d) PROVE FileFollows' /\ LogKeepsRows'
  BY <1>7, <1>9 DEF RecvFrom
<1>10. CASE RecvFails \/ Enqueue \/ SpuriousWake
  BY <1>7, <1>10
  DEF RecvFails, Enqueue, EnqueueLock, Push, NotifyUnlock, SpuriousWake
<1>11. CASE DequeueLock \/ Check \/ Wait \/ PopUnlock \/ ReceiveReturns
  BY <1>7, <1>11 DEF DequeueLock, Check, Wait, PopUnlock, ReceiveReturns
<1>12. QED
  BY <1>3, <1>4, <1>5, <1>6, <1>8, <1>9, <1>10, <1>11 DEF Next, Handle, Main

-----------------------------------------------------------------------------
(***************************************************************************)
(* The invariant holds, of every number of datagrams and sends.            *)
(***************************************************************************)
THEOREM Invariance == Spec => []IInv
<1>1. Init => IInv
  <2> SUFFICES ASSUME Init PROVE IInv
    OBVIOUS
  <2>1. TypeOK
    BY ProcessAssumption, EmptySeq DEF Init, TypeOK, AtMostOne
  <2>2. InOrder
    BY DEF Init, InOrder, Passing
  <2>3. QED
    BY <2>1, <2>2
    DEF Init, IInv, Locked, Carried, Checked, NoLostWakeup, FileFollows, LogKeepsRows
<1>2. IInv /\ [Next]_vars => IInv'
  <2>1. ASSUME IInv, Next PROVE IInv'
    BY <2>1, TypeStep, ControlStep, OrderStep, FileStep DEF IInv
  <2>2. ASSUME IInv, UNCHANGED vars PROVE IInv'
    <3>1. TypeOK'
      BY <2>2 DEF vars, IInv, TypeOK
    <3>2. Locked' /\ Carried' /\ Checked' /\ NoLostWakeup'
      BY <2>2 DEF vars, IInv, Locked, Carried, Checked, NoLostWakeup
    <3>3. InOrder' /\ FileFollows' /\ LogKeepsRows'
      BY <2>2 DEF vars, IInv, InOrder, Passing, FileFollows, LogKeepsRows
    <3>4. QED BY <3>1, <3>2, <3>3 DEF IInv
  <2>3. QED BY <2>1, <2>2
<1>3. QED BY <1>1, <1>2, PTL DEF Spec

(***************************************************************************)
(* AtomicQueue loses no wakeup: the handler thread never waits over a      *)
(* queue with something in it unless it is about to be notified.           *)
(***************************************************************************)
THEOREM WakeupsKept == Spec => []NoLostWakeup
<1>1. IInv => NoLostWakeup
  BY DEF IInv
<1>2. QED BY <1>1, Invariance, PTL

(***************************************************************************)
(* Of all rows that two threads append to the csv file only such are       *)
(* missing or damaged as came before main had written the header.          *)
(***************************************************************************)
THEOREM RowsKept == Spec => []LogKeepsRows
<1>1. IInv => LogKeepsRows
  BY DEF IInv
<1>2. QED BY <1>1, Invariance, PTL

(***************************************************************************)
(* The transport hands PeerManager what its receiver thread got, in order  *)
(* and once: it implements FifoChannel.                                    *)
(***************************************************************************)
THEOREM Refinement == Spec => ImplementsChannel
<1>1. Init => Channel!Init
  BY DEF Init, Channel!Init
<1>2. IInv /\ [Next]_vars => [Channel!Next]_<<entered, taken>>
  <2> SUFFICES ASSUME IInv, Next, ~UNCHANGED <<entered, taken>>
               PROVE  Channel!Next
    BY DEF vars
  <2>1. CASE Push
    <3>1. PICK d \in Datagrams : received = <<d>>
      BY <2>1 DEF IInv, TypeOK, Carried, Push, AtMostOne
    <3>2. entered \o <<d>> = Append(entered, d)
      BY AppendIsConcat DEF IInv, TypeOK
    <3>3. Channel!Enter(d)
      BY <2>1, <3>1, <3>2 DEF Push, Channel!Enter
    <3>4. QED BY <3>3 DEF Channel!Next
  <2>2. CASE Receive
    <3>1. PICK d \in Datagrams : front = <<d>>
      BY <2>2 DEF IInv, TypeOK, Carried, Receive, AtMostOne
    <3>2. taken \in Seq(Datagrams) /\ q \in Seq(Datagrams)
      BY DEF IInv, TypeOK
    <3>3. entered = (taken \o <<d>>) \o q
      BY <2>2, <3>1 DEF IInv, InOrder, Passing, Receive
    <3>4. Len(taken) < Len(entered) /\ entered[Len(taken) + 1] = d
      BY <3>2, <3>3
    <3>5. taken' = Append(taken, d) /\ entered' = entered
      BY <2>2, <3>1, <3>2, AppendIsConcat DEF Receive
    <3>6. Channel!Take
      BY <3>4, <3>5 DEF Channel!Take
    <3>7. QED BY <3>6 DEF Channel!Next
  <2>3. ASSUME NEW d \in Datagrams, RecvFrom(d) PROVE FALSE
    BY <2>3 DEF RecvFrom
  <2>4. CASE RecvFails \/ EnqueueLock \/ NotifyUnlock \/ SpuriousWake \/ Main
    BY <2>4
    DEF RecvFails, EnqueueLock, NotifyUnlock, SpuriousWake, Main, OpenLog, CloseLog,
        Broadcast, MainSend, BroadcastReturns, Joined
  <2>5. CASE DequeueLock \/ Check \/ Wait \/ PopUnlock \/ HandlerSend \/ ReceiveReturns
    BY <2>5 DEF DequeueLock, Check, Wait, PopUnlock, HandlerSend, ReceiveReturns
  <2>6. QED BY <2>1, <2>2, <2>3, <2>4, <2>5 DEF Next, Enqueue, Handle
<1>3. QED BY <1>1, <1>2, Invariance, PTL DEF Spec, ImplementsChannel, Channel!Spec

=============================================================================
