------------------------- MODULE StreamItems_proofs -------------------------
(***************************************************************************)
(* Proofs about StreamItems, for any file and any queue of two places or   *)
(* more: the types, the one more row after a stop, and that the thread,    *)
(* the queue and the generator implement the stream of rows.               *)
(***************************************************************************)
EXTENDS StreamItems, TLAPS

Reading == consumer \in {"getting", "yielded"}

(* The stop event belongs to the reader, and is looked at behind each row. *)
Stopping ==
  /\ Reading => ~stop /\ why = "-"
  /\ ~Reading => stop /\ why # "-"
  /\ ~stop => extra = 0
  /\ producer \in {"pulling", "putting"} => extra = 0
  /\ extra <= 1

(* The parse has come to its end, or to an error, behind the last row.     *)
Over == IF error THEN BreaksAfter(file, pulled) ELSE NoMore(file, pulled)

Before(p, q, i) == IF i = 1 THEN p ELSE q[i - 1]
LastRow(p, q) == IF q = <<>> THEN p ELSE q[Len(q)]

(* As long as somebody reads, the rows between the last one handed on and  *)
(* the last one parsed are in the queue or in the thread's hand, in file   *)
(* order, and END is behind them all.                                      *)
InOrder ==
  /\ \A i \in 1..Len(queue) : queue[i] # END => Follows(file, Before(pos, queue, i), queue[i])
  /\ \A i \in 1..Len(queue) : queue[i] = END => i = Len(queue) /\ producer = "done"
  /\ producer = "pulling" => pulled = LastRow(pos, queue)
  /\ producer \in {"checking", "putting"} => Follows(file, LastRow(pos, queue), pulled)
  /\ producer = "ending" => pulled = LastRow(pos, queue)
  /\ producer = "done" => /\ queue # <<>> /\ queue[Len(queue)] = END
                          /\ pulled = Before(pos, queue, Len(queue))

IInv ==
  /\ TypeOK
  /\ Stopping
  /\ Reading => InOrder /\ (producer \in {"ending", "done"} => Over)
  /\ producer \notin {"ending", "done"} => ~error
  /\ why = "end" => producer = "done" /\ pos = pulled /\ Over

-----------------------------------------------------------------------------
(* Files and queues.                                                       *)

LEMMA PlaceTypes ==
  ASSUME TypeOK PROVE Places(file) \subseteq 1..NumPieces
<1>1. PICK k \in 0..NumPieces : file.pieces \in [1..k -> Pieces]
  BY DEF TypeOK, Files
<1> QED
  BY <1>1, StreamAssumption DEF Places

LEMMA FollowsType ==
  ASSUME TypeOK, NEW p, NEW q, Follows(file, p, q) PROVE q \in 1..NumPieces /\ q # END
BY PlaceTypes, StreamAssumption DEF Follows, IsRow, END

LEMMA LenTail ==
  ASSUME NEW S, NEW q \in Seq(S), q # <<>>
  PROVE  Len(q) \in Nat \ {0} /\ Len(Tail(q)) = Len(q) - 1 /\ Tail(q) \in Seq(S)
OBVIOUS

LEMMA HeadTail ==
  ASSUME NEW S, NEW q \in Seq(S), q # <<>>
  PROVE  /\ Head(q) = q[1] /\ Head(q) \in S
         /\ \A i \in 1..Len(Tail(q)) : Tail(q)[i] = q[i + 1]
OBVIOUS

LEMMA NoRows ==
  ASSUME NEW S, NEW q \in Seq(S), Len(q) = 0 PROVE q = <<>>
OBVIOUS

LEMMA TailQueue ==
  ASSUME TypeOK, queue # <<>>
  PROVE  /\ Tail(queue) \in Seq(0..NumPieces) /\ Len(Tail(queue)) = Len(queue) - 1
         /\ Len(queue) \in Nat \ {0} /\ Head(queue) = queue[1]
         /\ \A i \in 1..Len(Tail(queue)) : Tail(queue)[i] = queue[i + 1]
         /\ Head(queue) \in 0..NumPieces
<1>1. queue \in Seq(0..NumPieces)
  BY DEF TypeOK
<1> QED
  BY <1>1, LenTail, HeadTail, Zenon

LEMMA EmptyQueue == ASSUME queue = <<>> PROVE Len(queue) = 0
OBVIOUS

LEMMA PutQueue ==
  ASSUME TypeOK, NEW x \in 0..NumPieces
  PROVE  LET q == Append(queue, x) IN
         /\ q \in Seq(0..NumPieces) /\ Len(q) = Len(queue) + 1
         /\ Len(queue) \in Nat /\ q # <<>>
         /\ \A i \in 1..Len(queue) : q[i] = queue[i]
         /\ q[Len(queue) + 1] = x
BY SMT DEF TypeOK

LEMMA StreamInit == Init => IInv
<1> SUFFICES ASSUME Init PROVE IInv
  OBVIOUS
<1>1. TypeOK
  <2>1. queue \in Seq(0..NumPieces) /\ Len(queue) <= Bound
    BY StreamAssumption DEF Init
  <2>2. pulled \in 0..NumPieces /\ pos \in 0..NumPieces
    BY StreamAssumption DEF Init
  <2> QED
    BY <2>1, <2>2 DEF Init, TypeOK
<1>2. Stopping /\ InOrder
  BY DEF Init, Stopping, Reading, InOrder, LastRow
<1> QED
  BY <1>1, <1>2 DEF Init, IInv

-----------------------------------------------------------------------------
(* The steps.                                                              *)

LEMMA PullRowStep == IInv /\ PullRow => IInv'
<1> SUFFICES ASSUME IInv, PullRow PROVE IInv'
  OBVIOUS
<1>1. Follows(file, pulled, pulled') /\ pulled' \in 1..NumPieces
  BY FollowsType DEF PullRow, IInv
<1>2. TypeOK'
  BY <1>1 DEF IInv, TypeOK, PullRow, readerVars
<1>3. Stopping'
  BY DEF IInv, TypeOK, PullRow, readerVars, Stopping, Reading
<1>4. Reading => InOrder'
  BY <1>1 DEF IInv, PullRow, readerVars, InOrder, Before, LastRow, END
<1> QED
  BY <1>2, <1>3, <1>4 DEF IInv, PullRow, readerVars, Reading, Stopping

LEMMA PullEndStep == IInv /\ (PullNothing \/ PullRaises) => IInv'
<1> SUFFICES ASSUME IInv, PullNothing \/ PullRaises PROVE IInv'
  OBVIOUS
<1> USE DEF PullNothing, PullRaises, readerVars
<1>1. TypeOK'
  BY DEF IInv, TypeOK
<1>2. Stopping'
  BY DEF IInv, Stopping, Reading
<1>3. Reading => InOrder'
  BY DEF IInv, InOrder, Before, LastRow, END
<1>4. Over'
  BY DEF IInv, Over, TypeOK, NoMore, BreaksAfter
<1> QED
  BY <1>1, <1>2, <1>3, <1>4 DEF IInv, Reading

LEMMA CheckStopStep == IInv /\ CheckStop => IInv'
<1> SUFFICES ASSUME IInv, CheckStop PROVE IInv'
  OBVIOUS
<1> USE DEF CheckStop, readerVars
<1>1. TypeOK' /\ Stopping'
  BY DEF IInv, TypeOK, Stopping, Reading
<1>2. Reading => producer' = "putting"
  BY DEF IInv, Stopping
<1>3. Reading => InOrder'
  BY <1>2 DEF IInv, InOrder, Before, LastRow, END
<1> QED
  BY <1>1, <1>2, <1>3 DEF IInv, Reading, Stopping

LEMMA PutRowStep == IInv /\ PutRow => IInv'
<1> SUFFICES ASSUME IInv, PutRow PROVE IInv'
  OBVIOUS
<1> USE DEF PutRow, readerVars
<1>0. pulled \in 0..NumPieces /\ TypeOK
  BY DEF IInv, TypeOK
<1>1. /\ queue' \in Seq(0..NumPieces) /\ Len(queue') = Len(queue) + 1
      /\ Len(queue) \in Nat /\ queue' # <<>>
      /\ \A i \in 1..Len(queue) : queue'[i] = queue[i]
      /\ queue'[Len(queue) + 1] = pulled
  BY <1>0, PutQueue
<1>2. TypeOK' /\ Stopping'
  BY <1>1, StreamAssumption DEF IInv, TypeOK, Stopping, Reading, HasRoom
<1>3. ASSUME Reading PROVE InOrder'
  <2>1. InOrder /\ Follows(file, LastRow(pos, queue), pulled) /\ pulled # END
    BY <1>0, <1>3, FollowsType DEF IInv, InOrder
  <2>2. ASSUME NEW i \in 1..Len(queue')
        PROVE  queue'[i] # END /\ Follows(file', Before(pos', queue', i), queue'[i])
    <3>1. CASE i \in 1..Len(queue)
      <4>1. queue[i] # END
        BY <2>1, <3>1 DEF InOrder
      <4>2. Before(pos', queue', i) = Before(pos, queue, i)
        BY <1>1, <3>1 DEF Before
      <4> QED
        BY <1>1, <2>1, <3>1, <4>1, <4>2 DEF InOrder
    <3>2. CASE i = Len(queue) + 1
      <4>1. Before(pos', queue', i) = LastRow(pos, queue)
        <5>1. CASE queue = <<>>
          BY <5>1, <3>2 DEF Before, LastRow
        <5>2. CASE queue # <<>>
          <6>1. Len(queue) \in 1..Len(queue) /\ i # 1
            BY <1>0, <1>1, <3>2, <5>2, TailQueue
          <6> QED
            BY <1>1, <3>2, <5>2, <6>1 DEF Before, LastRow
        <5> QED
          BY <5>1, <5>2
      <4> QED
        BY <1>1, <2>1, <3>2, <4>1
    <3> QED
      BY <1>1, <3>1, <3>2
  <2>3. pulled' = LastRow(pos', queue')
    BY <1>1 DEF LastRow
  <2> QED
    BY <2>2, <2>3 DEF InOrder
<1> QED
  BY <1>2, <1>3 DEF IInv, Reading, Stopping

LEMMA PutEndStep == IInv /\ PutEnd => IInv'
<1> SUFFICES ASSUME IInv, PutEnd PROVE IInv'
  OBVIOUS
<1> USE DEF PutEnd, readerVars
<1>0. END \in 0..NumPieces /\ TypeOK
  BY StreamAssumption DEF IInv, TypeOK, END
<1>1. /\ queue' \in Seq(0..NumPieces) /\ Len(queue') = Len(queue) + 1
      /\ Len(queue) \in Nat /\ queue' # <<>>
      /\ \A i \in 1..Len(queue) : queue'[i] = queue[i]
      /\ queue'[Len(queue) + 1] = END
  BY <1>0, PutQueue
<1>2. TypeOK' /\ Stopping'
  BY <1>1, StreamAssumption DEF IInv, TypeOK, Stopping, Reading, HasRoom
<1>3. ASSUME Reading PROVE InOrder'
  <2>1. InOrder /\ pulled = LastRow(pos, queue)
    BY <1>3 DEF IInv, InOrder
  <2>2. ASSUME NEW i \in 1..Len(queue)
        PROVE  queue'[i] # END /\ Follows(file', Before(pos', queue', i), queue'[i])
    <3>1. queue[i] # END
      BY <2>1 DEF InOrder
    <3>2. Before(pos', queue', i) = Before(pos, queue, i)
      BY <1>1 DEF Before
    <3> QED
      BY <1>1, <2>1, <3>1, <3>2 DEF InOrder
  <2>3. pulled' = Before(pos', queue', Len(queue'))
    <3>1. CASE queue = <<>>
      BY <1>1, <2>1, <3>1 DEF Before, LastRow
    <3>2. CASE queue # <<>>
      <4>1. Len(queue) \in 1..Len(queue) /\ Len(queue') # 1
        BY <1>0, <1>1, <3>2, TailQueue
      <4> QED
        BY <1>1, <2>1, <3>2, <4>1 DEF Before, LastRow
    <3> QED
      BY <3>1, <3>2
  <2> QED
    BY <1>1, <2>2, <2>3 DEF InOrder
<1> QED
  BY <1>2, <1>3 DEF IInv, Reading, Stopping, Over

LEMMA GetStep == IInv /\ Get => IInv' /\ Follows(file, pos, pos')
<1> SUFFICES ASSUME IInv, Get PROVE IInv' /\ Follows(file, pos, pos')
  OBVIOUS
<1> USE DEF Get, threadVars
<1>1. /\ queue' \in Seq(0..NumPieces) /\ Len(queue') = Len(queue) - 1
      /\ Len(queue) \in Nat \ {0} /\ pos' = queue[1] /\ queue[1] # END
      /\ \A i \in 1..Len(queue') : queue'[i] = queue[i + 1]
      /\ pos' \in 0..NumPieces
  BY TailQueue DEF IInv
<1>2. InOrder /\ Reading
  BY DEF IInv, Reading
<1>3. TypeOK' /\ Stopping'
  BY <1>1, StreamAssumption DEF IInv, TypeOK, Stopping, Reading
<1>4. ASSUME NEW i \in 1..Len(queue') PROVE Before(pos', queue', i) = Before(pos, queue, i + 1)
  BY <1>1 DEF Before
<1>5. queue' = <<>> <=> Len(queue) = 1
  <2>1. queue' = <<>> => Len(queue') = 0
    OBVIOUS
  <2>2. Len(queue') = 0 => queue' = <<>>
    BY <1>1, NoRows
  <2> QED
    BY <1>1, <2>1, <2>2
<1>6. LastRow(pos', queue') = LastRow(pos, queue)
  BY <1>1, <1>5 DEF LastRow
<1>7. ASSUME NEW i \in 1..Len(queue')
       PROVE  /\ queue'[i] # END => Follows(file', Before(pos', queue', i), queue'[i])
              /\ queue'[i] = END => i = Len(queue') /\ producer' = "done"
  <2>1. i + 1 \in 1..Len(queue) /\ queue'[i] = queue[i + 1]
    BY <1>1
  <2>2. /\ queue[i + 1] # END => Follows(file, Before(pos, queue, i + 1), queue[i + 1])
        /\ queue[i + 1] = END => i + 1 = Len(queue) /\ producer = "done"
    BY <1>2, <2>1, Zenon DEF InOrder
  <2>3. Before(pos', queue', i) = Before(pos, queue, i + 1) /\ UNCHANGED <<file, producer>>
    BY <1>4
  <2>4. i + 1 = Len(queue) => i = Len(queue')
    <3>1. Len(queue') = Len(queue) - 1 /\ i \in Int /\ Len(queue) \in Int
      BY <1>1
    <3> QED
      BY ONLY <3>1
  <2> QED
    BY <2>1, <2>2, <2>3, <2>4
<1>8. producer # "done" => InOrder'
  BY <1>2, <1>6, <1>7 DEF InOrder
<1>9. ASSUME producer = "done" PROVE InOrder'
  <2>1. Len(queue) # 1
    BY <1>1, <1>2, <1>9 DEF InOrder
  <2>2. Len(queue') \in 1..Len(queue') /\ queue' # <<>> /\ Len(queue') + 1 = Len(queue)
    BY <1>1, <1>5, <2>1
  <2>3. Before(pos', queue', Len(queue')) = Before(pos, queue, Len(queue)) /\ queue'[Len(queue')] = queue[Len(queue)]
    BY <1>1, <1>4, <2>2
  <2> QED
    BY <1>2, <1>9, <1>7, <2>2, <2>3 DEF InOrder
<1>10. Follows(file, pos, pos')
  <2>1. 1 \in 1..Len(queue) /\ Before(pos, queue, 1) = pos
    BY <1>1 DEF Before
  <2> QED
    BY <1>1, <1>2, <2>1 DEF InOrder
<1> QED
  BY <1>3, <1>8, <1>9, <1>10 DEF IInv, Reading, Over, Stopping

LEMMA GetEndStep == IInv /\ GetEnd => IInv'
<1> SUFFICES ASSUME IInv, GetEnd PROVE IInv'
  OBVIOUS
<1> USE DEF GetEnd, LeaveLoop, threadVars
<1>1. /\ queue' \in Seq(0..NumPieces) /\ Len(queue') = Len(queue) - 1
      /\ Len(queue) \in Nat \ {0} /\ queue[1] = END
  BY TailQueue DEF IInv
<1>2. InOrder /\ Reading
  BY DEF IInv, Reading
<1>3. Len(queue) = 1 /\ producer = "done" /\ pulled = pos
  <2>1. 1 \in 1..Len(queue) /\ Before(pos, queue, 1) = pos
    BY <1>1 DEF Before
  <2> QED
    BY <1>1, <1>2, <2>1 DEF InOrder
<1>4. TypeOK'
  BY <1>1, StreamAssumption DEF IInv, TypeOK
<1>5. Stopping' /\ ~Reading'
  BY DEF IInv, Stopping, Reading
<1> QED
  BY <1>2, <1>3, <1>4, <1>5 DEF IInv, Over

LEMMA StreamStep == IInv /\ [Next]_vars => IInv'
<1> SUFFICES ASSUME IInv, [Next]_vars PROVE IInv'
  OBVIOUS
<1>1. CASE Ask
  BY <1>1 DEF Ask, IInv, TypeOK, Stopping, Reading, InOrder, Before, LastRow, Over, threadVars
<1>2. CASE Close \/ CancelGet
  <2>1. TypeOK' /\ Stopping' /\ ~Reading' /\ why' # "end"
    BY <1>2 DEF Close, CancelGet, LeaveLoop, IInv, TypeOK, Stopping, Reading, threadVars
  <2> QED
    BY <1>2, <2>1 DEF Close, CancelGet, LeaveLoop, IInv, threadVars
<1>3. CASE Drain
  <2>1. queue' \in Seq(0..NumPieces) /\ Len(queue') <= Bound
    BY <1>3, TailQueue, StreamAssumption DEF Drain, IInv, TypeOK
  <2>2. TypeOK' /\ Stopping' /\ ~Reading'
    BY <1>3, <2>1 DEF Drain, IInv, TypeOK, Stopping, Reading, threadVars, readerVars
  <2> QED
    BY <1>3, <2>2 DEF Drain, IInv, threadVars, readerVars
<1>4. CASE CancelDrain
  BY <1>4 DEF CancelDrain, IInv, TypeOK, Stopping, Reading, threadVars
<1>5. CASE Finish
  BY <1>5 DEF Finish, IInv, TypeOK, Stopping, Reading, Over, threadVars
<1>6. CASE UNCHANGED vars
  BY <1>6 DEF vars, threadVars, readerVars, IInv, TypeOK, Stopping, Reading, InOrder,
              Before, LastRow, Over
<1> QED
  BY <1>1, <1>2, <1>3, <1>4, <1>5, <1>6, PullRowStep, PullEndStep, CheckStopStep,
     PutRowStep, PutEndStep, GetStep, GetEndStep DEF Next, Producer, Consumer, Reader

LEMMA StreamInvariant == Spec => []IInv
BY StreamInit, StreamStep, PTL DEF Spec

(* Every variable keeps its type, and the queue its bound.                 *)
THEOREM StreamTyped == Spec => []TypeOK
BY StreamInvariant, PTL DEF IInv

(* After the reader has turned away the thread reads at most one more row. *)
THEOREM AtMostOneMore == Spec => []OneMoreRow
<1>1. IInv => OneMoreRow
  BY DEF IInv, Stopping, OneMoreRow
<1> QED
  BY <1>1, StreamInvariant, PTL

(* Both modules read the file in the same way.                             *)
LEMMA SameFile ==
  ASSUME NEW f, NEW p, NEW q
  PROVE  /\ Stream!Places(f) = Places(f)
         /\ Stream!Follows(f, p, q) = Follows(f, p, q)
         /\ Stream!NoMore(f, p) = NoMore(f, p)
         /\ Stream!BreaksAfter(f, p) = BreaksAfter(f, p)
BY DEF Places, Follows, NoMore, BreaksAfter, IsRow, Kind, Parsed, Stream!Places,
       Stream!Follows, Stream!NoMore, Stream!BreaksAfter, Stream!IsRow, Stream!Kind,
       Stream!Parsed

LEMMA StreamSimulates ==
  IInv /\ [Next]_vars => [Stream!Next]_<<file, pos, Ending>>
<1> SUFFICES ASSUME IInv, [Next]_vars
             PROVE  Stream!Next \/ UNCHANGED <<file, pos, Ending>>
  OBVIOUS
<1>1. CASE Producer
  BY <1>1 DEF Producer, PullRow, PullNothing, PullRaises, CheckStop, PutRow, PutEnd,
              readerVars, Ending, IInv, Stopping, Reading
<1>2. CASE Get
  <2>1. Follows(file, pos, pos') /\ pos' \in Places(file)
    BY <1>2, GetStep DEF Follows, IsRow
  <2>2. Ending = "open" /\ Ending' = "open" /\ file' = file
    BY <1>2 DEF Get, Ending
  <2>3. Stream!Hand(pos')
    BY <2>1, <2>2, SameFile DEF Stream!Hand
  <2> QED
    BY <2>1, <2>3, SameFile DEF Stream!Next
<1>3. CASE Ask \/ GetEnd \/ Close \/ CancelGet \/ Drain
  <2>1. Ending = "open" /\ Ending' = "open"
    BY <1>3 DEF Ask, GetEnd, Close, CancelGet, Drain, LeaveLoop, readerVars, Ending
  <2> QED
    BY <1>3, <2>1 DEF Ask, GetEnd, Close, CancelGet, Drain, LeaveLoop, threadVars, readerVars
<1>4. CASE CancelDrain
  <2>1. Ending = "open" /\ Ending' = "left" /\ UNCHANGED <<file, pos>>
    BY <1>4 DEF CancelDrain, Ending
  <2> QED
    BY <2>1 DEF Stream!Next, Stream!Leave
<1>5. CASE Finish
  <2>1. Ending = "open" /\ UNCHANGED <<file, pos, why, error>> /\ consumer' = "ended"
    BY <1>5 DEF Finish, Ending, threadVars
  <2>2. CASE why # "end"
    BY <2>1, <2>2 DEF Ending, Stream!Next, Stream!Leave
  <2>3. CASE why = "end" /\ error
    <3>1. Ending' = "failed" /\ BreaksAfter(file, pos)
      BY <2>1, <2>3 DEF Ending, IInv, Over
    <3> QED
      BY <2>1, <3>1, SameFile DEF Stream!Next, Stream!Failed
  <2>4. CASE why = "end" /\ ~error
    <3>1. Ending' = "complete" /\ NoMore(file, pos)
      BY <2>1, <2>4 DEF Ending, IInv, Over
    <3> QED
      BY <2>1, <3>1, SameFile DEF Stream!Next, Stream!Complete
  <2> QED
    BY <2>2, <2>3, <2>4
<1>6. CASE UNCHANGED vars
  BY <1>6 DEF vars, threadVars, readerVars, Ending
<1> QED
  BY <1>1, <1>2, <1>3, <1>4, <1>5, <1>6 DEF Next, Consumer, Reader

(* The thread, the queue and the generator implement the stream of rows.   *)
THEOREM BridgeImplementsStream == Spec => ImplementsStream
<1>1. Init => Stream!Init
  BY DEF Init, Stream!Init, Ending
<1> QED
  BY <1>1, StreamInvariant, StreamSimulates, PTL DEF Spec, ImplementsStream, Stream!Spec
=============================================================================
