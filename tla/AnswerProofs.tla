---------------------------- MODULE AnswerProofs ----------------------------
(***************************************************************************)
(* How answers get to a client: through the queue of the Java client's     *)
(* ClosableResponseStream, and through the threads with which the sharding *)
(* proxy collects the answers of its backends.                             *)
(***************************************************************************)
EXTENDS ResponseStream, ShardingFanout, TLAPS

\* The time the provers have for a step.
USE SMTT(30), ZenonT(30)

-----------------------------------------------------------------------------
(* ResponseStream: the queue of two places is large enough, and the        *)
(* iteration hands out every answer once, in order and before its end,     *)
(* whatever the number of answers and however the two threads interleave.  *)

\* Queues.
LEMMA EmptyQueue == \A S : <<>> \in Seq(S)
OBVIOUS

LEMMA QueueItem ==
    ASSUME NEW S, NEW q \in Seq(S), NEW i \in 1 .. Len(q)
    PROVE  q[i] \in S
OBVIOUS

LEMMA InitStream == Init => StreamInvariant
<1> SUFFICES ASSUME Init
             PROVE  StreamInvariant
  OBVIOUS
<1>1. TypeOK
  BY EmptyQueue, ZenonT(30) DEF Init, TypeOK
<1>2. BufferShape /\ OneMessage /\ NeverOverflows
  BY MarkersAssumption DEF Init, BufferShape, OneMessage, HoldsMessage, NeverOverflows
<1> QED
  BY <1>1, <1>2 DEF StreamInvariant

\* What add does to a queue with room for the item.
LEMMA Added ==
    ASSUME TypeOK, NEW item \in Item, Len(buffer) < Capacity, add(item)
    PROVE  /\ buffer' = Append(buffer, item) /\ overflow' = overflow
           /\ buffer' \in Seq(Item) /\ Len(buffer') = Len(buffer) + 1
           /\ buffer' # <<>>
           /\ buffer'[Len(buffer) + 1] = item
           /\ \A i \in 1 .. Len(buffer) : buffer'[i] = buffer[i]
<1>1. buffer \in Seq(Item)
  BY DEF TypeOK
<1>2. buffer' = Append(buffer, item) /\ overflow' = overflow
  BY DEF add
<1> QED
  BY <1>1, <1>2

LEMMA NextStream == StreamInvariant /\ [Next]_vars => StreamInvariant'
<1> SUFFICES ASSUME StreamInvariant, [Next]_vars
             PROVE  StreamInvariant'
  OBVIOUS
<1> USE DEF StreamInvariant, TypeOK, NeverOverflows
<1>1. CASE onMessage
  <2>1. buffer = <<>>
    BY <1>1, MarkersAssumption DEF onMessage, BufferShape, OneMessage, HoldsMessage, Item
  <2>2. /\ buffer' = <<delivered + 1>> /\ overflow' = overflow
        /\ delivered + 1 \in Nat
    BY <1>1, <2>1 DEF onMessage, add, Capacity
  <2>3. TypeOK'
    BY <1>1, <2>2 DEF onMessage, user, Item
  <2>4. BufferShape'
    BY <2>2, MarkersAssumption DEF BufferShape
  <2>5. OneMessage'
    BY <1>1, <2>2 DEF onMessage, user, OneMessage, HoldsMessage
  <2> QED
    BY <2>2, <2>3, <2>4, <2>5
<1>2. ASSUME NEW item \in {END, STATUS}, ~done, add(item), done' = TRUE,
             UNCHANGED <<requested, delivered, cancelled, user>>
      PROVE  StreamInvariant'
  <2>1. buffer = <<>> \/ (Len(buffer) = 1 /\ buffer[1] \in Nat)
    <3>1. Len(buffer) = 1 => buffer[1] \in Item
      <4>1. buffer \in Seq(Item)
        OBVIOUS
      <4>2. Len(buffer) = 1 => 1 \in 1 .. Len(buffer)
        OBVIOUS
      <4> QED
        BY <4>1, <4>2, QueueItem, Zenon
    <3> QED
      BY <1>2, <3>1 DEF BufferShape, Item
  <2>2. Len(buffer) < Capacity /\ item \in Item
    <3>1. Len(<<>>) = 0
      OBVIOUS
    <3>2. Len(buffer) = 0 \/ Len(buffer) = 1
      BY <2>1, <3>1
    <3>3. item \in Item
      BY DEF Item
    <3>4. Len(buffer) < Capacity
      BY ONLY <3>2 DEF Capacity
    <3> QED
      BY <3>3, <3>4
  <2>3. /\ buffer' = Append(buffer, item) /\ overflow' = overflow
        /\ buffer' \in Seq(Item) /\ Len(buffer') = Len(buffer) + 1 /\ buffer' # <<>>
        /\ buffer'[Len(buffer) + 1] = item
        /\ \A i \in 1 .. Len(buffer) : buffer'[i] = buffer[i]
    BY <1>2, <2>2, Added
  <2>4. BufferShape'
    BY <1>2, <2>1, <2>3, MarkersAssumption DEF BufferShape
  <2>5. OneMessage'
    <3>1. HoldsMessage' <=> HoldsMessage
      BY <1>2, <2>1, <2>3, MarkersAssumption DEF HoldsMessage
    <3> QED
      BY <1>2, <3>1 DEF OneMessage, user
  <2> QED
    BY <1>2, <2>3, <2>4, <2>5 DEF user
<1>3. CASE onCloseOk
  BY <1>2, <1>3 DEF onCloseOk
<1>4. CASE onCloseError
  BY <1>2, <1>4 DEF onCloseError
<1>5. ASSUME NEW m \in {"hasNext", "next"}, Call(m)
      PROVE  StreamInvariant'
  BY <1>5 DEF Call, listener, BufferShape, OneMessage, HoldsMessage
<1>6. CASE Take
  <2>1. /\ buffer \in Seq(Item) /\ buffer # <<>>
        /\ last' = buffer[1] /\ last' \in Item
        /\ buffer' = Tail(buffer) /\ buffer' \in Seq(Item)
        /\ Len(buffer') = Len(buffer) - 1
        /\ \A i \in 1 .. Len(buffer') : buffer'[i] = buffer[i + 1]
    <3>1. buffer \in Seq(Item) /\ buffer # <<>> /\ last' = Head(buffer) /\ buffer' = Tail(buffer)
      BY <1>6 DEF Take
    <3>2. Head(buffer) = buffer[1]
      BY <3>1
    <3> QED
      BY <3>1, <3>2
  <2>2. Len(buffer') = 0 => buffer' = <<>>
    BY <2>1
  <2>3. \/ Len(buffer) = 1 /\ buffer' = <<>>
        \/ Len(buffer) = 2 /\ Len(buffer') = 1 /\ buffer[1] \in Nat /\ done
              /\ buffer'[1] \in {END, STATUS}
    BY <2>1, <2>2 DEF BufferShape
  <2>4. BufferShape'
    BY <1>6, <2>3 DEF Take, listener, BufferShape
  <2>5. ~HoldsMessage'
    BY <2>3, MarkersAssumption DEF HoldsMessage
  <2>6. last' \in Nat => HoldsMessage
    BY <2>1 DEF HoldsMessage
  <2>7. OneMessage'
    BY <1>6, <2>5, <2>6 DEF Take, OneMessage
  <2> QED
    BY <1>6, <2>1, <2>4, <2>7 DEF Take, listener
<1>7. CASE Answer
  BY <1>7, MarkersAssumption DEF Answer, listener, BufferShape, OneMessage, HoldsMessage, Item
<1>8. CASE Request
  BY <1>8 DEF Request, listener, BufferShape, OneMessage, HoldsMessage
<1>9. CASE Return
  BY <1>9, MarkersAssumption DEF Return, listener, BufferShape, OneMessage, HoldsMessage
<1>10. CASE close
  BY <1>10 DEF close, listener, user, BufferShape, OneMessage, HoldsMessage
<1>11. CASE Interrupted
  BY <1>11 DEF Interrupted, listener, BufferShape, OneMessage, HoldsMessage
<1>12. CASE UNCHANGED vars
  BY <1>12 DEF vars, BufferShape, OneMessage, HoldsMessage
<1> QED
  BY <1>1, <1>3, <1>4, <1>5, <1>6, <1>7, <1>8, <1>9, <1>10, <1>11, <1>12 DEF Next, Grpc, Iterate

\* The strengthened invariant holds throughout.
THEOREM StreamInvariantHolds == Spec => []StreamInvariant
<1> QED
  BY InitStream, NextStream, PTL DEF Spec

\* buffer.add always finds room in the queue.
THEOREM QueueSuffices == Spec => []NeverOverflows
<1>1. StreamInvariant => NeverOverflows
  BY DEF StreamInvariant
<1> QED
  BY <1>1, StreamInvariantHolds, PTL

-----------------------------------------------------------------------------
LEMMA InitDelivery == Init => DeliveryInvariant
<1> SUFFICES ASSUME Init
             PROVE  DeliveryInvariant
  OBVIOUS
<1>1. StreamInvariant
  BY InitStream
<1>2. NoneLost /\ EndIsLast /\ InOrder
  BY MarkersAssumption DEF Init, NoneLost, EndIsLast, InOrder, HoldsMessage, Ones
<1> QED
  BY <1>1, <1>2 DEF DeliveryInvariant

\* What the queue can hold.
LEMMA Shapes ==
    ASSUME StreamInvariant
    PROVE  \/ buffer = <<>> /\ Len(buffer) = 0 /\ ~HoldsMessage
           \/ Len(buffer) = 1 /\ buffer # <<>> /\ buffer[1] \in Nat /\ HoldsMessage
           \/ Len(buffer) = 1 /\ buffer # <<>> /\ buffer[1] \in {END, STATUS} /\ done /\ ~HoldsMessage
           \/ Len(buffer) = 2 /\ buffer # <<>> /\ buffer[1] \in Nat /\ HoldsMessage
                 /\ buffer[2] \in {END, STATUS} /\ done
<1>1. buffer \in Seq(Item) /\ BufferShape
  BY DEF StreamInvariant, TypeOK
<1>2. CASE buffer = <<>>
  BY <1>2 DEF HoldsMessage
<1>3. CASE Len(buffer) = 1 /\ (buffer[1] \in {END, STATUS} => done)
  <2>1. buffer[1] \in Item /\ buffer # <<>>
    <3>1. 1 \in 1 .. Len(buffer)
      BY <1>3
    <3> QED
      BY <1>1, <1>3, <3>1, QueueItem
  <2> QED
    BY <1>3, <2>1, MarkersAssumption DEF Item, HoldsMessage
<1>4. CASE Len(buffer) = 2 /\ buffer[1] \in Nat /\ buffer[2] \in {END, STATUS} /\ done
  <2>1. buffer # <<>>
    BY <1>4
  <2> QED
    BY <1>4, <2>1 DEF HoldsMessage
<1> QED
  BY <1>1, <1>2, <1>3, <1>4 DEF BufferShape

LEMMA NextDelivery == DeliveryInvariant /\ [Next]_vars => DeliveryInvariant'
<1> SUFFICES ASSUME DeliveryInvariant, [Next]_vars
             PROVE  NoneLost' /\ EndIsLast' /\ InOrder'
  BY NextStream DEF DeliveryInvariant
<1>1. StreamInvariant /\ StreamInvariant' /\ NoneLost /\ EndIsLast /\ InOrder
  BY NextStream DEF DeliveryInvariant
<1>2. /\ delivered \in Nat /\ buffer \in Seq(Item) /\ got \in Seq(Nat) /\ Len(got) \in Nat
      /\ last \in Item \cup {NULL}
  BY <1>1 DEF StreamInvariant, TypeOK
<1>3. CASE onMessage
  <2>1. buffer = <<>> /\ ~HoldsMessage /\ last \notin {END, STATUS}
    BY <1>1, <1>3, Shapes DEF onMessage, StreamInvariant, OneMessage, EndIsLast, TypeOK
  <2>2. /\ buffer' = <<delivered + 1>> /\ delivered' = delivered + 1
        /\ delivered + 1 \in Nat /\ UNCHANGED <<last, got, outcome, done>>
    BY <1>2, <1>3, <2>1 DEF onMessage, add, Capacity, user
  <2>3. Len(buffer') = 1 /\ buffer'[1] = delivered + 1 /\ HoldsMessage'
    BY <2>2 DEF HoldsMessage
  <2>4. NoneLost'
    BY <1>1, <1>2, <2>1, <2>2, <2>3 DEF NoneLost, Ones
  <2>5. EndIsLast'
    BY <1>1, <2>1, <2>2, <2>3, MarkersAssumption DEF EndIsLast
  <2> QED
    BY <1>1, <2>2, <2>4, <2>5 DEF InOrder
<1>4. ASSUME NEW item \in {END, STATUS}, ~done, add(item), done' = TRUE,
             item = END => delivered = Answers,
             UNCHANGED <<requested, delivered, cancelled, user>>
      PROVE  NoneLost' /\ EndIsLast' /\ InOrder'
  <2>1. Len(buffer) \in {0, 1} /\ last \notin {END, STATUS}
    BY <1>1, <1>4, Shapes DEF EndIsLast
  <2>2. /\ Len(buffer') = Len(buffer) + 1
        /\ buffer' # <<>>
        /\ buffer'[Len(buffer) + 1] = item
        /\ \A i \in 1 .. Len(buffer) : buffer'[i] = buffer[i]
    <3>1. Len(buffer) < Capacity
      BY ONLY <2>1 DEF Capacity
    <3>2. item \in Item
      BY DEF Item
    <3>3. TypeOK /\ add(item)
      BY <1>1, <1>4 DEF StreamInvariant
    <3> QED
      BY <3>1, <3>2, <3>3, Added
  <2>3. UNCHANGED <<last, got, outcome, delivered>>
    BY <1>4 DEF user
  <2>4. HoldsMessage' <=> HoldsMessage
    <3>1. CASE Len(buffer) = 0
      <4>1. ~HoldsMessage
        BY <1>1, <3>1, Shapes
      <4> QED
        BY <2>2, <3>1, <4>1, MarkersAssumption DEF HoldsMessage
    <3>2. CASE Len(buffer) = 1
      <4>1. buffer # <<>> /\ buffer'[1] = buffer[1]
        BY <1>1, <2>2, <3>2, Shapes
      <4> QED
        BY <2>2, <4>1 DEF HoldsMessage
    <3> QED
      BY <2>1, <3>1, <3>2
  <2>5. HoldsMessage => buffer'[1] = buffer[1]
    BY <1>1, <2>1, <2>2, Shapes
  <2>6. NoneLost'
    BY <1>1, <2>3, <2>4, <2>5, ZenonT(30) DEF NoneLost, Ones
  <2>7. \A i \in 1 .. Len(buffer') : buffer'[i] = END => delivered' = Answers
    <3> TAKE i \in 1 .. Len(buffer')
    <3>1. i \in 1 .. Len(buffer) \/ i = Len(buffer) + 1
      BY <2>1, <2>2
    <3> QED
      BY <1>1, <1>4, <2>2, <2>3, <3>1 DEF EndIsLast
  <2>8. EndIsLast'
    BY <1>1, <2>1, <2>3, <2>7 DEF EndIsLast
  <2> QED
    BY <1>1, <2>3, <2>6, <2>8 DEF InOrder
<1>5. CASE onCloseOk
  BY <1>4, <1>5 DEF onCloseOk
<1>6. CASE onCloseError
  BY <1>4, <1>6, MarkersAssumption DEF onCloseError
<1>7. CASE Take
  <2>1. /\ buffer # <<>> /\ last = NULL /\ last' = buffer[1] /\ last' \in Item
        /\ buffer' \in Seq(Item) /\ Len(buffer') = Len(buffer) - 1
        /\ \A i \in 1 .. Len(buffer') : buffer'[i] = buffer[i + 1]
        /\ UNCHANGED <<delivered, done, got, outcome>>
    <3>1. /\ buffer # <<>> /\ last = NULL /\ last' = Head(buffer) /\ buffer' = Tail(buffer)
          /\ UNCHANGED <<delivered, done, got, outcome>>
      BY <1>7 DEF Take, listener
    <3>2. Head(buffer) = buffer[1]
      BY <1>2, <3>1
    <3> QED
      BY <1>2, <3>1, <3>2
  <2>2. Len(buffer') = 0 => buffer' = <<>>
    BY <2>1
  <2>3. /\ ~HoldsMessage'
        /\ last' \in Nat <=> HoldsMessage
        /\ last' \in {END, STATUS} => done /\ buffer' = <<>>
    <3>1. CASE Len(buffer) = 1
      BY <1>1, <2>1, <2>2, <3>1, Shapes, MarkersAssumption DEF HoldsMessage
    <3>2. CASE Len(buffer) = 2
      <4>1. Len(buffer') = 1 /\ buffer'[1] = buffer[2]
        BY <2>1, <3>2
      <4> QED
        BY <1>1, <2>1, <3>2, <4>1, Shapes, MarkersAssumption DEF HoldsMessage
    <3> QED
      BY <1>1, <2>1, <3>1, <3>2, Shapes
  <2>4. NoneLost'
    <3>1. delivered = Len(got) + Ones(HoldsMessage)
      <4>1. last \notin Nat
        BY <2>1, MarkersAssumption
      <4>2. Ones(last \in Nat) = 0 /\ Ones(HoldsMessage) \in {0, 1}
        BY <4>1 DEF Ones
      <4>3. delivered = Len(got) + Ones(last \in Nat) + Ones(HoldsMessage)
        BY <1>1 DEF NoneLost
      <4> QED
        BY <1>2, <4>2, <4>3
    <3>2. delivered' = Len(got') + Ones(last' \in Nat) + Ones(HoldsMessage')
      BY <1>2, <2>1, <2>3, <3>1 DEF Ones
    <3>3. HoldsMessage => last' = Len(got) + 1
      BY <1>1, <1>2, <2>1, <3>1 DEF NoneLost, Ones
    <3> QED
      BY <2>1, <2>3, <3>2, <3>3 DEF NoneLost, Ones
  <2>5. last' = END => delivered' = Answers
    <3>1. 1 \in 1 .. Len(buffer)
      BY <1>1, <2>1, Shapes
    <3> QED
      BY <1>1, <2>1, <3>1, ZenonT(30) DEF EndIsLast
  <2>6. \A i \in 1 .. Len(buffer') : buffer'[i] = END => delivered' = Answers
    <3> TAKE i \in 1 .. Len(buffer')
    <3>1. i + 1 \in 1 .. Len(buffer)
      BY <1>1, <2>1, Shapes
    <3> QED
      BY <1>1, <2>1, <3>1 DEF EndIsLast
  <2>7. EndIsLast'
    BY <1>1, <2>1, <2>3, <2>5, <2>6, MarkersAssumption DEF EndIsLast
  <2> QED
    BY <1>1, <2>1, <2>4, <2>7 DEF InOrder
<1>8. CASE Answer
  <2>1. /\ UNCHANGED <<buffer, delivered, done, last, got>>
        /\ outcome' = "ended" => last = END \/ outcome = "ended"
    <3>1. \/ last = STATUS /\ outcome' = "failed"
          \/ last = END /\ outcome' = "ended"
          \/ outcome' = outcome
      BY <1>8, MarkersAssumption DEF Answer
    <3> QED
      BY <1>8, <3>1 DEF Answer, listener
  <2> QED
    BY <1>1, <2>1 DEF NoneLost, EndIsLast, InOrder, HoldsMessage
<1>9. CASE Return
  <2>1. /\ got' = Append(got, last) /\ last' = NULL
        /\ UNCHANGED <<buffer, delivered, done, outcome>>
    BY <1>9 DEF Return, listener
  <2>2. last \in Nat /\ last = Len(got) + 1
    BY <1>1, <1>9 DEF Return, StreamInvariant, OneMessage, NoneLost
  <2>3. /\ Len(got') = Len(got) + 1 /\ got'[Len(got) + 1] = last
        /\ \A i \in 1 .. Len(got) : got'[i] = got[i]
    BY <1>2, <2>1, <2>2
  <2>4. NoneLost'
    BY <1>1, <1>2, <2>1, <2>2, <2>3, MarkersAssumption DEF NoneLost, Ones, HoldsMessage
  <2>5. EndIsLast'
    BY <1>1, <2>1, <2>2, MarkersAssumption DEF EndIsLast
  <2>6. InOrder'
    BY <1>1, <1>2, <2>2, <2>3 DEF InOrder
  <2> QED
    BY <2>4, <2>5, <2>6
<1>10. ASSUME UNCHANGED <<buffer, delivered, done, last, got, outcome>>
       PROVE  NoneLost' /\ EndIsLast' /\ InOrder'
  BY <1>1, <1>10 DEF NoneLost, EndIsLast, InOrder, HoldsMessage
<1>11. CASE Call("hasNext") \/ Call("next") \/ Interrupted \/ Request \/ close \/ UNCHANGED vars
  BY <1>10, <1>11 DEF Call, Interrupted, Request, close, listener, user, vars
<1> QED
  BY <1>3, <1>5, <1>6, <1>7, <1>8, <1>9, <1>11 DEF Next, Grpc, Iterate

\* What onMessage was given is never lost on its way to next().
THEOREM DeliveryInvariantHolds == Spec => []DeliveryInvariant
<1> QED
  BY InitDelivery, NextDelivery, PTL DEF Spec

\* next() returns the messages of the stream in order, each one once, for
\* every number of answers.
THEOREM AnswersInOrder == Spec => []InOrder
<1>1. DeliveryInvariant => InOrder
  BY DEF DeliveryInvariant
<1> QED
  BY <1>1, DeliveryInvariantHolds, PTL

\* hasNext() ends the iteration only after next() has returned every answer.
THEOREM EndsComplete == Spec => []EndIsComplete
<1>1. DeliveryInvariant => EndIsComplete
  <2> SUFFICES ASSUME DeliveryInvariant, outcome = "ended"
               PROVE  Len(got) = Answers
    BY DEF EndIsComplete
  <2>1. last = END /\ buffer = <<>> /\ delivered = Answers
    BY DEF DeliveryInvariant, EndIsLast
  <2>2. delivered = Len(got) + 0 + 0
    BY <2>1, MarkersAssumption DEF DeliveryInvariant, NoneLost, Ones, HoldsMessage
  <2>3. Len(got) \in Nat
    BY DEF DeliveryInvariant, StreamInvariant, TypeOK
  <2> QED
    BY <2>1, <2>2, <2>3
<1> QED
  BY <1>1, DeliveryInvariantHolds, PTL

-----------------------------------------------------------------------------
(* ShardingFanout: the threads write to the client in turn, pass on each   *)
(* backend's answers in order, and never add up too much, for any number   *)
(* of backends.                                                            *)

LEMMA OneMore ==
    ASSUME NEW n \in Nat
    PROVE  (1 .. n) \cup {n + 1} = 1 .. (n + 1)
OBVIOUS

USE FanoutAssumption

(* The invariant *)

LEMMA NextTypeOK == FanoutTypeOK /\ [FanoutNext]_fanoutVars => FanoutTypeOK'
<1> SUFFICES ASSUME FanoutTypeOK, [FanoutNext]_fanoutVars PROVE FanoutTypeOK'
  OBVIOUS
<1> USE DEF FanoutTypeOK, request
<1>1. CASE Join
  BY <1>1 DEF Join
<1>2. CASE WriteContexts
  BY <1>2 DEF WriteContexts
<1>3. CASE ClientGone
  BY <1>3 DEF ClientGone
<1>4. CASE Answered \/ UNCHANGED fanoutVars
  BY <1>4 DEF Answered, fanoutVars
<1>5. ASSUME NEW b \in Bucket, Thread(b) PROVE FanoutTypeOK'
  <2>1. CASE CallReturns(b)
    BY <2>1 DEF CallReturns, Goto
  <2>2. CASE Load(b)
    BY <2>2 DEF Load, Goto
  <2>3. CASE Store(b)
    <3>1. Response(b) \in Nat
      BY DEF Response
    <3> QED
      BY <2>3, <3>1 DEF Store, Goto
  <2>4. CASE Read(b)
    BY <2>4, Zenon DEF Read, Goto
  <2>5. CASE Lock(b)
    BY <2>5 DEF Lock, Goto
  <2>6. CASE Write(b)
    <3>1. out' \in Seq(Bucket \X Nat)
      <4>1. <<b, sent[b] + 1>> \in Bucket \X Nat
        OBVIOUS
      <4>2. Append(out, <<b, sent[b] + 1>>) \in Seq(Bucket \X Nat)
        BY <4>1
      <4> QED
        BY <2>6, <4>2 DEF Write
    <3>2. mutex' \in Bucket \cup {Free} /\ sent' \in [Bucket -> Nat]
      BY <2>6 DEF Write
    <3> QED
      BY <2>6, <3>1, <3>2, Zenon DEF Write, Goto
  <2> QED
    BY <1>5, <2>1, <2>2, <2>3, <2>4, <2>5, <2>6, Zenon DEF Thread
<1> QED
  BY <1>1, <1>2, <1>3, <1>4, <1>5, Zenon DEF FanoutNext

LEMMA NextMutex == FanoutTypeOK /\ WriterHoldsMutex /\ [FanoutNext]_fanoutVars => WriterHoldsMutex'
<1> SUFFICES ASSUME FanoutTypeOK, WriterHoldsMutex, [FanoutNext]_fanoutVars PROVE WriterHoldsMutex'
  OBVIOUS
<1> USE DEF FanoutTypeOK, WriterHoldsMutex
<1>1. CASE Join \/ WriteContexts \/ ClientGone \/ Answered \/ UNCHANGED fanoutVars
  BY <1>1 DEF Join, WriteContexts, ClientGone, Answered, fanoutVars
<1>2. ASSUME NEW b \in Bucket, Thread(b) PROVE WriterHoldsMutex'
  <2>1. CASE CallReturns(b) \/ Load(b) \/ Store(b) \/ Read(b)
    BY <2>1 DEF CallReturns, Load, Store, Read, Goto
  <2>2. CASE Lock(b)
    <3>1. \A a \in Bucket : tpc[a] # "write"
      BY <2>2 DEF Lock, Free, Bucket
    <3> QED
      BY <2>2, <3>1 DEF Lock, Goto
  <2>3. CASE Write(b)
    <3>1. \A a \in Bucket : tpc[a] = "write" => a = b
      BY <2>3 DEF Write
    <3> QED
      BY <2>3, <3>1 DEF Write, Goto
  <2> QED
    BY <1>2, <2>1, <2>2, <2>3 DEF Thread
<1> QED
  BY <1>1, <1>2 DEF FanoutNext

\* Threads stay finished, and what they count does not change.
LEMMA FinishedGrows ==
    FanoutTypeOK /\ [FanoutNext]_fanoutVars =>
        /\ Finished \subseteq Finished'
        /\ \A B \in SUBSET Bucket : Counted(B)' = Counted(B)
<1> SUFFICES ASSUME FanoutTypeOK, [FanoutNext]_fanoutVars
             PROVE  /\ Finished \subseteq Finished'
                    /\ \A B \in SUBSET Bucket : Counted(B)' = Counted(B)
  OBVIOUS
<1>1. UNCHANGED request
  BY DEF FanoutNext, Join, WriteContexts, ClientGone, Answered, Thread, CallReturns, Load, Store, Read,
         Lock, Write, fanoutVars, request
<1>2. \A b \in Bucket : tpc[b] = "done" => tpc'[b] = "done"
  BY DEF FanoutTypeOK, FanoutNext, Join, WriteContexts, ClientGone, Answered, Thread, CallReturns, Load, Store,
         Read, Lock, Write, Goto, fanoutVars
<1> QED
  BY <1>1, <1>2 DEF Finished, Counted, Response, request

\* One more answer of backend b, later in its order than those passed on, leaves
\* what the others have passed on.
LEMMA PassedOnAppend ==
    ASSUME FanoutTypeOK, NEW b \in Bucket, NEW n \in Nat, out' = Append(out, <<b, n>>),
           \A m \in PassedOn(b) : m < n, PassedInOrder(b)
    PROVE  /\ PassedOn(b)' = PassedOn(b) \cup {n}
           /\ PassedInOrder(b)'
           /\ \A a \in Bucket \ {b} :
                PassedOn(a)' = PassedOn(a) /\ (PassedInOrder(a) => PassedInOrder(a)')
<1>1. out \in Seq(Bucket \X Nat) /\ <<b, n>> \in Bucket \X Nat
  BY DEF FanoutTypeOK
<1> DEFINE l == Len(out)
<1>2. /\ l \in Nat /\ DOMAIN out = 1 .. l /\ DOMAIN out' = 1 .. (l + 1)
      /\ \A i \in 1 .. l : out'[i] = out[i]
      /\ out'[l + 1] = <<b, n>>
  BY <1>1
<1>3. \A i \in 1 .. l : out[i][2] \in Nat
  BY <1>1, <1>2
<1> HIDE DEF l
<1>4. \A i \in DOMAIN out' : i \in DOMAIN out \/ i = l + 1
  BY <1>2
<1>5. PassedOn(b)' = PassedOn(b) \cup {n}
  BY <1>2, <1>4 DEF PassedOn
<1>6. \A i \in DOMAIN out : out[i][1] = b => out[i][2] < n
  BY DEF PassedOn
<1>7. PassedInOrder(b)'
  <2> SUFFICES ASSUME NEW i \in 1 .. (l + 1), NEW j \in 1 .. (l + 1),
                      i < j, out'[i][1] = b, out'[j][1] = b
               PROVE  out'[i][2] < out'[j][2]
    BY <1>2 DEF PassedInOrder
  <2>1. i \in 1 .. l
    BY <1>2
  <2>2. CASE j = l + 1
    BY <1>2, <1>6, <2>1, <2>2
  <2>3. CASE j \in 1 .. l
    <3>1. out'[i] = out[i] /\ out'[j] = out[j] /\ i \in DOMAIN out /\ j \in DOMAIN out
      BY <1>2, <2>1, <2>3
    <3> QED
      BY <3>1, Zenon DEF PassedInOrder
  <2>4. j \in 1 .. l \/ j = l + 1
    BY <1>2
  <2> QED
    BY <2>2, <2>3, <2>4, Zenon
<1>8. ASSUME NEW a \in Bucket \ {b}
      PROVE  PassedOn(a)' = PassedOn(a) /\ (PassedInOrder(a) => PassedInOrder(a)')
  <2>1. \A i \in 1 .. (l + 1) : out'[i][1] = a => i \in 1 .. l
    BY <1>2, <1>4
  <2>2. PassedOn(a)' = PassedOn(a)
    BY <1>2, <2>1 DEF PassedOn
  <2>3. PassedInOrder(a) => PassedInOrder(a)'
    BY <1>2, <2>1 DEF PassedInOrder
  <2> QED
    BY <2>2, <2>3
<1> QED
  BY <1>5, <1>7, <1>8

\* A step of one thread that writes nothing, and the steps of the handler and the
\* client, leave what a thread has passed on.
LEMMA SilentPasses ==
    ASSUME FanoutTypeOK, NEW b \in Bucket, Passes(b), UNCHANGED <<request, sent, out>>,
           gone => gone', UNCHANGED tpc[b]
    PROVE  Passes(b)'
<1>1. PassedInOrder(b)' = PassedInOrder(b) /\ PassedOn(b)' = PassedOn(b)
  BY DEF PassedInOrder, PassedOn
<1> QED
  BY <1>1 DEF Passes, request, FanoutTypeOK

LEMMA NextPassesOn == FanoutTypeOK /\ PassesOn /\ [FanoutNext]_fanoutVars => PassesOn'
<1> SUFFICES ASSUME FanoutTypeOK, PassesOn, [FanoutNext]_fanoutVars, NEW a \in Bucket PROVE Passes(a)'
  BY DEF PassesOn
<1>1. Passes(a)
  BY DEF PassesOn
<1>2. CASE Join \/ WriteContexts \/ ClientGone \/ Answered \/ UNCHANGED fanoutVars
  <2>1. UNCHANGED <<request, sent, out>> /\ tpc' = tpc /\ (gone => gone')
    BY <1>2 DEF Join, WriteContexts, ClientGone, Answered, fanoutVars, request
  <2> QED
    BY <1>1, <2>1, SilentPasses
<1>3. ASSUME NEW b \in Bucket, Thread(b) PROVE Passes(a)'
  <2>0. /\ DOMAIN tpc = Bucket /\ DOMAIN sent = Bucket
        /\ \A c \in Bucket : sent[c] \in Nat /\ value[c] \in Nat
    BY DEF FanoutTypeOK
  <2>1. CASE CallReturns(b) \/ Load(b) \/ Store(b) \/ Read(b) \/ Lock(b)
    <3>1. /\ UNCHANGED <<request, sent, out, gone>>
          /\ a # b => tpc'[a] = tpc[a]
      BY <2>0, <2>1 DEF CallReturns, Load, Store, Read, Lock, Goto
    <3>2. CASE a # b
      BY <1>1, <3>1, <3>2, SilentPasses
    <3>3. CASE a = b
      <4>1. tpc[b] # "done"
        BY <2>1 DEF CallReturns, Load, Store, Read, Lock
      <4>2. PassedInOrder(b) /\ PassedOn(b) = 1 .. sent[b] /\ sent[b] <= value[b]
        BY <1>1, <3>3, <4>1 DEF Passes
      <4>3. PassedInOrder(b)' /\ PassedOn(b)' = 1 .. sent'[b] /\ sent'[b] <= value'[b]
        <5>1. PassedInOrder(b)' = PassedInOrder(b) /\ PassedOn(b)' = PassedOn(b)
          BY <3>1, Zenon DEF PassedInOrder, PassedOn
        <5> QED
          BY <3>1, <4>2, <5>1 DEF request
      <4>4. tpc'[b] \in {"lock", "write"} => sent'[b] < value'[b]
        BY <1>1, <2>0, <2>1, <3>1, <3>3
           DEF Passes, CallReturns, Load, Store, Read, Lock, Goto, request
      <4>5. tpc'[b] \in {"load", "store"} => method' = "Fanout"
        BY <1>1, <2>0, <2>1, <3>1, <3>3
           DEF Passes, CallReturns, Load, Store, Read, Lock, Goto, request
      <4>6. method' # "Fanout" /\ tpc'[b] = "done" /\ status'[b] => sent'[b] = value'[b]
        BY <1>1, <2>0, <2>1, <3>1, <3>3
           DEF Passes, CallReturns, Load, Store, Read, Lock, Goto, request
      <4> QED
        BY <3>3, <4>3, <4>4, <4>5, <4>6 DEF Passes
    <3> QED
      BY <3>2, <3>3
  <2>2. CASE Write(b)
    <3>1. /\ UNCHANGED <<request, gone>> /\ tpc[b] = "write"
          /\ a # b => tpc'[a] = tpc[a] /\ sent'[a] = sent[a]
          /\ sent'[b] = sent[b] + 1 /\ sent[b] \in Nat /\ value[b] \in Nat
      BY <2>0, <2>2 DEF Write, Goto
    <3>2. Passes(b) /\ PassedOn(b) = 1 .. sent[b] /\ sent[b] < value[b] /\ PassedInOrder(b)
      BY <3>1 DEF PassesOn, Passes
    <3>3. CASE method = "GetStatements" /\ gone
      <4>1. out' = out /\ tpc'[b] = "done"
        BY <2>0, <2>2, <3>3 DEF Write, Goto
      <4>2. PassedInOrder(a)' = PassedInOrder(a) /\ PassedOn(a)' = PassedOn(a)
        BY <4>1, Zenon DEF PassedInOrder, PassedOn
      <4>3. sent'[b] - 1 = sent[b] /\ sent'[b] > 0 /\ sent'[b] <= value[b]
        BY <3>1, <3>2
      <4>4. CASE a = b
        BY <3>1, <3>2, <3>3, <4>1, <4>2, <4>3, <4>4 DEF Passes, request
      <4>5. CASE a # b
        BY <1>1, <3>1, <4>2, <4>5 DEF Passes, request
      <4> QED
        BY <4>4, <4>5
    <3>4. CASE ~(method = "GetStatements" /\ gone)
      <4>1. out' = Append(out, <<b, sent[b] + 1>>) /\ tpc'[b] = "read"
        BY <2>0, <2>2, <3>4 DEF Write, Goto
      <4>2. /\ PassedOn(b)' = PassedOn(b) \cup {sent[b] + 1} /\ PassedInOrder(b)'
            /\ a # b => PassedOn(a)' = PassedOn(a) /\ (PassedInOrder(a) => PassedInOrder(a)')
        <5>1. sent[b] + 1 \in Nat /\ \A m \in PassedOn(b) : m < sent[b] + 1
          BY <3>1, <3>2
        <5> QED
          BY <3>2, <4>1, <5>1, PassedOnAppend, Zenon
      <4>3. PassedOn(b)' = 1 .. sent'[b] /\ sent'[b] <= value[b]
        <5>1. PassedOn(b)' = 1 .. (sent[b] + 1)
          BY <3>1, <3>2, <4>2, OneMore
        <5> QED
          BY <3>1, <3>2, <5>1
      <4>4. CASE a = b
        BY <3>1, <4>1, <4>2, <4>3, <4>4 DEF Passes, request
      <4>5. CASE a # b
        BY <1>1, <3>1, <4>2, <4>5 DEF Passes, request
      <4> QED
        BY <4>4, <4>5
    <3> QED
      BY <3>3, <3>4
  <2> QED
    BY <1>3, <2>1, <2>2 DEF Thread
<1> QED
  BY <1>2, <1>3 DEF FanoutNext

LEMMA NextJoined == FanoutTypeOK /\ Joined /\ [FanoutNext]_fanoutVars => Joined'
<1> SUFFICES ASSUME FanoutTypeOK, Joined, [FanoutNext]_fanoutVars PROVE Joined'
  OBVIOUS
<1>1. CASE Join
  BY <1>1 DEF Join, Joined, Finished, Status, request
<1>2. CASE WriteContexts
  BY <1>2 DEF WriteContexts, Joined, request
<1>3. CASE ClientGone
  BY <1>3 DEF ClientGone, Joined
<1>4. CASE Answered \/ UNCHANGED fanoutVars
  BY <1>4 DEF Answered, Joined, Finished, Status, fanoutVars
<1>5. ASSUME NEW b \in Bucket, Thread(b) PROVE Joined'
  BY <1>5 DEF Joined, Thread, CallReturns, Load, Store, Read, Lock, Write
<1> QED
  BY <1>1, <1>2, <1>3, <1>4, <1>5 DEF FanoutNext

INSTANCE FiniteSetTheorems

(* Counting, with the library's facts about cardinality *)

\* What some backends count is finite.
LEMMA CountedFinite ==
    ASSUME FanoutTypeOK, NEW B \in SUBSET Bucket
    PROVE  IsFiniteSet(Counted(B)) /\ Cardinality(Counted(B)) \in Nat
<1>1. \A b \in Bucket : Response(b) \in 0 .. MaxValue
  BY DEF FanoutTypeOK, Response
<1>2. Counted(B) \subseteq Bucket \X (1 .. MaxValue)
  BY <1>1 DEF Counted
<1>3. IsFiniteSet(Bucket) /\ IsFiniteSet(1 .. MaxValue)
  BY FS_Interval DEF Bucket
<1>4. IsFiniteSet(Bucket \X (1 .. MaxValue))
  BY <1>3, FS_Product
<1>5. IsFiniteSet(Counted(B))
  BY <1>2, <1>4, FS_Subset
<1> QED
  BY <1>5, FS_CardinalityType

\* One more backend adds its response.
LEMMA CountedAdd ==
    ASSUME FanoutTypeOK, NEW B \in SUBSET Bucket, NEW b \in Bucket, b \notin B
    PROVE  Cardinality(Counted(B \cup {b})) = Cardinality(Counted(B)) + Response(b)
<1> DEFINE P == {b} \X (1 .. Response(b))
           C == Counted(B)
           D == Counted(B \cup {b})
<1>1. Response(b) \in Nat
  BY DEF FanoutTypeOK, Response
<1>2. IsFiniteSet({b}) /\ Cardinality({b}) = 1
  BY FS_Singleton, ZenonT(30)
<1>3. IsFiniteSet(1 .. Response(b)) /\ Cardinality(1 .. Response(b)) = Response(b)
  BY <1>1, FS_Interval
<1>4. IsFiniteSet(P) /\ Cardinality(P) = Response(b)
  <2>1. IsFiniteSet(P) /\ Cardinality(P) = Cardinality({b}) * Cardinality(1 .. Response(b))
    BY <1>2, <1>3, FS_Product, ZenonT(30)
  <2> QED
    BY <1>1, <1>2, <1>3, <2>1
<1>5. Cardinality(D) = Cardinality(C \cup P)
  <2>1. D = C \cup P
    BY DEF Counted
  <2> HIDE DEF C, D, P
  <2> QED
    BY <2>1, Zenon
<1>6. Cardinality(C \cap P) = 0
  <2>1. C \cap P = {}
    BY DEF Counted
  <2> HIDE DEF C, P
  <2> QED
    BY <2>1, FS_EmptySet, Zenon
<1>7. IsFiniteSet(C) /\ Cardinality(C) \in Nat
  BY CountedFinite
<1> HIDE DEF C, D, P
<1>8. Cardinality(C \cup P) = Cardinality(C) + Cardinality(P) - Cardinality(C \cap P)
  BY <1>4, <1>7, FS_Union
<1>9. Cardinality(D) = Cardinality(C) + Response(b)
  BY <1>1, <1>4, <1>5, <1>6, <1>7, <1>8
<1> QED
  BY <1>9 DEF C, D

\* More backends count no less.
LEMMA CountedMonotone ==
    ASSUME FanoutTypeOK, NEW B \in SUBSET Bucket, NEW A \in SUBSET B
    PROVE  Cardinality(Counted(A)) <= Cardinality(Counted(B))
<1>1. Counted(A) \subseteq Counted(B)
  BY DEF Counted
<1> QED
  BY <1>1, CountedFinite, FS_Subset

LEMMA NextSum == FanoutTypeOK /\ SumOfFinished /\ [FanoutNext]_fanoutVars => SumOfFinished'
<1> SUFFICES ASSUME FanoutTypeOK, SumOfFinished, [FanoutNext]_fanoutVars PROVE SumOfFinished'
  OBVIOUS
<1> DEFINE N == Cardinality(Counted(Finished))
<1>1. Finished \in SUBSET Bucket /\ Finished' \in SUBSET Bucket
  BY DEF Finished
<1>2. N \in Nat /\ Cardinality(Counted(Finished')) \in Nat
  BY <1>1, CountedFinite
<1>3. N' = Cardinality(Counted(Finished')) /\ N <= N'
  <2>1. Finished \in SUBSET Finished'
    BY FinishedGrows
  <2>2. (Counted(Finished))' = Counted(Finished')
    BY <1>1, FinishedGrows DEF Counted, Response
  <2>3. N <= Cardinality(Counted(Finished'))
    BY <1>1, <2>1, CountedMonotone
  <2> QED
    BY <2>2, <2>3
<1>4. N \in Nat /\ N' \in Nat
  BY <1>2, <1>3
<1>5. r <= N /\ \A b \in Bucket : tpc[b] = "store" => reg[b] <= N
  BY DEF SumOfFinished
<1>6. SUFFICES r' <= N' /\ \A b \in Bucket : tpc'[b] = "store" => reg'[b] <= N'
  BY DEF SumOfFinished
<1> USE DEF FanoutTypeOK
<1>7. CASE Join \/ WriteContexts \/ ClientGone \/ Answered \/ UNCHANGED fanoutVars
  <2>1. UNCHANGED <<r, reg, tpc>>
    BY <1>7 DEF Join, WriteContexts, ClientGone, Answered, fanoutVars
  <2> HIDE DEF N
  <2> QED
    BY <1>3, <1>4, <1>5, <2>1
<1>8. ASSUME NEW a \in Bucket, Thread(a)
      PROVE  r' <= N' /\ \A b \in Bucket : tpc'[b] = "store" => reg'[b] <= N'
  <2>1. CASE CallReturns(a) \/ Read(a) \/ Lock(a) \/ Write(a)
    <3>1. UNCHANGED <<r, reg>> /\ \A b \in Bucket : tpc'[b] = "store" => tpc[b] = "store"
      BY <2>1 DEF CallReturns, Read, Lock, Write, Goto
    <3> HIDE DEF N
    <3> QED
      BY <1>3, <1>4, <1>5, <3>1
  <2>2. CASE Load(a)
    <3>1. r' = r /\ \A b \in Bucket : reg'[b] = r \/ (reg'[b] = reg[b] /\ tpc'[b] = tpc[b])
      BY <2>2 DEF Load, Goto
    <3>2. r \in Nat /\ \A b \in Bucket : reg[b] \in Nat
      OBVIOUS
    <3> HIDE DEF N, FanoutTypeOK
    <3>3. r <= N'
      BY <1>3, <1>4, <1>5, <3>2
    <3>4. ASSUME NEW b \in Bucket, tpc'[b] = "store" PROVE reg'[b] <= N'
      BY <1>3, <1>4, <1>5, <3>1, <3>2, <3>3, <3>4
    <3> QED
      BY <3>1, <3>3, <3>4
  <2>3. CASE Store(a)
    <3>1. /\ tpc[a] = "store" /\ r' = reg[a] + Response(a)
          /\ \A b \in Bucket : tpc'[b] = "store" => tpc[b] = "store" /\ reg'[b] = reg[b]
      BY <2>3 DEF Store, Goto
    <3>2. a \notin Finished /\ Finished' = Finished \cup {a}
      BY <2>3 DEF Store, Goto, Finished
    <3>3. Cardinality(Counted(Finished \cup {a})) = N + Response(a)
      BY <1>1, <3>2, CountedAdd, ZenonT(30)
    <3>4. N' = N + Response(a)
      BY <1>3, <3>2, <3>3
    <3>5. Response(a) \in Nat /\ \A b \in Bucket : reg[b] \in Nat
      BY DEF Response
    <3> HIDE DEF N, FanoutTypeOK
    <3>6. r' <= N'
      BY <1>4, <1>5, <3>1, <3>4, <3>5
    <3>7. ASSUME NEW b \in Bucket, tpc'[b] = "store" PROVE reg'[b] <= N'
      BY <1>3, <1>4, <1>5, <3>1, <3>5, <3>7
    <3> QED
      BY <3>6, <3>7
  <2> QED
    BY <1>8, <2>1, <2>2, <2>3 DEF Thread
<1> QED
  BY <1>7, <1>8 DEF FanoutNext

LEMMA InitFanout == FanoutInit => FanoutInvariant
<1> SUFFICES ASSUME FanoutInit PROVE FanoutInvariant
  OBVIOUS
<1> USE DEF FanoutInit
<1>1. FanoutTypeOK
  <2>1. out \in Seq(Bucket \X Nat)
    OBVIOUS
  <2> QED
    BY <2>1, ZenonT(30) DEF FanoutTypeOK
<1>2. WriterHoldsMutex
  BY DEF WriterHoldsMutex
<1>3. SumOfFinished
  <2>1. Finished \in SUBSET Bucket
    BY DEF Finished
  <2>2. Cardinality(Counted(Finished)) \in Nat
    BY <1>1, <2>1, CountedFinite
  <2> QED
    BY <2>2 DEF SumOfFinished
<1>4. PassesOn
  <2>1. \A b \in Bucket : PassedOn(b) = 1 .. 0
    BY DEF PassedOn
  <2> QED
    BY <1>1, <2>1 DEF PassesOn, Passes, PassedInOrder, FanoutTypeOK
<1>5. Joined
  BY DEF Joined
<1> QED
  BY <1>1, <1>2, <1>3, <1>4, <1>5 DEF FanoutInvariant

\* The invariant of a request in flight: the thread that writes to the client holds
\* the mutex, a sum is made of responses of finished threads, and a thread has passed
\* on what it has read, in order.
THEOREM FanoutInvariantHolds == FanoutSpec => []FanoutInvariant
<1>1. FanoutInvariant /\ [FanoutNext]_fanoutVars => FanoutInvariant'
  BY NextTypeOK, NextMutex, NextSum, NextPassesOn, NextJoined DEF FanoutInvariant
<1> QED
  BY InitFanout, <1>1, PTL DEF FanoutSpec

-----------------------------------------------------------------------------
(* The properties *)

\* No two backend threads write to the client's stream at the same time, for any
\* number of backends.
THEOREM ThreadsWriteInTurn == FanoutSpec => []OneWriter
<1>1. FanoutInvariant => OneWriter
  BY DEF FanoutInvariant, WriterHoldsMutex, OneWriter
<1> QED
  BY <1>1, FanoutInvariantHolds, PTL

\* Size, RemoveStatements and Clear of the sharding server report success only if all
\* backends do, and never more than these report, however the additions interleave.
THEOREM FanoutNeverOverstates == FanoutSpec => []FanoutReports
<1>1. ASSUME FanoutInvariant PROVE FanoutReports
  <2> SUFFICES ASSUME method = "Fanout", hpc = "done", result.ok
               PROVE  (\A b \in Bucket : status[b]) /\ result.value <= Total
    BY DEF FanoutReports, Returned
  <2>1. Finished = Bucket /\ result.ok = Status /\ result.value = r
    BY <1>1, ZenonT(30) DEF FanoutInvariant, Joined
  <2>2. r <= Total
    BY <1>1, <2>1 DEF FanoutInvariant, SumOfFinished, Total
  <2> QED
    BY <2>1, <2>2, ZenonT(30) DEF Status
<1> QED
  BY <1>1, FanoutInvariantHolds, PTL

\* GetStatements of the sharding server passes on the statements of every backend
\* once and in order, and leaves out none of a backend that succeeds if the client stays.
THEOREM StatementsAreMultiplexed == FanoutSpec => []Multiplexed
<1>1. ASSUME FanoutInvariant PROVE Multiplexed
  <2> SUFFICES ASSUME method = "GetStatements", NEW b \in Bucket
               PROVE  /\ PassedInOrder(b)
                      /\ \E n \in 0 .. value[b] : PassedOn(b) = 1 .. n
                      /\ hpc = "done" /\ ~gone /\ status[b] => PassedOn(b) = 1 .. value[b]
    BY DEF Multiplexed
  <2>1. Passes(b) /\ value[b] \in Nat /\ sent[b] \in Nat
    BY <1>1 DEF FanoutInvariant, PassesOn, FanoutTypeOK
  <2>2. \E n \in 0 .. value[b] : PassedOn(b) = 1 .. n
    <3>1. CASE PassedOn(b) = 1 .. sent[b]
      BY <2>1, <3>1 DEF Passes
    <3>2. CASE sent[b] > 0 /\ PassedOn(b) = 1 .. (sent[b] - 1)
      <4>1. sent[b] - 1 \in 0 .. value[b]
        BY <2>1, <3>2 DEF Passes
      <4> QED
        BY <3>2, <4>1
    <3> QED
      BY <2>1, <3>1, <3>2 DEF Passes
  <2>3. hpc = "done" => tpc[b] = "done"
    BY <1>1 DEF FanoutInvariant, Joined, Finished
  <2> QED
    BY <2>1, <2>2, <2>3 DEF Passes
<1> QED
  BY <1>1, FanoutInvariantHolds, PTL
=============================================================================
