--------------------------- MODULE ResponseStream ---------------------------
(***************************************************************************)
(* ClosableResponseStream: the Java client's iteration over the answers of *)
(* a server-streaming call.  gRPC's thread fills a queue of two places;    *)
(* the iterating thread takes from it and asks for one more message for    *)
(* each one it hands out.                                                  *)
(*                                                                         *)
(* A message is its number in the stream, END stands for the object itself *)
(* (an orderly end) and STATUS for an error status.                        *)
(***************************************************************************)
EXTENDS Naturals, Sequences

CONSTANTS
    Answers,        \* the number of messages the server sends
    NULL, END, STATUS

Capacity == 2

ASSUME AnswersAssumption == Answers \in Nat

ASSUME MarkersAssumption ==
    /\ NULL \notin Nat /\ END \notin Nat /\ STATUS \notin Nat
    /\ NULL # END /\ NULL # STATUS /\ END # STATUS

VARIABLES
    requested,  \* messages asked for and not delivered yet
    delivered,  \* messages passed to onMessage
    cancelled,  \* close() has cancelled the call
    done,       \* onClose has been called
    buffer,     \* the ArrayBlockingQueue
    overflow,   \* buffer.add has thrown: the queue was full
    pc,         \* where the iterating thread is
    last,       \* the field last
    got,        \* the messages next() has returned
    outcome     \* how the iteration ended for its user, if it did

vars == <<requested, delivered, cancelled, done, buffer, overflow, pc, last, got, outcome>>
listener == <<delivered, done, overflow>>
user == <<pc, last, got, outcome>>

\* The constructor: call.start, call.request(1), sendMessage, halfClose.
Init ==
    /\ requested = 1
    /\ delivered = 0
    /\ cancelled = FALSE
    /\ done = FALSE
    /\ buffer = <<>>
    /\ overflow = FALSE
    /\ pc = "idle"
    /\ last = NULL
    /\ got = <<>>
    /\ outcome = "open"

-----------------------------------------------------------------------------
(* gRPC's thread.  The call delivers no message that was not asked for,    *)
(* delivers them in order, and nothing after onClose.                      *)

add(item) ==
    IF Len(buffer) < Capacity
    THEN buffer' = Append(buffer, item) /\ UNCHANGED overflow
    ELSE overflow' = TRUE /\ UNCHANGED buffer

onMessage ==
    /\ ~done /\ requested > 0 /\ delivered < Answers
    /\ requested' = requested - 1
    /\ delivered' = delivered + 1
    /\ add(delivered + 1)
    /\ UNCHANGED <<cancelled, done, user>>

\* Mutant: the end overtakes answers.
onCloseOkEarly ==
    /\ ~done
    /\ add(END)
    /\ done' = TRUE
    /\ UNCHANGED <<requested, delivered, cancelled, user>>

\* The end of the answers, which needs no request.
onCloseOk ==
    /\ ~done /\ delivered = Answers
    /\ add(END)
    /\ done' = TRUE
    /\ UNCHANGED <<requested, delivered, cancelled, user>>

\* The call was cancelled, or failed: the server or the connection is gone.
onCloseError ==
    /\ ~done
    /\ add(STATUS)
    /\ done' = TRUE
    /\ UNCHANGED <<requested, delivered, cancelled, user>>

-----------------------------------------------------------------------------
(* The iterating thread *)

Call(method) ==
    /\ pc = "idle"
    /\ pc' = method
    /\ UNCHANGED <<requested, cancelled, buffer, listener, last, got, outcome>>

\* buffer.take(), which blocks while the queue is empty.
Take ==
    /\ pc \in {"hasNext", "next"}
    /\ last = NULL
    /\ buffer # <<>>
    /\ last' = Head(buffer)
    /\ buffer' = Tail(buffer)
    /\ UNCHANGED <<requested, cancelled, listener, pc, got, outcome>>

\* The wait in buffer.take() is interrupted: the method throws.
Interrupted ==
    /\ pc \in {"hasNext", "next"}
    /\ last = NULL
    /\ pc' = "idle"
    /\ UNCHANGED <<requested, cancelled, buffer, listener, last, got, outcome>>

\* hasNext() throws or answers; next() throws unless there is an element.
Answer ==
    /\ pc \in {"hasNext", "next"}
    /\ last # NULL
    /\ pc' = IF pc = "next" /\ last \notin {END, STATUS} THEN "request" ELSE "idle"
    /\ outcome' = CASE last = STATUS -> "failed"
                    [] last = END -> "ended"
                    [] OTHER -> outcome
    /\ UNCHANGED <<requested, cancelled, buffer, listener, last, got>>

\* Mutant: next() asks for nothing.
RequestNone ==
    /\ pc = "request"
    /\ pc' = "return"
    /\ UNCHANGED <<requested, cancelled, buffer, listener, last, got, outcome>>

\* Mutant: next() asks for two messages.
RequestTwo ==
    /\ pc = "request"
    /\ requested' = requested + 2
    /\ pc' = "return"
    /\ UNCHANGED <<cancelled, buffer, listener, last, got, outcome>>

\* next(): call.request(1) comes before last is cleared.
Request ==
    /\ pc = "request"
    /\ requested' = requested + 1
    /\ pc' = "return"
    /\ UNCHANGED <<cancelled, buffer, listener, last, got, outcome>>

\* Mutant: last is not cleared.
ReturnAgain ==
    /\ pc = "return"
    /\ got' = Append(got, last)
    /\ pc' = "idle"
    /\ UNCHANGED <<requested, cancelled, buffer, listener, last, outcome>>

Return ==
    /\ pc = "return"
    /\ got' = Append(got, last)
    /\ last' = NULL
    /\ pc' = "idle"
    /\ UNCHANGED <<requested, cancelled, buffer, listener, outcome>>

close ==
    /\ pc = "idle"
    /\ cancelled' = TRUE
    /\ UNCHANGED <<requested, buffer, listener, user>>

-----------------------------------------------------------------------------
Grpc == onMessage \/ onCloseOk \/ onCloseError

Iterate == Take \/ Answer \/ Request \/ Return

Next ==
    \/ Grpc
    \/ Call("hasNext") \/ Call("next")
    \/ Iterate
    \/ Interrupted
    \/ close

\* A live server: gRPC delivers what was asked for, the end of the answers
\* and the cancellation of the call; and the iterating thread runs.
Spec ==
    /\ Init /\ [][Next]_vars
    /\ WF_vars(onMessage \/ onCloseOk)
    /\ WF_vars(cancelled /\ onCloseError)
    /\ WF_vars(Iterate)

-----------------------------------------------------------------------------
Item == Nat \cup {END, STATUS}

\* What the queue, the listener and the iterating thread hold.
TypeOK ==
    /\ requested \in Nat
    /\ delivered \in Nat
    /\ cancelled \in BOOLEAN
    /\ done \in BOOLEAN
    /\ buffer \in Seq(Item)
    /\ overflow \in BOOLEAN
    /\ pc \in {"idle", "hasNext", "next", "request", "return"}
    /\ last \in Item \cup {NULL}
    /\ got \in Seq(Nat)
    /\ outcome \in {"open", "ended", "failed"}

\* "Due to flow control, only needs to hold up to 2 items: 1 for value, 1 for
\* close": whatever the interleaving of gRPC's thread and the iterating
\* thread, buffer.add finds room.
NeverOverflows == ~overflow

\* next() returns the messages of the stream in order, each one once.
InOrder == \A i \in 1 .. Len(got) : got[i] = i

\* hasNext() says that there are no more elements only after next() has
\* returned all of them.
EndIsComplete == outcome = "ended" => Len(got) = Answers

\* hasNext() and next() do not block for ever in buffer.take(): they never
\* wait for a message that the iteration has yet to request, whatever was
\* called before, an error or a close() included.
CallsReturn == pc # "idle" ~> pc = "idle"

\* "@throws NoSuchElementException if the iteration has no more elements or if
\* it has been closed": next() returns no element of a closed iteration.
\* The code does not keep this: see the README.
ClosedReturnsNothing == [][cancelled => got' = got]_vars

-----------------------------------------------------------------------------
(* The inductive invariant behind NeverOverflows *)

\* The queue holds at most one message, and nothing behind a close.
BufferShape ==
    \/ buffer = <<>>
    \/ Len(buffer) = 1 /\ (buffer[1] \in {END, STATUS} => done)
    \/ Len(buffer) = 2 /\ buffer[1] \in Nat /\ buffer[2] \in {END, STATUS} /\ done

HoldsMessage == buffer # <<>> /\ buffer[1] \in Nat

\* A message is asked for only when the one before has left the queue.
OneMessage ==
    /\ requested \in {0, 1}
    /\ requested = 1 => ~HoldsMessage /\ (last \in Nat => pc = "return")
    /\ HoldsMessage /\ last \in Nat => pc = "return"
    /\ pc \in {"request", "return"} => last \in Nat

\* ClosableResponseStream asks for a message only when it has handed out the one
\* before: what is asked for and what is queued never add up to two messages.
StreamInvariant ==
    /\ TypeOK
    /\ BufferShape
    /\ OneMessage
    /\ NeverOverflows

-----------------------------------------------------------------------------
(* The inductive invariant behind InOrder and EndIsComplete *)

Ones(condition) == IF condition THEN 1 ELSE 0

\* A delivered message is in the queue, in last, or has been handed out, and
\* they are behind each other in that order.
NoneLost ==
    /\ delivered = Len(got) + Ones(last \in Nat) + Ones(HoldsMessage)
    /\ last \in Nat => last = Len(got) + 1
    /\ HoldsMessage => buffer[1] = delivered

\* The end is behind every answer, and last keeps it.
EndIsLast ==
    /\ last \in {END, STATUS} => done /\ buffer = <<>>
    /\ last = END => delivered = Answers
    /\ \A i \in 1 .. Len(buffer) : buffer[i] = END => delivered = Answers
    /\ outcome = "ended" => last = END

\* Every message that onMessage was given is either handed out by next() or on
\* its way there, in order, and the end of the stream behind all of them.
DeliveryInvariant == StreamInvariant /\ NoneLost /\ EndIsLast /\ InOrder
=============================================================================
