---------------------- MODULE CommandLineClientProofs -----------------------
(***************************************************************************)
(* The command line client and the server it talks to: what the server's   *)
(* iterator hands out, what select prints, and that import and delete tell *)
(* the truth, for any documents, stores, hash functions and number of      *)
(* calls, and whatever connections and servers do.                         *)
(***************************************************************************)
EXTENDS CommandLineClient, StatementIndexProofs

\* The prover of a step that names no other, and its time.
USE ZenonT(30)

-----------------------------------------------------------------------------
(* Calls *)

LEMMA TwoAppended ==
    ASSUME NEW S, NEW s \in Seq(S), NEW x, NEW y, NEW t, t = s \o <<x, y>>
    PROVE  /\ Len(t) = Len(s) + 2 /\ Len(s) \in Nat
           /\ DOMAIN t = 1 .. (Len(s) + 2) /\ DOMAIN s = 1 .. Len(s)
           /\ t[Len(s) + 1] = x /\ t[Len(s) + 2] = y
           /\ \A m \in 1 .. Len(s) : t[m] = s[m]
BY SMTT(30)

LEMMA AnythingIsPattern == Anything \in Pattern
  BY DEF Anything, Pattern

LEMMA NewCallType ==
    ASSUME NEW kind \in {"ns", "stmt", "remove"}, NEW pat \in Pattern
    PROVE  NewCall(kind, pat) \in CallType
<1>1. 0 \in Counts
  BY DEF Counts
<1> QED
  BY <1>1, SMTT(30) DEF NewCall, CallType

LEMMA CutType ==
    ASSUME NEW call \in CallType, NEW c \in Cut(call)
    PROVE  /\ c \in CallType
           /\ c.kind = call.kind /\ c.pattern = call.pattern /\ c.ended = call.ended
           /\ c.count = call.count
           /\ c = call \/ /\ call.status = "none" /\ call.up
                          /\ ~c.up /\ c.sent = <<>> /\ c.status = "failed"
                          /\ c.work = call.work \/ (call.work = "new" /\ c.work = "done")
<1>1. CASE call.status # "none" \/ ~call.up
  BY <1>1 DEF Cut
<1>2. CASE call.status = "none" /\ call.up
  <2>1. PICK w \in {call.work, "done"} :
           /\ c = [call EXCEPT !.up = FALSE, !.sent = <<>>, !.status = "failed", !.work = w]
           /\ w = call.work \/ (call.work = "new" /\ w = "done")
    BY <1>2 DEF Cut
  <2>2. <<>> \in Seq(Item) /\ w \in {"new", "work", "done"}
    BY <2>1, SMTT(30) DEF CallType
  <2>3. c \in CallType
    BY <2>1, <2>2 DEF CallType
  <2>4. /\ c.kind = call.kind /\ c.pattern = call.pattern /\ c.ended = call.ended
        /\ c.count = call.count
        /\ c.up = FALSE /\ c.sent = <<>> /\ c.status = "failed" /\ c.work = w
    BY <2>1 DEF CallType
  <2> QED
    BY <1>2, <2>1, <2>3, <2>4
<1> QED
  BY <1>1, <1>2

\* The calls that CutCalls leaves.
LEMMA CutCallsType ==
    ASSUME calls \in Seq(CallType), NEW N, CutCalls(N)
    PROVE  /\ calls' \in Seq(CallType) /\ Len(calls') = Len(calls) /\ DOMAIN calls' = DOMAIN calls
           /\ \A n \in DOMAIN calls : calls'[n] \in Cut(calls[n]) \/ calls'[n] = calls[n]
<1>1. /\ DOMAIN calls = 1 .. Len(calls) /\ Len(calls) \in Nat
      /\ calls' \in [DOMAIN calls -> UNION {Cut(calls[n]) : n \in DOMAIN calls}]
      /\ \A n \in DOMAIN calls : calls'[n] \in Cut(calls[n]) \/ calls'[n] = calls[n]
      /\ \A n \in DOMAIN calls : calls[n] \in CallType
  BY SMTT(30) DEF CutCalls
<1>2. \A n \in DOMAIN calls : calls'[n] \in CallType
  BY <1>1, CutType
<1>3. calls' \in [1 .. Len(calls) -> CallType]
  BY <1>1, <1>2
<1> QED
  BY <1>1, <1>3, SMTT(30)

LEMMA KeepKnownType ==
    ASSUME store \in [Key -> Entry], unknown \in SUBSET Key, Server!KeepKnown
    PROVE  /\ store' \in [Key -> Entry]
           /\ \A k \in Key : k \notin unknown /\ k \notin unknown' => store'[k] = store[k]
  BY DEF Server!KeepKnown, Entry

LEMMA FoundType ==
    ASSUME NEW T, NEW S \in Server!Found(T)
    PROVE  S \subseteq T
  BY DEF Server!Found

LEMMA SettleType ==
    ASSUME store \in [Key -> Entry], unknown \in SUBSET Key, NEW c, NEW changes,
           Server!Settle(c, changes)
    PROVE  store' \in [Key -> Entry] /\ unknown' \in SUBSET Key
<1>1. unknown' \in SUBSET Key
  BY DEF Server!Settle
<1> QED
  BY <1>1, KeepKnownType DEF Server!Settle

LEMMA SequenceChanges ==
    ASSUME NEW S, NEW s \in Seq(S), NEW n \in DOMAIN s, NEW c \in S,
           NEW t, t = [s EXCEPT ![n] = c]
    PROVE  /\ t \in Seq(S) /\ Len(t) = Len(s) /\ DOMAIN t = DOMAIN s
           /\ t[n] = c /\ \A m \in DOMAIN s \ {n} : t[m] = s[m]
  BY SMTT(30)

\* One call is changed.
LEMMA CallChanges ==
    ASSUME calls \in Seq(CallType), NEW n \in DOMAIN calls, NEW c \in CallType,
           calls' = [calls EXCEPT ![n] = c]
    PROVE  /\ calls' \in Seq(CallType) /\ Len(calls') = Len(calls) /\ DOMAIN calls' = DOMAIN calls
           /\ DOMAIN calls = 1 .. Len(calls) /\ Len(calls) \in Nat
           /\ calls'[n] = c
           /\ \A m \in DOMAIN calls \ {n} : calls'[m] = calls[m]
  BY SMTT(30)

LEMMA CommandType ==
    ASSUME script \in Seq(Commands), script # <<>>
    PROVE  /\ Command \in Commands
           /\ Command.op = "import" => /\ Items \in Seq(Item)
                                       /\ \A i \in DOMAIN Items : Items[i] \in Item
           /\ Command.op \in {"delete", "select"} => Command.pattern \in Pattern
<1>1. Command \in Commands
  BY SMTT(30) DEF Command
<1>2. ASSUME Command.op = "import" PROVE Command.doc.items \in Seq(Item)
  BY <1>1, <1>2 DEF Commands
<1>3. ASSUME Command.op \in {"delete", "select"} PROVE Command.pattern \in Pattern
  BY <1>1, <1>3 DEF Commands
<1> QED
  BY <1>1, <1>2, <1>3, SMTT(30) DEF Items

-----------------------------------------------------------------------------
(* Types *)

\* WritesDone on both streams.
LEMMA EndsEffect ==
    ASSUME calls \in Seq(CallType), Len(calls) >= 2,
           calls' = [calls EXCEPT ![StmtCall].ended = TRUE, ![NsCall].ended = TRUE]
    PROVE  /\ calls' \in Seq(CallType) /\ Len(calls') = Len(calls) /\ DOMAIN calls' = DOMAIN calls
           /\ \A n \in DOMAIN calls :
                 /\ calls'[n].kind = calls[n].kind /\ calls'[n].pattern = calls[n].pattern
                 /\ calls'[n].sent = calls[n].sent /\ calls'[n].up = calls[n].up
                 /\ calls'[n].work = calls[n].work /\ calls'[n].count = calls[n].count
                 /\ calls'[n].status = calls[n].status
<1>1. /\ NsCall \in DOMAIN calls /\ StmtCall \in DOMAIN calls /\ NsCall # StmtCall
      /\ \A n \in DOMAIN calls : calls[n] \in CallType
  BY SMTT(30) DEF NsCall, StmtCall
<1>2. \A c \in CallType : [c EXCEPT !.ended = TRUE] \in CallType
  BY DEF CallType
<1> DEFINE s == [calls[StmtCall] EXCEPT !.ended = TRUE]
           t == [calls[NsCall] EXCEPT !.ended = TRUE]
           c == [calls EXCEPT ![StmtCall] = s]
           d == [c EXCEPT ![NsCall] = t]
<1>3. s \in CallType /\ t \in CallType
  BY <1>1, <1>2
<1>4. calls' = d
  BY <1>1
<1> HIDE DEF s, t
<1>5. /\ c \in Seq(CallType) /\ Len(c) = Len(calls) /\ DOMAIN c = DOMAIN calls
      /\ c[StmtCall] = s /\ \A n \in DOMAIN calls \ {StmtCall} : c[n] = calls[n]
  BY <1>1, <1>3, SMTT(30)
<1> HIDE DEF c
<1>6. /\ d \in Seq(CallType) /\ Len(d) = Len(calls) /\ DOMAIN d = DOMAIN calls
      /\ d[NsCall] = t /\ \A n \in DOMAIN calls \ {NsCall} : d[n] = c[n]
  BY <1>1, <1>3, <1>5, SequenceChanges, SMTT(30)
<1> HIDE DEF d
<1>7. ASSUME NEW n \in DOMAIN calls
      PROVE  /\ calls'[n].kind = calls[n].kind /\ calls'[n].pattern = calls[n].pattern
             /\ calls'[n].sent = calls[n].sent /\ calls'[n].up = calls[n].up
             /\ calls'[n].work = calls[n].work /\ calls'[n].count = calls[n].count
             /\ calls'[n].status = calls[n].status
  <2>1. calls'[n] = calls[n] \/ calls'[n] = [calls[n] EXCEPT !.ended = TRUE]
    BY <1>1, <1>4, <1>5, <1>6 DEF s, t
  <2> QED
    BY <1>1, <2>1, SMTT(30) DEF CallType
<1> QED
  BY <1>4, <1>6, <1>7

LEMMA InitType == Init => ClientTypeOK
<1> SUFFICES ASSUME Init PROVE ClientTypeOK
  OBVIOUS
<1>1. PICK sc \in Scenario :
         /\ script = sc.script
         /\ store = [k \in Key |-> IF k \in sc.stored THEN Stored ELSE Absent]
  BY DEF Init
<1>2. script \in Seq(Commands)
  BY <1>1, ClientAssumption
<1>3. store \in [Key -> Entry]
  BY <1>1 DEF Entry
<1>4. pending \in [1 .. MaxCalls -> [Key -> Entry \cup {Keep}]]
  BY DEF Init, Server!NoChange
<1>5. state \in [1 .. MaxCalls -> {"idle", "open", "closing"}]
  BY DEF Init
<1>6. /\ at = "start" /\ line = 0 /\ read = 0 /\ calls = <<>> /\ link = FALSE /\ quiet = TRUE
      /\ printed = <<>> /\ before = store /\ unknown = {}
  BY DEF Init
<1>7. calls \in Seq(CallType) /\ printed \in Seq(Statement) /\ unknown \in SUBSET Key
  BY <1>6, SMTT(30)
<1> QED
  BY <1>2, <1>3, <1>4, <1>5, <1>6, <1>7 DEF ClientTypeOK

LEMMA ClientType ==
    ASSUME ClientTypeOK, ScanInvariant, SelectInvariant, Client PROVE ClientTypeOK'
<1>1. ASSUME Start PROVE script \in Seq(Commands) /\ script # <<>> /\ before' \in [Key -> Entry]
                         /\ quiet' \in BOOLEAN /\ line' = 0
  BY <1>1 DEF Start, ClientTypeOK
<1>2. CASE StartImport
  <2>1. calls' \in Seq(CallType)
    BY <1>2, AnythingIsPattern, NewCallType, SMTT(30) DEF StartImport, ClientTypeOK
  <2> QED
    BY <1>1, <1>2, <2>1, SMTT(30) DEF StartImport, ClientTypeOK, serverVars, selectVars, Command
<1>3. CASE Parse
  <2> DEFINE item == Items[line + 1]
             n == IF item.key \in Statement THEN StmtCall ELSE NsCall
  <2>1. item \in Item
    BY <1>3, CommandType, SMTT(30) DEF Parse, ClientTypeOK
  <2>2. calls' = [calls EXCEPT ![n] = Write(calls[n], item)]
    BY <1>3 DEF Parse
  <2>3. n \in DOMAIN calls /\ calls[n] \in CallType
    BY <1>3, SMTT(30) DEF Parse, ClientTypeOK, NsCall, StmtCall
  <2> HIDE DEF n, item
  <2>4. Append(calls[n].sent, item) \in Seq(Item)
    BY <2>1, <2>3, SMTT(30) DEF CallType
  <2>5. [calls[n] EXCEPT !.sent = Append(@, item)] \in CallType
    BY <2>3, <2>4 DEF CallType
  <2>6. Write(calls[n], item) \in CallType
    BY <2>3, <2>5 DEF Write
  <2>7. calls' \in Seq(CallType) /\ Len(calls') = Len(calls)
    BY <2>2, <2>3, <2>6, CallChanges DEF ClientTypeOK
  <2> QED
    BY <1>3, <2>7, SMTT(30) DEF Parse, ClientTypeOK, serverVars, selectVars, Command
<1>4. CASE ParseEnds
  <2>1. calls' \in Seq(CallType) /\ Len(calls') = Len(calls)
    BY <1>4, EndsEffect DEF ParseEnds, ClientTypeOK
  <2> QED
    BY <1>4, <2>1 DEF ParseEnds, ClientTypeOK, serverVars, selectVars, userVars, Command
<1>5. CASE ParseError
  <2>1. calls' \in Seq(CallType)
    BY <1>5, CutCallsType DEF ParseError, ClientTypeOK
  <2> QED
    BY <1>5, <2>1 DEF ParseError, ClientTypeOK, serverVars, selectVars, userVars, Command
<1>6. CASE ImportReport
  BY <1>6 DEF ImportReport, ClientTypeOK, serverVars, selectVars, userVars, Command
<1>7. CASE StartDelete
  <2>1. calls' \in Seq(CallType)
    <3>1. Command.pattern \in Pattern
      BY <1>1, <1>7, CommandType DEF StartDelete
    <3> QED
      BY <1>7, <3>1, NewCallType, SMTT(30) DEF StartDelete, ClientTypeOK
  <2> QED
    BY <1>1, <1>7, <2>1, SMTT(30) DEF StartDelete, ClientTypeOK, serverVars, selectVars, Command
<1>8. CASE DeleteReport
  BY <1>8 DEF DeleteReport, ClientTypeOK, serverVars, selectVars, userVars, Command
<1>9. CASE StartSelect
  BY <1>1, <1>9, SMTT(30) DEF StartSelect, ClientTypeOK, serverVars, Command
<1>10. CASE Read
  <2>1. printed' \in Seq(Statement) /\ read' \in Nat
    BY <1>10, SMTT(30) DEF Read, ClientTypeOK, ScanInvariant, ScanTypeOK
  <2> QED
    BY <1>10, <2>1 DEF Read, ClientTypeOK, serverVars, userVars, Command
<1>11. CASE SerializationError
  BY <1>11 DEF SerializationError, ClientTypeOK, serverVars, userVars, Command
<1>12. CASE ReadEnds
  <2>1. printed' \in Seq(Statement)
    <3>1. /\ emitted \in Seq(Statement) /\ printed \in Seq(Statement)
          /\ read \in Nat /\ read <= Len(emitted)
      BY DEF ClientTypeOK, ScanInvariant, ScanTypeOK, SelectInvariant
    <3>2. SubSeq(emitted, 1, read) \in Seq(Statement)
      BY <3>1, SMTT(30)
    <3> QED
      BY <1>12, <3>1, <3>2 DEF ReadEnds
  <2> QED
    BY <1>12, <2>1 DEF ReadEnds, ClientTypeOK, serverVars, userVars, Command
<1>13. CASE Exit
  <2>1. script' \in Seq(Commands)
    BY <1>13, SMTT(30) DEF Exit, ClientTypeOK
  <2> QED
    BY <1>13, <2>1 DEF Exit, ClientTypeOK, serverVars
<1> QED
  BY <1>2, <1>3, <1>4, <1>5, <1>6, <1>7, <1>8, <1>9, <1>10, <1>11, <1>12, <1>13 DEF Client

\* A step of a handler leaves the client, the scan and the other calls alone.
LEMMA HandlerEffect ==
    ASSUME ClientTypeOK, CallsAgree, NEW n \in 1 .. MaxCalls, Handler(n)
    PROVE  /\ UNCHANGED serverOnly /\ n \in DOMAIN calls
           /\ calls' \in Seq(CallType) /\ Len(calls') = Len(calls) /\ DOMAIN calls' = DOMAIN calls
           /\ \A m \in DOMAIN calls \ {n} : calls'[m] = calls[m]
           /\ calls'[n].kind = calls[n].kind /\ calls'[n].pattern = calls[n].pattern
           /\ calls'[n].ended = calls[n].ended /\ calls'[n].up = calls[n].up
           /\ store' \in [Key -> Entry] /\ unknown' \in SUBSET Key
           /\ state' \in [1 .. MaxCalls -> {"idle", "open", "closing"}]
           /\ pending' \in [1 .. MaxCalls -> [Key -> Entry \cup {Keep}]]
           /\ \A m \in (1 .. MaxCalls) \ {n} : state'[m] = state[m] /\ pending'[m] = pending[m]
<1> DEFINE Others == /\ \A m \in DOMAIN calls \ {n} : calls'[m] = calls[m]
                     /\ \A m \in (1 .. MaxCalls) \ {n} : state'[m] = state[m] /\ pending'[m] = pending[m]
           ServerType == /\ store' \in [Key -> Entry] /\ unknown' \in SUBSET Key
                         /\ state' \in [1 .. MaxCalls -> {"idle", "open", "closing"}]
                         /\ pending' \in [1 .. MaxCalls -> [Key -> Entry \cup {Keep}]]
           Alike(c) == /\ c.kind = calls[n].kind /\ c.pattern = calls[n].pattern
                       /\ c.ended = calls[n].ended /\ c.up = calls[n].up
<1>0. /\ n \in DOMAIN calls /\ calls \in Seq(CallType) /\ calls[n] \in CallType
      /\ store \in [Key -> Entry] /\ unknown \in SUBSET Key
      /\ state \in [1 .. MaxCalls -> {"idle", "open", "closing"}]
      /\ pending \in [1 .. MaxCalls -> [Key -> Entry \cup {Keep}]]
  BY SMTT(30) DEF Handler, ClientTypeOK
<1>1. CASE Begin(n)
  <2>1. calls' = [calls EXCEPT ![n] = [calls[n] EXCEPT !.work = "work"]]
    BY <1>1 DEF Begin
  <2>2. [calls[n] EXCEPT !.work = "work"] \in CallType /\ Alike([calls[n] EXCEPT !.work = "work"])
    BY <1>0 DEF CallType
  <2>3. ServerType /\ Others
    BY <1>0, <1>1, <2>1 DEF Begin, Server!Begin
  <2> QED
    BY <1>0, <1>1, <2>1, <2>2, <2>3, CallChanges DEF Begin
<1>2. CASE Request(n)
  <2> DEFINE c == [calls[n] EXCEPT !.sent = Tail(@), !.count = @ + 1]
             item == Head(calls[n].sent)
  <2>1. calls' = [calls EXCEPT ![n] = c]
    BY <1>0, <1>2 DEF Request
  <2>0. calls[n].sent \in Seq(Item) /\ calls[n].sent # <<>>
    BY <1>0, <1>2 DEF Request, CallType
  <2>2. item \in Item /\ Tail(calls[n].sent) \in Seq(Item)
    BY <2>0, SMTT(30)
  <2>3. item.key \in Key /\ item.value \in Entry
    BY <2>2 DEF Item, Entry
  <2>4. calls[n].count + 1 \in Counts
    BY <1>0, <1>2, SMTT(30) DEF Request, CallsAgree, Counts
  <2>5. c \in CallType /\ Alike(c)
    BY <1>0, <2>2, <2>4 DEF CallType
  <2>6. ServerType /\ Others
    <3> HIDE DEF item
    <3>1. pending' = [pending EXCEPT ![n] = [@ EXCEPT ![item.key] = item.value]]
      BY <1>2 DEF Request, Server!Put, item
    <3>2. pending'[n] \in [Key -> Entry \cup {Keep}]
      BY <1>0, <2>3, <3>1
    <3> QED
      BY <1>0, <1>2, <2>1, <3>1, <3>2 DEF Request, Server!Put
  <2> HIDE DEF c, item
  <2>7. UNCHANGED serverOnly
    BY <1>2 DEF Request
  <2> QED
    BY <1>0, <2>1, <2>5, <2>6, <2>7, CallChanges
<1>3. CASE Remove(n)
  <2> DEFINE count == Cardinality({k \in Key : pending'[n][k] = Absent})
             c == [calls[n] EXCEPT !.work = "work", !.count = count]
  <2>1. calls' = [calls EXCEPT ![n] = c]
    BY <1>0, <1>3 DEF Remove
  <2>2. count \in Counts
    BY DEF Counts
  <2>3. c \in CallType /\ Alike(c)
    BY <1>0, <2>2 DEF CallType
  <2>4. PICK D : /\ pending' = [pending EXCEPT ![n] = Server!Deleted(Server!NoChange, D)]
                 /\ \/ /\ state' = [state EXCEPT ![n] = "open"]
                       /\ UNCHANGED <<store, unknown>>
                    \/ /\ state' = [state EXCEPT ![n] = "closing"]
                       /\ Server!Settle(n, Server!Deleted(Server!NoChange, D))
    BY <1>3 DEF Remove, Server!Remove
  <2>5. Server!Deleted(Server!NoChange, D) \in [Key -> Entry \cup {Keep}]
    BY DEF Server!Deleted, Server!NoChange, Entry
  <2>6. store' \in [Key -> Entry] /\ unknown' \in SUBSET Key
    BY <1>0, <2>4, SettleType
  <2>7. ServerType /\ Others
    BY <1>0, <2>1, <2>4, <2>5, <2>6
  <2> HIDE DEF c, count
  <2>8. UNCHANGED serverOnly
    BY <1>3 DEF Remove
  <2> QED
    BY <1>0, <2>1, <2>3, <2>7, <2>8, CallChanges
<1>4. CASE HandlerWrites(n)
  <2>1. store' \in [Key -> Entry] /\ unknown' \in SUBSET Key
    BY <1>0, <1>4, SettleType DEF HandlerWrites, Server!Close
  <2> QED
    BY <1>0, <1>4, <2>1 DEF HandlerWrites, Server!Close
<1>5. CASE HandlerReturns(n)
  <2>1. calls' = [calls EXCEPT ![n] = [calls[n] EXCEPT !.work = "done"]]
    BY <1>5 DEF HandlerReturns
  <2>2. [calls[n] EXCEPT !.work = "done"] \in CallType /\ Alike([calls[n] EXCEPT !.work = "done"])
    BY <1>0 DEF CallType
  <2>3. store' \in [Key -> Entry]
    BY <1>0, <1>5, SMTT(30) DEF HandlerReturns, Server!Commit, Server!Applied
  <2>4. ServerType /\ Others
    BY <1>0, <1>5, <2>1, <2>3 DEF HandlerReturns, Server!Commit, Server!NoChange
  <2> QED
    BY <1>0, <1>5, <2>1, <2>2, <2>4, CallChanges DEF HandlerReturns
<1>6. CASE Answer(n)
  <2>1. calls' = [calls EXCEPT ![n] = [calls[n] EXCEPT !.status = "ok"]]
    BY <1>6 DEF Answer
  <2>2. [calls[n] EXCEPT !.status = "ok"] \in CallType /\ Alike([calls[n] EXCEPT !.status = "ok"])
    BY <1>0 DEF CallType
  <2>3. ServerType /\ Others
    BY <1>0, <1>6, <2>1 DEF Answer, serverVars
  <2> QED
    BY <1>0, <1>6, <2>1, <2>2, <2>3, CallChanges DEF Answer
<1> QED
  BY <1>1, <1>2, <1>3, <1>4, <1>5, <1>6 DEF Handler

LEMMA HandlerType ==
    ASSUME ClientTypeOK, CallsAgree, NEW n \in 1 .. MaxCalls, Handler(n) PROVE ClientTypeOK'
  BY HandlerEffect DEF ClientTypeOK, serverOnly, userVars, selectVars, Command

\* The calls after a crash.
LEMMA CrashEffect ==
    ASSUME ClientTypeOK, Crash
    PROVE  /\ calls' \in Seq(CallType) /\ Len(calls') = Len(calls) /\ DOMAIN calls' = DOMAIN calls
           /\ \A n \in DOMAIN calls :
                 /\ calls'[n].kind = calls[n].kind /\ calls'[n].pattern = calls[n].pattern
                 /\ calls'[n].ended = calls[n].ended /\ calls'[n].count = calls[n].count
                 /\ IF calls[n].status = "ok" THEN calls'[n] = calls[n]
                    ELSE /\ ~calls'[n].up /\ calls'[n].sent = <<>>
                         /\ calls'[n].status = "failed" /\ calls'[n].work = "done"
           /\ store' \in [Key -> Entry] /\ unknown' \in SUBSET Key
           /\ \A k \in Key : k \notin unknown' => k \notin unknown /\ store'[k] = store[k]
           /\ state' = [n \in 1 .. MaxCalls |-> "idle"]
           /\ pending' = [n \in 1 .. MaxCalls |-> Server!NoChange]
<1>1. /\ calls \in Seq(CallType) /\ store \in [Key -> Entry] /\ unknown \in SUBSET Key
      /\ DOMAIN calls = 1 .. Len(calls) /\ Len(calls) \in Nat
  BY SMTT(30) DEF ClientTypeOK
<1>2. DOMAIN calls' = DOMAIN calls /\ calls' = [n \in DOMAIN calls |-> calls'[n]]
  BY DEF Crash
<1>3. ASSUME NEW n \in DOMAIN calls
      PROVE  /\ calls'[n] \in CallType
             /\ calls'[n].kind = calls[n].kind /\ calls'[n].pattern = calls[n].pattern
             /\ calls'[n].ended = calls[n].ended /\ calls'[n].count = calls[n].count
             /\ IF calls[n].status = "ok" THEN calls'[n] = calls[n]
                ELSE /\ ~calls'[n].up /\ calls'[n].sent = <<>>
                     /\ calls'[n].status = "failed" /\ calls'[n].work = "done"
  <2>1. calls[n] \in CallType
    BY <1>1, SMTT(30)
  <2>2. CASE calls[n].status = "ok"
    BY <2>1, <2>2 DEF Crash
  <2>3. CASE calls[n].status # "ok"
    <3>1. calls'[n] = [calls[n] EXCEPT !.up = FALSE, !.sent = <<>>, !.status = "failed", !.work = "done"]
      BY <2>3 DEF Crash
    <3>2. <<>> \in Seq(Item)
      BY SMTT(30)
    <3>3. calls'[n] \in CallType
      BY <2>1, <3>1, <3>2 DEF CallType
    <3>4. /\ calls'[n].kind = calls[n].kind /\ calls'[n].pattern = calls[n].pattern
          /\ calls'[n].ended = calls[n].ended /\ calls'[n].count = calls[n].count
          /\ calls'[n].up = FALSE /\ calls'[n].sent = <<>>
          /\ calls'[n].status = "failed" /\ calls'[n].work = "done"
      BY <2>1, <3>1 DEF CallType
    <3> QED
      BY <2>3, <3>3, <3>4
  <2> QED
    BY <2>2, <2>3
<1>4. calls' \in Seq(CallType) /\ Len(calls') = Len(calls)
  <2>1. calls' \in [1 .. Len(calls) -> CallType]
    BY <1>1, <1>3, <1>2
  <2> QED
    BY <1>1, <2>1, SMTT(30)
<1>5. /\ unknown' \in SUBSET Key /\ unknown \subseteq unknown' /\ Server!KeepKnown
      /\ state' = [n \in 1 .. MaxCalls |-> "idle"]
      /\ pending' = [n \in 1 .. MaxCalls |-> Server!NoChange]
  BY <1>1 DEF Crash, Server!Crash
<1>6. /\ store' \in [Key -> Entry]
      /\ \A k \in Key : k \notin unknown' => k \notin unknown /\ store'[k] = store[k]
  BY <1>1, <1>5, KeepKnownType
<1> QED
  BY <1>1, <1>3, <1>4, <1>5, <1>6, <1>2

LEMMA FaultType ==
    ASSUME ClientTypeOK, BreakCalls \/ BreakSelect \/ Crash \/ GetStatements \/ Idle PROVE ClientTypeOK'
<1>1. CASE BreakCalls
  <2>1. calls' \in Seq(CallType) /\ Len(calls') = Len(calls)
    BY <1>1, CutCallsType DEF BreakCalls, ClientTypeOK
  <2> QED
    BY <1>1, <2>1 DEF BreakCalls, ClientTypeOK, serverVars, userVars, selectVars, Command
<1>2. CASE BreakSelect
  BY <1>2 DEF BreakSelect, ClientTypeOK, serverVars, userVars, Command
<1>3. CASE Crash
  <2>1. /\ state' \in [1 .. MaxCalls -> {"idle", "open", "closing"}]
        /\ pending' \in [1 .. MaxCalls -> [Key -> Entry \cup {Keep}]]
    BY <1>3, CrashEffect, SMTT(30) DEF Server!NoChange
  <2> QED
    BY <1>3, <2>1, CrashEffect DEF Crash, ClientTypeOK, userVars, Command
<1>4. CASE GetStatements
  BY <1>4 DEF GetStatements, ClientTypeOK, serverVars, userVars, selectVars, Command
<1>5. CASE Idle
  BY <1>5 DEF Idle, vars, ClientTypeOK, serverVars, userVars, selectVars, Command
<1> QED
  BY <1>1, <1>2, <1>3, <1>4, <1>5

-----------------------------------------------------------------------------
(* The calls of the client and of the server *)

LEMMA InitCalls == Init => CallsAgree
  BY SMTT(30) DEF Init, CallsAgree, ImportCalls

\* What CallsAgree says of one call of the client.
Agrees(c) ==
    /\ c.status = "ok" => c.work = "done"
    /\ c.status = "failed" <=> ~c.up
    /\ IF c.kind = "remove" THEN c.sent = <<>> ELSE c.count \in Nat

LEMMA CallsAgreeStep ==
    ASSUME ImportCalls',
           \A n \in DOMAIN calls' : Agrees(calls'[n]),
           \A n \in 1 .. MaxCalls :
              \/ state'[n] = "idle" /\ pending'[n] = Server!NoChange
              \/ state'[n] # "idle" /\ n \in DOMAIN calls' /\ calls'[n].work = "work"
    PROVE  CallsAgree'
  BY DEF CallsAgree, Agrees, Server!NoChange

LEMMA KindsStay ==
    ASSUME ClientTypeOK, ImportCalls, at' \in {"parse", "finish"} => at \in {"parse", "finish"},
           Len(calls') = Len(calls), \A n \in DOMAIN calls : calls'[n].kind = calls[n].kind
    PROVE  ImportCalls'
<1> SUFFICES ASSUME at' \in {"parse", "finish"}
             PROVE  (calls[NsCall].kind = "ns" /\ calls[StmtCall].kind = "stmt")'
  BY DEF ImportCalls
<1>1. /\ NsCall \in DOMAIN calls /\ StmtCall \in DOMAIN calls
      /\ calls[NsCall].kind = "ns" /\ calls[StmtCall].kind = "stmt"
  BY SMTT(30) DEF ClientTypeOK, NsCall, StmtCall, ImportCalls
<1>2. NsCall' = NsCall /\ StmtCall' = StmtCall
  BY DEF NsCall, StmtCall
<1> QED
  BY <1>1, <1>2

LEMMA CutAgrees ==
    ASSUME ClientTypeOK, CallsAgree, NEW N, CutCalls(N), UNCHANGED serverVars,
           at' \in {"parse", "finish"} => at \in {"parse", "finish"}
    PROVE  CallsAgree'
<1>1. /\ DOMAIN calls' = DOMAIN calls /\ Len(calls') = Len(calls)
      /\ \A n \in DOMAIN calls : calls[n] \in CallType
      /\ \A n \in DOMAIN calls : calls'[n] \in Cut(calls[n]) \/ calls'[n] = calls[n]
  BY CutCallsType, SMTT(30) DEF ClientTypeOK
<1>2. ASSUME NEW n \in DOMAIN calls
      PROVE  /\ Agrees(calls'[n]) /\ calls'[n].kind = calls[n].kind
             /\ calls[n].work = "work" => calls'[n].work = "work"
  <2>1. Agrees(calls[n])
    BY DEF CallsAgree, Agrees
  <2> QED
    BY <1>1, <2>1, CutType, SMTT(30) DEF Agrees
<1>3. ImportCalls'
  BY <1>1, <1>2, KindsStay DEF CallsAgree
<1> QED
  BY <1>1, <1>2, <1>3, CallsAgreeStep DEF CallsAgree, serverVars

LEMMA ClientCalls ==
    ASSUME ClientTypeOK, CallsAgree, Client PROVE CallsAgree'
<1>0. /\ calls \in Seq(CallType)
      /\ DOMAIN calls = 1 .. Len(calls) /\ Len(calls) \in Nat
      /\ \A n \in DOMAIN calls : Agrees(calls[n]) /\ calls[n] \in CallType
      /\ \A n \in 1 .. MaxCalls :
            \/ state[n] = "idle" /\ pending[n] = Server!NoChange
            \/ state[n] # "idle" /\ n \in DOMAIN calls /\ calls[n].work = "work"
      /\ ImportCalls
  BY SMTT(30) DEF ClientTypeOK, CallsAgree, Agrees
<1>1. \A kind, pat : Agrees(NewCall(kind, pat))
  BY DEF Agrees, NewCall
<1>2. CASE StartImport
  <2> DEFINE c == NewCall("ns", Anything)
             d == NewCall("stmt", Anything)
  <2>1. calls' = calls \o <<c, d>> /\ UNCHANGED serverVars
    BY <1>2 DEF StartImport
  <2>2. Agrees(c) /\ Agrees(d) /\ c.kind = "ns" /\ d.kind = "stmt"
    BY <1>1 DEF NewCall
  <2> HIDE DEF c, d
  <2>3. /\ DOMAIN calls' = 1 .. (Len(calls) + 2) /\ Len(calls') = Len(calls) + 2
        /\ \A n \in 1 .. Len(calls) : calls'[n] = calls[n]
        /\ calls'[Len(calls) + 1] = c /\ calls'[Len(calls) + 2] = d
    BY <1>0, <2>1, SMTT(30)
  <2>4. \A n \in DOMAIN calls' : Agrees(calls'[n])
    BY <1>0, <2>2, <2>3, SMTT(30)
  <2>5. ImportCalls'
    BY <1>0, <2>2, <2>3, SMTT(30) DEF ImportCalls, NsCall, StmtCall
  <2> QED
    BY <1>0, <2>1, <2>3, <2>4, <2>5, CallsAgreeStep, SMTT(30) DEF serverVars
<1>3. CASE Parse
  <2> DEFINE item == Items[line + 1]
             n == IF item.key \in Statement THEN StmtCall ELSE NsCall
             c == Write(calls[n], item)
  <2>1. calls' = [calls EXCEPT ![n] = c] /\ UNCHANGED serverVars /\ at' = at
    BY <1>3 DEF Parse
  <2>2. n \in DOMAIN calls /\ calls[n].kind \in {"ns", "stmt"}
    BY <1>0, <1>3, SMTT(30) DEF Parse, ClientTypeOK, NsCall, StmtCall, ImportCalls
  <2> HIDE DEF n, item
  <2>3. Agrees(c) /\ c.work = calls[n].work /\ c.kind = calls[n].kind
    BY <1>0, <2>2 DEF Write, CallType, Agrees
  <2> HIDE DEF c
  <2>4. /\ DOMAIN calls' = DOMAIN calls /\ Len(calls') = Len(calls) /\ calls'[n] = c
        /\ \A m \in DOMAIN calls \ {n} : calls'[m] = calls[m]
    BY <1>0, <2>1, <2>2, SMTT(30)
  <2>5. ImportCalls'
    BY <1>0, <2>1, <2>3, <2>4, KindsStay
  <2> QED
    BY <1>0, <2>1, <2>3, <2>4, <2>5, CallsAgreeStep DEF serverVars
<1>4. CASE ParseEnds
  <2>1. /\ UNCHANGED serverVars /\ at = "parse" /\ at' = "finish" /\ Len(calls) >= 2
        /\ calls' = [calls EXCEPT ![StmtCall].ended = TRUE, ![NsCall].ended = TRUE]
    BY <1>4 DEF ParseEnds, ClientTypeOK
  <2>2. /\ DOMAIN calls' = DOMAIN calls /\ Len(calls') = Len(calls)
        /\ \A n \in DOMAIN calls :
              /\ calls'[n].kind = calls[n].kind /\ calls'[n].sent = calls[n].sent
              /\ calls'[n].up = calls[n].up /\ calls'[n].work = calls[n].work
              /\ calls'[n].count = calls[n].count /\ calls'[n].status = calls[n].status
    BY <1>0, <2>1, EndsEffect
  <2>3. \A n \in DOMAIN calls : Agrees(calls'[n])
    BY <1>0, <2>2, SMTT(30) DEF Agrees
  <2>4. ImportCalls'
    BY <1>0, <2>2, <2>1, KindsStay
  <2>5. \A n \in 1 .. MaxCalls :
           \/ state'[n] = "idle" /\ pending'[n] = Server!NoChange
           \/ state'[n] # "idle" /\ n \in DOMAIN calls' /\ calls'[n].work = "work"
    <3>1. state' = state /\ pending' = pending
      BY <2>1 DEF serverVars
    <3> QED
      BY <1>0, <2>2, <3>1
  <2> QED
    BY <2>2, <2>4, <2>3, <2>5, CallsAgreeStep
<1>5. CASE ParseError
  <2>1. CutCalls({NsCall, StmtCall}) /\ UNCHANGED serverVars /\ at' = "exit"
    BY <1>5 DEF ParseError
  <2> QED
    BY <1>0, <2>1, CutAgrees DEF serverVars
<1>6. CASE ImportReport \/ DeleteReport \/ Read \/ SerializationError \/ ReadEnds \/ Exit
  <2>1. UNCHANGED <<serverVars, calls>> /\ (at' = at \/ at' \in {"exit", "start"})
    BY <1>6 DEF ImportReport, DeleteReport, Read, SerializationError, ReadEnds, Exit
  <2>2. ImportCalls'
    BY <1>0, <2>1, KindsStay
  <2> QED
    BY <1>0, <2>1, <2>2, CallsAgreeStep DEF serverVars
<1>7. CASE StartDelete
  <2> DEFINE c == NewCall("remove", Command.pattern)
  <2>1. calls' = Append(calls, c) /\ UNCHANGED serverVars /\ at' = "wait"
    BY <1>7 DEF StartDelete
  <2>2. Agrees(c)
    BY <1>1
  <2> HIDE DEF c
  <2>3. /\ DOMAIN calls' = 1 .. (Len(calls) + 1)
        /\ \A n \in 1 .. Len(calls) : calls'[n] = calls[n]
        /\ calls'[Len(calls) + 1] = c
    BY <1>0, <2>1, SMTT(30)
  <2>4. \A n \in DOMAIN calls' : Agrees(calls'[n])
    BY <1>0, <2>2, <2>3, SMTT(30)
  <2>5. ImportCalls'
    BY <2>1 DEF ImportCalls
  <2> QED
    BY <1>0, <2>1, <2>3, <2>4, <2>5, CallsAgreeStep, SMTT(30) DEF serverVars
<1>8. CASE StartSelect
  <2>1. UNCHANGED <<serverVars, calls>> /\ at' = "read"
    BY <1>8 DEF StartSelect
  <2> QED
    BY <1>0, <2>1, CallsAgreeStep DEF serverVars, ImportCalls
<1> QED
  BY <1>2, <1>3, <1>4, <1>5, <1>6, <1>7, <1>8 DEF Client

LEMMA HandlerCalls ==
    ASSUME ClientTypeOK, CallsAgree, NEW n \in 1 .. MaxCalls, Handler(n) PROVE CallsAgree'
<1>0. /\ n \in DOMAIN calls /\ calls[n] \in CallType
      /\ \A m \in DOMAIN calls : Agrees(calls[m])
      /\ \A m \in 1 .. MaxCalls :
            \/ state[m] = "idle" /\ pending[m] = Server!NoChange
            \/ state[m] # "idle" /\ m \in DOMAIN calls /\ calls[m].work = "work"
      /\ ImportCalls
      /\ state \in [1 .. MaxCalls -> {"idle", "open", "closing"}]
      /\ pending \in [1 .. MaxCalls -> [Key -> Entry \cup {Keep}]]
  BY SMTT(30) DEF Handler, ClientTypeOK, CallsAgree, Agrees
<1>1. /\ Len(calls') = Len(calls) /\ DOMAIN calls' = DOMAIN calls /\ at' = at
      /\ \A m \in DOMAIN calls \ {n} : calls'[m] = calls[m]
      /\ calls'[n].kind = calls[n].kind /\ calls'[n].up = calls[n].up
      /\ \A m \in (1 .. MaxCalls) \ {n} : state'[m] = state[m] /\ pending'[m] = pending[m]
  BY HandlerEffect DEF serverOnly
<1>2. ImportCalls'
  BY <1>0, <1>1, KindsStay
<1>3. SUFFICES /\ Agrees(calls'[n])
               /\ \/ state'[n] = "idle" /\ pending'[n] = Server!NoChange
                  \/ state'[n] # "idle" /\ calls'[n].work = "work"
  <2>1. \A m \in DOMAIN calls' : Agrees(calls'[m])
    BY <1>0, <1>1, <1>3
  <2> QED
    BY <1>0, <1>1, <1>2, <1>3, <2>1, CallsAgreeStep
<1>4. CASE Begin(n)
  <2>1. calls'[n] = [calls[n] EXCEPT !.work = "work"] /\ state'[n] = "open"
    BY <1>0, <1>4 DEF Begin, Server!Begin
  <2>2. calls[n].status # "ok"
    BY <1>0, <1>4 DEF Begin, Agrees
  <2> QED
    BY <1>0, <2>1, <2>2, SMTT(30) DEF Agrees, CallType
<1>5. CASE Request(n)
  <2>1. /\ calls'[n] = [calls[n] EXCEPT !.sent = Tail(@), !.count = @ + 1]
        /\ state'[n] = state[n] /\ state[n] = "open" /\ calls[n].sent # <<>>
    BY <1>0, <1>5 DEF Request, Server!Put
  <2>2. calls[n].kind # "remove" /\ calls[n].count \in Nat
    BY <1>0, <2>1 DEF Agrees
  <2>3. /\ calls'[n].count = calls[n].count + 1 /\ calls'[n].work = calls[n].work
        /\ calls'[n].status = calls[n].status
    BY <1>0, <2>1 DEF CallType
  <2> QED
    BY <1>0, <1>1, <2>1, <2>2, <2>3, SMTT(30) DEF Agrees
<1>6. CASE Remove(n)
  <2>1. /\ calls'[n].work = "work" /\ calls'[n].status = calls[n].status
        /\ calls'[n].sent = calls[n].sent
    BY <1>0, <1>6 DEF Remove, CallType
  <2>2. state'[n] \in {"open", "closing"}
    BY <1>0, <1>6 DEF Remove, Server!Remove
  <2>3. calls[n].kind = "remove" /\ calls[n].work = "new"
    BY <1>6 DEF Remove
  <2> QED
    BY <1>0, <1>1, <2>1, <2>2, <2>3, SMTT(30) DEF Agrees
<1>7. CASE HandlerWrites(n)
  <2>1. calls' = calls /\ state'[n] = "closing" /\ calls[n].work = "work"
    BY <1>0, <1>7 DEF HandlerWrites, Server!Close
  <2> QED
    BY <1>0, <2>1
<1>8. CASE HandlerReturns(n)
  <2>1. calls'[n] = [calls[n] EXCEPT !.work = "done"]
    BY <1>0, <1>8 DEF HandlerReturns
  <2>2. state'[n] = "idle" /\ pending'[n] = Server!NoChange
    BY <1>0, <1>8 DEF HandlerReturns, Server!Commit
  <2>3. Agrees(calls'[n])
    BY <1>0, <2>1 DEF Agrees, CallType
  <2> QED
    BY <2>2, <2>3
<1>9. CASE Answer(n)
  <2>1. /\ calls'[n] = [calls[n] EXCEPT !.status = "ok"] /\ state' = state /\ pending' = pending
        /\ calls[n].work = "done" /\ calls[n].up
    BY <1>0, <1>9 DEF Answer, serverVars
  <2>2. Agrees(calls'[n]) /\ calls'[n].work = calls[n].work
    BY <1>0, <2>1, SMTT(30) DEF Agrees, CallType
  <2> QED
    BY <1>0, <2>1, <2>2
<1> QED
  BY <1>4, <1>5, <1>6, <1>7, <1>8, <1>9 DEF Handler

LEMMA FaultCalls ==
    ASSUME ClientTypeOK, CallsAgree, BreakCalls \/ BreakSelect \/ Crash \/ GetStatements \/ Idle
    PROVE  CallsAgree'
<1>0. /\ \A n \in DOMAIN calls : Agrees(calls[n])
      /\ \A n \in 1 .. MaxCalls :
            \/ state[n] = "idle" /\ pending[n] = Server!NoChange
            \/ state[n] # "idle" /\ n \in DOMAIN calls /\ calls[n].work = "work"
      /\ ImportCalls
  BY DEF CallsAgree, Agrees
<1>1. CASE BreakCalls
  <2>1. PICK N : CutCalls(N)
    BY <1>1 DEF BreakCalls
  <2>2. UNCHANGED serverVars /\ at' = at
    BY <1>1 DEF BreakCalls
  <2> QED
    BY <2>1, <2>2, CutAgrees
<1>2. CASE BreakSelect \/ GetStatements \/ Idle
  <2>1. UNCHANGED <<serverVars, calls>> /\ at' = at
    BY <1>2 DEF BreakSelect, GetStatements, Idle, vars
  <2>2. ImportCalls'
    BY <1>0, <2>1, KindsStay
  <2> QED
    BY <1>0, <2>1, <2>2, CallsAgreeStep DEF serverVars
<1>3. CASE Crash
  <2>1. at' = at
    BY <1>3 DEF Crash
  <2>2. ImportCalls'
    BY <1>0, <1>3, <2>1, CrashEffect, KindsStay
  <2>3. ASSUME NEW n \in DOMAIN calls PROVE Agrees(calls'[n])
    BY <1>0, <1>3, CrashEffect, SMTT(30) DEF Agrees
  <2>4. /\ \A n \in 1 .. MaxCalls : state'[n] = "idle" /\ pending'[n] = Server!NoChange
        /\ DOMAIN calls' = DOMAIN calls
    BY <1>3, CrashEffect
  <2> QED
    BY <2>2, <2>3, <2>4, CallsAgreeStep
<1> QED
  BY <1>1, <1>2, <1>3

-----------------------------------------------------------------------------
(* The scan of the server *)

LEMMA ScanSteps == ClientTypeOK /\ [Next]_vars => [ScanNext]_scanVars
<1> SUFFICES ASSUME ClientTypeOK, [Next]_vars PROVE [ScanNext]_scanVars
  OBVIOUS
<1>1. CASE StartSelect
  <2>1. Command.pattern \in Pattern /\ RequestScan(Command.pattern)
    BY <1>1, CommandType DEF StartSelect, Start, ClientTypeOK
  <2> QED
    BY <2>1 DEF ScanNext
<1>2. CASE Client /\ ~StartSelect
  BY <1>2 DEF Client, StartImport, Parse, ParseEnds, ParseError, ImportReport, StartDelete,
              DeleteReport, Read, SerializationError, ReadEnds, Exit
<1>3. ASSUME NEW n \in 1 .. MaxCalls, Handler(n) PROVE UNCHANGED scanVars
  BY <1>3 DEF Handler, Begin, Request, Remove, HandlerWrites, HandlerReturns, Answer, serverOnly
<1>4. CASE GetStatements
  <2>1. CASE ScanBegins
    <3>1. PICK S \in Server!Found(Statement) : OpenScan(S)
      BY <2>1 DEF ScanBegins
    <3> QED
      BY <3>1, FoundType DEF ScanNext
  <2>2. CASE ScanStep(link)
    BY <2>2 DEF ScanNext, ClientTypeOK
  <2>3. CASE ScanEnds
    BY <2>3 DEF ScanNext
  <2> QED
    BY <1>4, <2>1, <2>2, <2>3 DEF GetStatements
<1>5. CASE Crash
  BY <1>5 DEF Crash, ScanNext, ScanDies
<1>6. CASE BreakCalls \/ BreakSelect \/ Idle \/ UNCHANGED vars
  BY <1>6 DEF BreakCalls, BreakSelect, Idle, vars
<1> QED
  BY <1>1, <1>2, <1>3, <1>4, <1>5, <1>6 DEF Next

-----------------------------------------------------------------------------
(* select *)

\* With no call at work, what is not a step of the client changes no entry.
LEMMA StoreRests ==
    ASSUME ClientTypeOK, CallsAgree, AllDone, unknown = {},
           \/ \E n \in 1 .. MaxCalls : Handler(n)
           \/ GetStatements \/ BreakCalls \/ BreakSelect \/ Crash \/ Idle \/ UNCHANGED vars
    PROVE  AllDone' /\ unknown' = {} /\ store' = store
<1>0. /\ store \in [Key -> Entry]
      /\ \A n \in DOMAIN calls : calls[n].work = "done" /\ calls[n] \in CallType
      /\ \A n \in 1 .. MaxCalls : state[n] = "idle"
  <2>1. /\ store \in [Key -> Entry] /\ \A n \in DOMAIN calls : calls[n].work = "done"
        /\ calls \in Seq(CallType)
    BY DEF ClientTypeOK, AllDone
  <2>2. \A n \in 1 .. MaxCalls : state[n] = "idle"
    BY <2>1 DEF CallsAgree
  <2> QED
    BY <2>1, <2>2, SMTT(30)
<1>1. ASSUME NEW n \in 1 .. MaxCalls, Handler(n)
      PROVE  AllDone' /\ unknown' = {} /\ store' = store
  <2>1. Answer(n)
    BY <1>0, <1>1 DEF Handler, Begin, Request, Remove, HandlerWrites, HandlerReturns, Server!Commit
  <2>2. /\ DOMAIN calls' = DOMAIN calls /\ n \in DOMAIN calls
        /\ \A m \in DOMAIN calls \ {n} : calls'[m] = calls[m]
    BY <1>1, HandlerEffect
  <2>3. calls'[n] = [calls[n] EXCEPT !.status = "ok"]
    BY <2>1, <2>2 DEF Answer
  <2>4. calls'[n].work = "done"
    BY <1>0, <2>2, <2>3 DEF CallType
  <2> QED
    BY <1>0, <2>1, <2>2, <2>4 DEF Answer, serverVars, AllDone
<1>2. CASE BreakCalls
  <2>1. /\ DOMAIN calls' = DOMAIN calls
        /\ \A n \in DOMAIN calls : calls'[n] \in Cut(calls[n]) \/ calls'[n] = calls[n]
    BY <1>2, CutCallsType DEF BreakCalls, ClientTypeOK
  <2>2. \A n \in DOMAIN calls : calls'[n].work = "done"
    BY <1>0, <2>1, CutType, SMTT(30)
  <2> QED
    BY <1>2, <2>1, <2>2 DEF BreakCalls, serverVars, AllDone
<1>3. CASE Crash
  <2>1. unknown' = {}
    BY <1>0, <1>3 DEF Crash, Server!Crash, Server!Busy
  <2>2. AllDone'
    BY <1>0, <1>3, CrashEffect DEF AllDone
  <2>3. store' \in [Key -> Entry] /\ \A k \in Key : store'[k] = store[k]
    BY <1>3, <2>1, CrashEffect
  <2> QED
    BY <1>0, <2>1, <2>2, <2>3, SMTT(30)
<1>4. CASE GetStatements \/ BreakSelect \/ Idle \/ UNCHANGED vars
  BY <1>4 DEF GetStatements, BreakSelect, Idle, vars, serverVars, AllDone
<1> QED
  BY <1>1, <1>2, <1>3, <1>4

LEMMA Prefixes ==
    ASSUME NEW S, NEW e \in Seq(S), NEW k \in 0 .. Len(e)
    PROVE  /\ SubSeq(e, 1, k) \in Seq(S) /\ Len(SubSeq(e, 1, k)) = k
           /\ \A i \in 1 .. k : SubSeq(e, 1, k)[i] = e[i]
  BY SMTT(30)

LEMMA PrefixStays ==
    ASSUME NEW S, NEW e \in Seq(S), NEW k \in 0 .. Len(e), NEW c \in S
    PROVE  SubSeq(Append(e, c), 1, k) = SubSeq(e, 1, k)
  BY SMTT(30)

LEMMA PrefixGrows ==
    ASSUME NEW S, NEW e \in Seq(S), NEW k \in 0 .. Len(e), k < Len(e)
    PROVE  SubSeq(e, 1, k + 1) = Append(SubSeq(e, 1, k), e[k + 1])
  BY SMTT(30)

LEMMA InitSelect == Init => SelectInvariant
  BY SMTT(30) DEF Init, ScanInit, SelectInvariant, QuietCommand

\* The steps of an import or a delete.
LEMMA SelectApart ==
    ASSUME SelectInvariant, UNCHANGED <<scanVars, selectVars>>, at' # "read",
           at' = "exit" => out'.op # "selected", ~QuietCommand("select")'
    PROVE  SelectInvariant'
  BY DEF SelectInvariant, scanVars, selectVars

\* The steps of the server and the faults: what a quiet select reads stays.
LEMMA SelectServed ==
    ASSUME ClientTypeOK, CallsAgree, SelectInvariant, UNCHANGED <<userVars, at>>,
           \/ \E n \in 1 .. MaxCalls : Handler(n)
           \/ GetStatements \/ BreakCalls \/ BreakSelect \/ Crash \/ Idle \/ UNCHANGED vars,
           QuietCommand("select")'
    PROVE  /\ QuietCommand("select") /\ unknown = {} /\ store = before
           /\ AllDone' /\ unknown' = {} /\ store' = before'
           /\ \A n \in 1 .. MaxCalls : state[n] = "idle"
<1>1. QuietCommand("select") /\ before' = before
  BY DEF QuietCommand, userVars, Command
<1>2. AllDone /\ unknown = {} /\ store = before
  BY <1>1 DEF SelectInvariant
<1>3. \A n \in 1 .. MaxCalls : state[n] = "idle"
  BY <1>2 DEF CallsAgree, AllDone
<1> QED
  BY <1>1, <1>2, <1>3, StoreRests

LEMMA SelectStep ==
    ASSUME ClientTypeOK, CallsAgree, ScanInvariant, ScanInvariant', SelectInvariant, [Next]_vars
    PROVE  SelectInvariant'
<1>0. /\ emitted \in Seq(Statement) /\ printed \in Seq(Statement) /\ read \in Nat
      /\ read <= Len(emitted) /\ Len(printed) <= Len(emitted)
      /\ printed = SubSeq(emitted, 1, Len(printed))
      /\ read \in 0 .. Len(emitted) /\ Len(printed) \in 0 .. Len(emitted)
  <2>1. emitted \in Seq(Statement) /\ printed \in Seq(Statement) /\ read \in Nat
    BY DEF ClientTypeOK, ScanInvariant, ScanTypeOK
  <2>2. /\ read <= Len(emitted) /\ Len(printed) <= Len(emitted)
        /\ printed = SubSeq(emitted, 1, Len(printed))
    BY DEF SelectInvariant
  <2> QED
    BY <2>1, <2>2, SMTT(30)
<1>1. CASE StartImport \/ StartDelete
  <2>1. UNCHANGED <<scanVars, selectVars, script>> /\ at' \in {"parse", "wait"}
    BY <1>1 DEF StartImport, StartDelete
  <2>2. Command.op \in {"import", "delete"}
    BY <1>1 DEF StartImport, StartDelete
  <2>3. ~QuietCommand("select")'
    BY <2>1, <2>2 DEF QuietCommand, Command
  <2> QED
    BY <2>1, <2>3, SelectApart
<1>2. CASE Parse \/ ParseEnds \/ ParseError \/ ImportReport \/ DeleteReport
  <2>1. UNCHANGED <<scanVars, selectVars, script>> /\ at \in {"parse", "finish", "wait"}
    BY <1>2 DEF Parse, ParseEnds, ParseError, ImportReport, DeleteReport, userVars
  <2>2. at' # "read" /\ (at' = "exit" => out'.op # "selected")
    BY <1>2, SMTT(30) DEF Parse, ParseEnds, ParseError, ImportReport, DeleteReport
  <2>3. ~QuietCommand("select")'
    BY <2>1 DEF QuietCommand, Command, ClientTypeOK
  <2> QED
    BY <2>1, <2>2, <2>3, SelectApart
<1>3. CASE StartSelect
  <2>1. /\ emitted' = <<>> /\ printed' = <<>> /\ read' = 0 /\ at' = "read" /\ scan' = "open"
        /\ pattern' = Command.pattern /\ UNCHANGED <<script, store, unknown, calls>>
        /\ quiet' = (AllDone /\ unknown = {}) /\ before' = store
    BY <1>3 DEF StartSelect, RequestScan, Start, serverVars
  <2>2. printed' = SubSeq(emitted', 1, Len(printed'))
    BY <2>1, SMTT(30)
  <2>3. QuietCommand("select")' => AllDone' /\ unknown' = {} /\ store' = before'
    BY <2>1 DEF QuietCommand, AllDone
  <2>4. Command' = Command
    BY <2>1 DEF Command
  <2> QED
    BY <2>1, <2>2, <2>3, <2>4, SMTT(30) DEF SelectInvariant
<1>4. CASE Read
  <2>1. /\ UNCHANGED <<scanVars, serverVars, userVars, at, out, link, calls>> /\ read' = read + 1
        /\ at = "read" /\ read < Len(emitted)
        /\ printed' = IF Streams THEN Append(printed, emitted[read + 1]) ELSE printed
    BY <1>4 DEF Read
  <2>2. /\ Streams => Len(printed) = read
        /\ Command' = Command /\ Streams' = Streams /\ (AllDone <=> AllDone')
        /\ QuietCommand("select")' => QuietCommand("select")
    BY <2>1 DEF SelectInvariant, Command, Streams, userVars, AllDone, QuietCommand
  <2>3. /\ emitted' = emitted /\ pattern' = pattern /\ scan' = scan /\ snapshot' = snapshot
        /\ unknown' = unknown /\ store' = store /\ before' = before /\ at' = "read"
    BY <2>1 DEF scanVars, serverVars, userVars
  <2>4. /\ Len(printed') <= Len(emitted) /\ printed' = SubSeq(emitted, 1, Len(printed'))
        /\ Streams => Len(printed') = read'
    <3>1. CASE Streams
      <4>1. printed' = SubSeq(emitted, 1, read + 1) /\ read + 1 \in 0 .. Len(emitted)
        BY <1>0, <2>1, <2>2, <3>1, PrefixGrows, SMTT(30)
      <4>2. Len(printed') = read + 1
        BY <1>0, <4>1, Prefixes
      <4> QED
        BY <1>0, <2>1, <4>1, <4>2, SMTT(30)
    <3>2. CASE ~Streams
      BY <1>0, <2>1, <3>2
    <3> QED
      BY <3>1, <3>2
  <2>5. read' <= Len(emitted)
    BY <1>0, <2>1, SMTT(30)
  <2>6. /\ pattern = Command.pattern
        /\ QuietCommand("select") =>
              /\ AllDone /\ unknown = {} /\ store = before
              /\ scan \in {"scan", "done", "stopped"} => snapshot = Statements(before)
    BY <2>1 DEF SelectInvariant
  <2> QED
    BY <2>2, <2>3, <2>4, <2>5, <2>6 DEF SelectInvariant
<1>5. CASE SerializationError
  <2>1. /\ UNCHANGED <<scanVars, serverVars, userVars, read, printed, calls>>
        /\ at = "read" /\ at' = "exit" /\ out'.op = "aborted"
    BY <1>5 DEF SerializationError
  <2>2. Command' = Command /\ (AllDone <=> AllDone') /\ (QuietCommand("select")' => QuietCommand("select"))
    BY <2>1 DEF Command, userVars, AllDone, QuietCommand
  <2> QED
    BY <2>1, <2>2 DEF SelectInvariant, scanVars, serverVars, userVars
<1>6. CASE ReadEnds
  <2>1. /\ UNCHANGED <<scanVars, serverVars, userVars, link, read, calls>>
        /\ at = "read" /\ at' = "exit" /\ StreamOver
        /\ printed' = IF Streams THEN printed ELSE SubSeq(emitted, 1, read)
    BY <1>6 DEF ReadEnds
  <2>2. /\ Command' = Command /\ (AllDone <=> AllDone')
        /\ QuietCommand("select")' => QuietCommand("select")
        /\ Command.op = "select" /\ pattern = Command.pattern /\ (Streams => Len(printed) = read)
    BY <2>1 DEF Command, userVars, AllDone, QuietCommand, SelectInvariant, ClientTypeOK
  <2>3. Len(printed') = read /\ printed' = SubSeq(emitted, 1, read)
    BY <1>0, <2>1, <2>2, Prefixes
  <2>4. link => scan = "done" /\ read = Len(emitted)
    BY <2>1 DEF StreamOver
  <2> QED
    BY <1>0, <2>1, <2>2, <2>3, <2>4 DEF SelectInvariant, scanVars, serverVars, userVars
<1>7. CASE Exit
  <2>1. UNCHANGED <<scanVars, read, printed>> /\ at' = "start"
    BY <1>7 DEF Exit
  <2> QED
    BY <2>1 DEF SelectInvariant, scanVars, QuietCommand
<1>8. ASSUME UNCHANGED <<scanVars, userVars, at, out, read, printed>>, link' => link,
             \/ \E n \in 1 .. MaxCalls : Handler(n)
             \/ BreakCalls \/ BreakSelect \/ Idle \/ UNCHANGED vars
      PROVE  SelectInvariant'
  <2>1. Command' = Command /\ Streams' = Streams
    BY <1>8 DEF Command, Streams, userVars
  <2>2. QuietCommand("select")' =>
           /\ QuietCommand("select") /\ before' = before
           /\ AllDone' /\ unknown' = {} /\ store' = before'
    BY <1>8, SelectServed DEF userVars
  <2> QED
    BY <1>8, <2>1, <2>2 DEF SelectInvariant, scanVars
<1>9. ASSUME NEW n \in 1 .. MaxCalls, Handler(n) PROVE SelectInvariant'
  BY <1>8, <1>9, HandlerEffect DEF serverOnly, selectVars
<1>10. CASE BreakCalls \/ BreakSelect \/ Idle \/ UNCHANGED vars
  <2>1. UNCHANGED <<scanVars, userVars, at, out, read, printed>> /\ (link' => link)
    BY <1>10, SMTT(30) DEF BreakCalls, BreakSelect, Idle, vars, selectVars
  <2> QED
    BY <1>8, <1>10, <2>1
<1>11. CASE Crash
  <2>1. /\ UNCHANGED <<snapshot, pattern, rest, emitted, userVars, read, printed, at>>
        /\ scan' = "none" /\ link' = FALSE
    BY <1>11 DEF Crash
  <2>2. Command' = Command /\ Streams' = Streams
    BY <2>1 DEF Command, Streams, userVars
  <2>3. QuietCommand("select")' => AllDone' /\ unknown' = {} /\ store' = before'
    BY <1>11, <2>1, SelectServed
  <2> QED
    BY <2>1, <2>2, <2>3 DEF SelectInvariant
<1>12. CASE GetStatements
  <2>1. /\ UNCHANGED <<userVars, selectVars, at, out>> /\ pattern' = pattern
        /\ ScanBegins \/ ScanStep(link) \/ ScanEnds
    BY <1>12 DEF GetStatements, ScanBegins, OpenScan, ScanStep, ScanEnds
  <2>2. Command' = Command /\ Streams' = Streams /\ before' = before
    BY <2>1 DEF Command, Streams, userVars
  <2>3. QuietCommand("select")' =>
           /\ QuietCommand("select") /\ unknown = {} /\ store = before
           /\ AllDone' /\ unknown' = {} /\ store' = before'
           /\ \A n \in 1 .. MaxCalls : state[n] = "idle"
    BY <1>12, <2>1, SelectServed
  <2>4. CASE ScanBegins
    <3>1. PICK S \in Server!Found(Statement) : OpenScan(S)
      BY <2>4 DEF ScanBegins
    <3>2. emitted' = emitted /\ snapshot' = S /\ scan = "open" /\ scan' = "scan"
      BY <3>1 DEF OpenScan
    <3>3. QuietCommand("select")' => S = Statements(before)
      <4> SUFFICES ASSUME QuietCommand("select")' PROVE S = Statements(before)
        OBVIOUS
      <4>1. {k \in Statement : k \in unknown \/ Server!Busy(k, {})} = {}
        BY <2>3 DEF Server!Busy
      <4>2. S = {k \in Statement : store[k] # Absent}
        BY <3>1, <4>1 DEF Server!Found
      <4> QED
        BY <2>3, <4>2 DEF Statements
    <3>4. Statements(before)' = Statements(before)
      BY <2>2 DEF Statements
    <3> QED
      BY <2>1, <2>2, <2>3, <3>2, <3>3, <3>4 DEF SelectInvariant, selectVars
  <2>5. CASE ScanStep(link)
    <3>1. /\ emitted' = Append(emitted, Current) /\ emitted' \in Seq(Statement)
          /\ snapshot' = snapshot /\ scan = "scan"
      BY <2>5 DEF ScanStep, ScanInvariant, ScanTypeOK
    <3>2. Len(emitted') = Len(emitted) + 1 /\ emitted'[Len(emitted) + 1] = Current
      BY <1>0, <3>1, SMTT(30)
    <3>3. Current \in Statement
      BY <1>0, <3>1, <3>2, SMTT(30)
    <3>4. /\ read' = read /\ link' = link /\ printed' = printed /\ at' = at /\ out' = out
          /\ printed' = SubSeq(emitted', 1, Len(printed'))
          /\ read' <= Len(emitted') /\ Len(printed') <= Len(emitted')
      BY <1>0, <2>1, <3>1, <3>2, <3>3, PrefixStays, SMTT(30) DEF selectVars
    <3> QED
      BY <2>1, <2>2, <2>3, <3>1, <3>4 DEF SelectInvariant
  <2>6. CASE ScanEnds
    <3>1. UNCHANGED <<emitted, snapshot>> /\ scan = "scan"
      BY <2>6 DEF ScanEnds
    <3> QED
      BY <2>1, <2>2, <2>3, <3>1 DEF SelectInvariant, selectVars, Statements
  <2> QED
    BY <2>1, <2>4, <2>5, <2>6
<1> QED
  BY <1>1, <1>2, <1>3, <1>4, <1>5, <1>6, <1>7, <1>9, <1>10, <1>11, <1>12 DEF Next, Client

-----------------------------------------------------------------------------
(* delete *)

LEMMA InitDelete == Init => DeleteInvariant
  BY DEF Init, DeleteInvariant

\* A call that begins to write while no other call writes the same keys.
LEMMA SettleAlone ==
    ASSUME store \in [Key -> Entry], unknown = {}, NEW n, NEW changes, Server!Settle(n, changes),
           \A g \in (1 .. MaxCalls) \ {n} : \A k \in Key :
              state[g] = "closing" /\ pending[g][k] # Keep => changes[k] = Keep
    PROVE  unknown' = {} /\ store' = store
<1>1. unknown' = {}
  BY DEF Server!Settle
<1>2. store' \in [Key -> Entry] /\ \A k \in Key : store'[k] = store[k]
  BY <1>1, KeepKnownType DEF Server!Settle
<1> QED
  BY <1>1, <1>2, SMTT(30)

\* The statements RemoveStatements finds when nothing is vague.
LEMMA FoundAlone ==
    ASSUME unknown = {}, \A g \in 1 .. MaxCalls : state[g] # "closing",
           NEW pat, NEW D \in Server!Found(Scan(Statement, pat))
    PROVE  D = Scan(Statements(store), pat)
<1>1. {k \in Scan(Statement, pat) : k \in unknown \/ Server!Busy(k, {})} = {}
  BY DEF Server!Busy
<1>2. D = {k \in Scan(Statement, pat) : store[k] # Absent}
  BY <1>1 DEF Server!Found
<1> QED
  BY <1>2 DEF Scan, Statements

LEMMA DeleteStarts ==
    ASSUME ClientTypeOK, StartDelete PROVE DeleteInvariant'
<1> SUFFICES ASSUME quiet' PROVE DeleteInvariant'
  BY DEF DeleteInvariant
<1> DEFINE c == NewCall("remove", Command.pattern)
<1>1. /\ calls' = Append(calls, c) /\ calls \in Seq(CallType) /\ UNCHANGED <<script, store, unknown>>
      /\ quiet' = (AllDone /\ unknown = {}) /\ before' = store
  BY DEF StartDelete, Start, ClientTypeOK, serverVars
<1>2. c.kind = "remove" /\ c.pattern = Command.pattern /\ c.work = "new" /\ Command' = Command
  BY <1>1 DEF NewCall, Command
<1> HIDE DEF c
<1>3. /\ Len(calls') = Len(calls) + 1 /\ Len(calls) \in Nat /\ calls' # <<>>
      /\ \A m \in 1 .. Len(calls) : calls'[m] = calls[m]
      /\ calls'[Len(calls')] = c
  BY <1>1, SMTT(30)
<1>4. \A m \in 1 .. (Len(calls') - 1) : calls'[m].work = "done"
  <2>1. DOMAIN calls = 1 .. Len(calls) /\ Len(calls') - 1 = Len(calls)
    BY <1>1, <1>3, SMTT(30)
  <2>2. \A m \in DOMAIN calls : calls[m].work = "done"
    BY <1>1 DEF AllDone
  <2> QED
    BY <1>3, <2>1, <2>2
<1> QED
  BY <1>1, <1>2, <1>3, <1>4 DEF DeleteInvariant

LEMMA DeleteHandler ==
    ASSUME ClientTypeOK, CallsAgree, DeleteInvariant, at = "wait", quiet,
           NEW n \in 1 .. MaxCalls, Handler(n)
    PROVE  DeleteInvariant'
<1> DEFINE L == Len(calls)
<1>0. /\ L \in Nat /\ L \in DOMAIN calls /\ DOMAIN calls = 1 .. L
      /\ \A m \in 1 .. (L - 1) : calls[m].work = "done"
      /\ \A m \in DOMAIN calls : calls[m] \in CallType
      /\ store \in [Key -> Entry]
      /\ state \in [1 .. MaxCalls -> {"idle", "open", "closing"}]
      /\ pending \in [1 .. MaxCalls -> [Key -> Entry \cup {Keep}]]
  BY SMTT(30) DEF ClientTypeOK, DeleteInvariant
<1>1. /\ UNCHANGED <<at, quiet, before, script>> /\ n \in DOMAIN calls
      /\ Len(calls') = L /\ DOMAIN calls' = DOMAIN calls
      /\ \A m \in DOMAIN calls \ {n} : calls'[m] = calls[m]
      /\ calls'[n].kind = calls[n].kind /\ calls'[n].pattern = calls[n].pattern
      /\ calls'[n].up = calls[n].up
  BY HandlerEffect DEF serverOnly, userVars
<1>2. Command' = Command /\ Gone' = Gone /\ Without' = Without
  BY <1>1 DEF Command, Gone, Without
<1>3. /\ calls[L].kind = "remove" /\ calls[L].pattern = Command.pattern
      /\ calls[L].work # "done" => unknown = {} /\ store = before
      /\ calls[L].work = "work" =>
            /\ pending[L] = [k \in Key |-> IF k \in Gone THEN Absent ELSE Keep]
            /\ calls[L].count = Cardinality(Gone)
      /\ calls[L].work = "done" /\ calls[L].up =>
            unknown = {} /\ store = Without /\ calls[L].count = Cardinality(Gone)
  BY DEF DeleteInvariant
<1>4. \A m \in (1 .. MaxCalls) \ {L} : state[m] = "idle"
  BY <1>0, SMTT(30) DEF CallsAgree
<1>5. calls[L].work # "work" /\ L \in 1 .. MaxCalls => state[L] = "idle"
  BY <1>0 DEF CallsAgree
<1>6. SUFFICES /\ \A m \in 1 .. (L - 1) : calls'[m].work = "done"
               /\ calls'[L].kind = "remove" /\ calls'[L].pattern = Command.pattern
               /\ calls'[L].work # "done" => unknown' = {} /\ store' = before
               /\ calls'[L].work = "work" =>
                     /\ pending'[L] = [k \in Key |-> IF k \in Gone THEN Absent ELSE Keep]
                     /\ calls'[L].count = Cardinality(Gone)
               /\ calls'[L].work = "done" /\ calls'[L].up =>
                     unknown' = {} /\ store' = Without /\ calls'[L].count = Cardinality(Gone)
  <2>1. calls' # <<>>
    BY <1>0, <1>1, SMTT(30)
  <2>2. Len(calls') = L /\ Command' = Command /\ Gone' = Gone /\ Without' = Without /\ before' = before
    BY <1>1, <1>2
  <2> HIDE DEF L
  <2> QED
    BY <1>6, <2>1, <2>2 DEF DeleteInvariant
<1> HIDE DEF L
<1>7. CASE Answer(n)
  <2>1. UNCHANGED serverVars /\ calls'[n] = [calls[n] EXCEPT !.status = "ok"]
    BY <1>0, <1>1, <1>7 DEF Answer
  <2>2. calls'[n].work = calls[n].work /\ calls'[n].count = calls[n].count
    BY <1>0, <1>1, <2>1 DEF CallType
  <2>3. \A m \in DOMAIN calls : /\ calls'[m].work = calls[m].work /\ calls'[m].count = calls[m].count
                                /\ calls'[m].kind = calls[m].kind /\ calls'[m].up = calls[m].up
                                /\ calls'[m].pattern = calls[m].pattern
    BY <1>1, <2>2
  <2>4. UNCHANGED <<store, pending, unknown>> /\ \A m \in 1 .. (L - 1) : m \in DOMAIN calls
    BY <1>0, <2>1, SMTT(30) DEF serverVars
  <2> QED
    BY <1>0, <1>3, <2>3, <2>4
<1>8. CASE n # L /\ ~Answer(n)
  <2>1. calls[n].work = "done" /\ state[n] = "idle"
    BY <1>0, <1>1, <1>4, <1>8, SMTT(30)
  <2> QED
    BY <1>8, <2>1 DEF Handler, Begin, Request, Remove, HandlerWrites, HandlerReturns, Server!Commit
<1>9. CASE n = L /\ Remove(n)
  <2>1. calls[n].work = "new" /\ unknown = {} /\ store = before /\ state[n] = "idle"
    BY <1>3, <1>5, <1>9 DEF Remove
  <2>2. PICK D \in Server!Found(Scan(Statement, Command.pattern)) :
           /\ pending' = [pending EXCEPT ![n] = Server!Deleted(Server!NoChange, D)]
           /\ \/ UNCHANGED <<store, unknown>>
              \/ Server!Settle(n, Server!Deleted(Server!NoChange, D))
    BY <1>3, <1>9 DEF Remove, Server!Remove
  <2>3. D = Gone
    BY <1>4, <1>9, <2>1, FoundAlone DEF Gone
  <2>4. pending'[n] = [k \in Key |-> IF k \in Gone THEN Absent ELSE Keep]
    BY <1>0, <2>2, <2>3 DEF Server!Deleted, Server!NoChange
  <2>5. unknown' = {} /\ store' = before
    <3>1. CASE UNCHANGED <<store, unknown>>
      BY <2>1, <3>1
    <3>2. CASE Server!Settle(n, Server!Deleted(Server!NoChange, D))
      BY <1>0, <1>4, <1>9, <2>1, <3>2, SettleAlone
    <3> QED
      BY <2>2, <3>1, <3>2
  <2>6. calls'[n] = [calls[n] EXCEPT !.work = "work",
                        !.count = Cardinality({k \in Key : pending'[n][k] = Absent})]
    BY <1>0, <1>1, <1>9 DEF Remove
  <2>7. {k \in Key : pending'[n][k] = Absent} = Gone
    <3>1. Gone \subseteq Key
      BY DEF Gone, Scan, Statements, Key
    <3> QED
      BY <2>4, <3>1, ClientAssumption
  <2>8. calls'[n].work = "work" /\ calls'[n].count = Cardinality(Gone)
    BY <1>0, <1>1, <2>6, <2>7 DEF CallType
  <2>9. \A m \in 1 .. (L - 1) : calls'[m].work = "done"
    BY <1>0, <1>1, <1>9, SMTT(30)
  <2> QED
    BY <1>1, <1>3, <1>9, <2>4, <2>5, <2>8, <2>9
<1>10. CASE n = L /\ HandlerWrites(n)
  <2>1. calls' = calls /\ calls[n].work = "work" /\ pending' = pending /\ Server!Settle(n, pending[n])
    BY <1>10 DEF HandlerWrites, Server!Close
  <2>2. unknown' = {} /\ store' = before
    BY <1>0, <1>3, <1>4, <1>10, <2>1, SettleAlone
  <2> QED
    BY <1>0, <1>3, <1>10, <2>1, <2>2
<1>11. CASE n = L /\ HandlerReturns(n)
  <2>1. state[n] = "closing" /\ store' = Server!Applied(pending[n]) /\ unknown' = unknown
    BY <1>11 DEF HandlerReturns, Server!Commit
  <2>2. calls[n].work = "work"
    BY <1>5, <1>11, <2>1
  <2>3. calls'[n] = [calls[n] EXCEPT !.work = "done"]
    BY <1>0, <1>1, <1>11 DEF HandlerReturns
  <2>4. calls'[n].work = "done" /\ calls'[n].count = calls[n].count
    BY <1>0, <1>1, <2>3 DEF CallType
  <2>5. store' = Without
    BY <1>0, <1>3, <1>11, <2>1, <2>2, ClientAssumption DEF Server!Applied, Without
  <2> QED
    BY <1>0, <1>1, <1>3, <1>11, <2>1, <2>2, <2>4, <2>5, SMTT(30)
<1>12. CASE n = L /\ (Begin(n) \/ Request(n))
  BY <1>0, <1>3, <1>12 DEF Begin, Request, CallsAgree
<1> QED
  BY <1>7, <1>8, <1>9, <1>10, <1>11, <1>12 DEF Handler

LEMMA DeleteStep ==
    ASSUME ClientTypeOK, CallsAgree, DeleteInvariant, [Next]_vars PROVE DeleteInvariant'
<1>1. CASE StartDelete
  BY <1>1, DeleteStarts
<1>2. CASE Client /\ ~StartDelete
  <2>1. at' # "wait"
    BY <1>2 DEF Client, StartImport, Parse, ParseEnds, ParseError, ImportReport, DeleteReport,
                StartSelect, Read, SerializationError, ReadEnds, Exit
  <2> QED
    BY <2>1 DEF DeleteInvariant
<1>3. ASSUME NEW n \in 1 .. MaxCalls, Handler(n) PROVE DeleteInvariant'
  <2>1. UNCHANGED <<at, quiet>>
    BY <1>3, HandlerEffect DEF serverOnly, userVars
  <2>2. CASE at = "wait" /\ quiet
    BY <1>3, <2>2, DeleteHandler
  <2>3. CASE ~(at = "wait" /\ quiet)
    BY <2>1, <2>3 DEF DeleteInvariant
  <2> QED
    BY <2>2, <2>3
<1>4. CASE GetStatements \/ BreakSelect \/ Idle \/ UNCHANGED vars
  <2>1. UNCHANGED <<at, quiet, before, script, calls, store, pending, unknown>>
    BY <1>4 DEF GetStatements, BreakSelect, Idle, vars, serverVars, userVars
  <2>2. Command' = Command /\ Gone' = Gone /\ Without' = Without
    BY <2>1 DEF Command, Gone, Without
  <2> QED
    BY <2>1, <2>2 DEF DeleteInvariant
<1>5. CASE BreakCalls \/ Crash
  <2>1. UNCHANGED <<at, quiet, before, script>>
    BY <1>5 DEF BreakCalls, Crash, userVars
  <2> SUFFICES ASSUME at = "wait", quiet PROVE DeleteInvariant'
    BY <2>1 DEF DeleteInvariant
  <2>2. Command' = Command /\ Gone' = Gone /\ Without' = Without
    BY <2>1 DEF Command, Gone, Without
  <2> DEFINE L == Len(calls)
  <2>3. /\ L \in Nat /\ L \in DOMAIN calls /\ DOMAIN calls = 1 .. L
        /\ \A m \in DOMAIN calls : calls[m] \in CallType
        /\ \A m \in 1 .. (L - 1) : calls[m].work = "done"
    BY SMTT(30) DEF ClientTypeOK, DeleteInvariant
  <2>4. /\ calls[L].kind = "remove" /\ calls[L].pattern = Command.pattern
        /\ calls[L].work # "done" => unknown = {} /\ store = before
        /\ calls[L].work = "work" =>
              /\ pending[L] = [k \in Key |-> IF k \in Gone THEN Absent ELSE Keep]
              /\ calls[L].count = Cardinality(Gone)
        /\ calls[L].work = "done" /\ calls[L].up =>
              unknown = {} /\ store = Without /\ calls[L].count = Cardinality(Gone)
    BY DEF DeleteInvariant
  <2>5. CASE BreakCalls
    <3>1. /\ DOMAIN calls' = DOMAIN calls /\ Len(calls') = L
          /\ \A m \in DOMAIN calls : calls'[m] \in Cut(calls[m]) \/ calls'[m] = calls[m]
          /\ UNCHANGED <<store, pending, unknown>>
      BY <2>5, CutCallsType DEF BreakCalls, ClientTypeOK, serverVars
    <3> HIDE DEF L
    <3>2. ASSUME NEW m \in DOMAIN calls
          PROVE  /\ calls'[m].kind = calls[m].kind /\ calls'[m].pattern = calls[m].pattern
                 /\ calls'[m].count = calls[m].count
                 /\ calls'[m] = calls[m] \/ (~calls'[m].up /\ (calls[m].work = "done" => calls'[m].work = "done"))
                 /\ calls'[m].work # "done" => calls'[m].work = calls[m].work
      BY <2>3, <3>1, CutType, SMTT(30)
    <3>3. calls' # <<>> /\ \A m \in 1 .. (L - 1) : m \in DOMAIN calls
      BY <2>3, <3>1, SMTT(30)
    <3>4. \A m \in 1 .. (L - 1) : calls'[m].work = "done"
      BY <2>3, <3>2, <3>3
    <3> QED
      BY <2>1, <2>2, <2>3, <2>4, <3>1, <3>2, <3>3, <3>4 DEF DeleteInvariant
  <2>6. CASE Crash
    <3>1. /\ DOMAIN calls' = DOMAIN calls /\ Len(calls') = L
          /\ \A m \in DOMAIN calls :
                 /\ calls'[m].kind = calls[m].kind /\ calls'[m].pattern = calls[m].pattern
                 /\ calls'[m].count = calls[m].count
                 /\ IF calls[m].status = "ok" THEN calls'[m] = calls[m]
                    ELSE ~calls'[m].up /\ calls'[m].work = "done"
      BY <2>6, CrashEffect
    <3>2. \A m \in DOMAIN calls : calls[m].status = "ok" => calls[m].work = "done" /\ calls[m].up
      BY DEF CallsAgree
    <3> HIDE DEF L
    <3>3. /\ calls' # <<>> /\ calls'[L].work = "done"
          /\ \A m \in 1 .. (L - 1) : calls'[m].work = "done"
      BY <2>3, <3>1, <3>2, SMTT(30)
    <3>4. ASSUME calls'[L].up
          PROVE  unknown' = {} /\ store' = Without /\ calls'[L].count = Cardinality(Gone)
      <4>1. calls[L].work = "done" /\ calls[L].up
        BY <2>3, <3>1, <3>2, <3>4
      <4>2. AllDone
        BY <2>3, <4>1, SMTT(30) DEF AllDone
      <4> QED
        BY <2>3, <2>4, <2>6, <3>1, <4>1, <4>2, StoreRests
    <3> QED
      BY <2>1, <2>2, <2>3, <2>4, <3>1, <3>3, <3>4 DEF DeleteInvariant
  <2> QED
    BY <1>5, <2>5, <2>6
<1> QED
  BY <1>1, <1>2, <1>3, <1>4, <1>5 DEF Next

-----------------------------------------------------------------------------
(* import: what a document changes *)

LEMMA ItemsStay ==
    ASSUME script' = script
    PROVE  /\ Command' = Command /\ Items' = Items
           /\ \A k, i : Change(k, i)' = Change(k, i)
           /\ \A k, i : before' = before => Imported(k, i)' = Imported(k, i)
           /\ \A s, K, i, l : Queued(s, K, i, l)' <=> Queued(s, K, i, l)
<1>1. Command' = Command /\ Items' = Items
  BY DEF Command, Items
<1> QED
  BY <1>1, SMTT(30) DEF Change, Imported, Queued, Hits

LEMMA NothingChanged ==
    ASSUME NEW k PROVE Change(k, 0) = Keep /\ Imported(k, 0) = before[k]
<1>1. Hits(k, 0) = {}
  BY SMTT(30) DEF Hits
<1> QED
  BY <1>1 DEF Change, Imported

\* Items that are not about k change nothing under k.
LEMMA ChangeStays ==
    ASSUME NEW k, NEW i \in Nat, NEW l \in Nat, i <= l,
           \A p \in (i + 1) .. l : Items[p].key # k
    PROVE  Change(k, l) = Change(k, i) /\ Imported(k, l) = Imported(k, i)
<1>1. Hits(k, l) = Hits(k, i)
  BY SMTT(30) DEF Hits
<1> QED
  BY <1>1 DEF Change, Imported

\* The last item counts.
LEMMA ChangeHits ==
    ASSUME NEW p \in Nat \ {0}
    PROVE  Change(Items[p].key, p) = Items[p].value
<1> DEFINE hits == Hits(Items[p].key, p)
<1>1. p \in hits /\ \A h \in hits : h \in 1 .. p
  BY SMTT(30) DEF Hits
<1> HIDE DEF hits
<1>2. \A j \in hits : (\A h \in hits : h <= j) => j = p
  BY <1>1, SMTT(30)
<1>3. LastOf(hits) = p
  <2>1. \E i \in hits : \A j \in hits : j <= i
    BY <1>1, SMTT(30)
  <2>2. LastOf(hits) \in hits /\ \A j \in hits : j <= LastOf(hits)
    BY <2>1 DEF LastOf
  <2> QED
    BY <1>2, <2>2
<1> QED
  BY <1>1, <1>3 DEF Change, hits

LEMMA NothingQueued ==
    ASSUME NEW K, NEW i \in Nat PROVE Queued(<<>>, K, i, i)
<1> DEFINE pos == [a \in {} |-> a]
<1>1. 1 .. Len(<<>>) = {} /\ (i + 1) .. i = {} /\ pos \in [{} -> {}]
  BY SMTT(30)
<1> HIDE DEF pos
<1> QED
  BY <1>1 DEF Queued

LEMMA QueueOver ==
    ASSUME NEW K, NEW i \in Nat, NEW l \in Nat, Queued(<<>>, K, i, l)
    PROVE  \A p \in (i + 1) .. l : Items[p].key \notin K
  BY SMTT(30) DEF Queued

LEMMA QueuePassed ==
    ASSUME NEW s \in Seq(Item), NEW K, NEW i \in Nat, NEW l \in Nat, Queued(s, K, i, l),
           Items[l + 1].key \notin K
    PROVE  Queued(s, K, i, l + 1)
<1>1. PICK pos \in [1 .. Len(s) -> (i + 1) .. l] :
         /\ \A a, b \in 1 .. Len(s) : a < b => pos[a] < pos[b]
         /\ \A a \in 1 .. Len(s) : s[a] = Items[pos[a]] /\ Items[pos[a]].key \in K
         /\ \A p \in (i + 1) .. l : Items[p].key \in K => \E a \in 1 .. Len(s) : pos[a] = p
  BY DEF Queued
<1>2. pos \in [1 .. Len(s) -> (i + 1) .. (l + 1)]
  BY SMTT(30)
<1>3. \A p \in (i + 1) .. (l + 1) : Items[p].key \in K => \E a \in 1 .. Len(s) : pos[a] = p
  BY <1>1, SMTT(30)
<1> QED
  BY <1>1, <1>2, <1>3 DEF Queued

LEMMA QueueGrows ==
    ASSUME NEW s \in Seq(Item), NEW K, NEW i \in Nat, NEW l \in Nat, i <= l, Queued(s, K, i, l),
           Items[l + 1] \in Item, Items[l + 1].key \in K
    PROVE  Queued(Append(s, Items[l + 1]), K, i, l + 1)
<1>1. PICK pos \in [1 .. Len(s) -> (i + 1) .. l] :
         /\ \A a, b \in 1 .. Len(s) : a < b => pos[a] < pos[b]
         /\ \A a \in 1 .. Len(s) : s[a] = Items[pos[a]] /\ Items[pos[a]].key \in K
         /\ \A p \in (i + 1) .. l : Items[p].key \in K => \E a \in 1 .. Len(s) : pos[a] = p
  BY DEF Queued
<1> DEFINE t == Append(s, Items[l + 1])
           next == [a \in 1 .. (Len(s) + 1) |-> IF a \in 1 .. Len(s) THEN pos[a] ELSE l + 1]
<1>2. /\ Len(s) \in Nat /\ Len(t) = Len(s) + 1 /\ t[Len(s) + 1] = Items[l + 1]
      /\ \A a \in 1 .. Len(s) : t[a] = s[a]
  BY SMTT(30)
<1> HIDE DEF t
<1>3. next \in [1 .. Len(t) -> (i + 1) .. (l + 1)]
  BY <1>2, SMTT(30)
<1>4. /\ \A a \in 1 .. Len(s) : next[a] = pos[a] /\ next[a] \in (i + 1) .. l
      /\ next[Len(s) + 1] = l + 1
  BY <1>2, SMTT(30)
<1> HIDE DEF next
<1>5. ASSUME NEW a \in 1 .. Len(t), NEW b \in 1 .. Len(t), a < b PROVE next[a] < next[b]
  <2>1. a \in 1 .. Len(s) /\ (b \in 1 .. Len(s) \/ b = Len(s) + 1)
    <3>1. \A n \in Nat : \A x, y \in 1 .. (n + 1) :
             x < y => x \in 1 .. n /\ (y \in 1 .. n \/ y = n + 1)
      BY SMTT(30)
    <3>2. a \in 1 .. (Len(s) + 1) /\ b \in 1 .. (Len(s) + 1) /\ a < b /\ Len(s) \in Nat
      BY <1>2, <1>5
    <3> QED
      BY <3>1, <3>2
  <2>2. CASE b \in 1 .. Len(s)
    BY <1>1, <1>4, <1>5, <2>1, <2>2
  <2>3. CASE b = Len(s) + 1
    <3>1. next[a] \in (i + 1) .. l /\ next[b] = l + 1
      BY <1>4, <2>1, <2>3
    <3> QED
      BY <3>1, SMTT(30)
  <2> QED
    BY <2>1, <2>2, <2>3
<1>6. /\ \A a \in 1 .. Len(t) : a \in 1 .. Len(s) \/ a = Len(s) + 1
      /\ 1 .. Len(s) \subseteq 1 .. Len(t) /\ Len(s) + 1 \in 1 .. Len(t)
      /\ \A p \in (i + 1) .. (l + 1) : p \in (i + 1) .. l \/ p = l + 1
  BY <1>2, SMTT(30)
<1>7. ASSUME NEW a \in 1 .. Len(t)
      PROVE  t[a] = Items[next[a]] /\ Items[next[a]].key \in K
  <2>1. CASE a \in 1 .. Len(s)
    BY <1>1, <1>2, <1>4, <2>1
  <2>2. CASE a = Len(s) + 1
    BY <1>2, <1>4, <2>2
  <2> QED
    BY <1>6, <2>1, <2>2
<1>8. ASSUME NEW p \in (i + 1) .. (l + 1), Items[p].key \in K
      PROVE  \E a \in 1 .. Len(t) : next[a] = p
  <2>1. CASE p \in (i + 1) .. l
    BY <1>1, <1>4, <1>6, <1>8, <2>1
  <2>2. CASE p = l + 1
    BY <1>4, <1>6, <2>2
  <2> QED
    BY <1>6, <2>1, <2>2
<1> QED
  BY <1>3, <1>5, <1>7, <1>8 DEF Queued, t

\* The next request is that of the next item about the keys K.
LEMMA QueueShrinks ==
    ASSUME NEW s \in Seq(Item), s # <<>>, NEW K, NEW i \in Nat, NEW l \in Nat, Queued(s, K, i, l)
    PROVE  \E p \in (i + 1) .. l :
              /\ Head(s) = Items[p] /\ Items[p].key \in K
              /\ \A q \in (i + 1) .. (p - 1) : Items[q].key \notin K
              /\ Queued(Tail(s), K, p, l)
<1>1. PICK pos \in [1 .. Len(s) -> (i + 1) .. l] :
         /\ \A a, b \in 1 .. Len(s) : a < b => pos[a] < pos[b]
         /\ \A a \in 1 .. Len(s) : s[a] = Items[pos[a]] /\ Items[pos[a]].key \in K
         /\ \A p \in (i + 1) .. l : Items[p].key \in K => \E a \in 1 .. Len(s) : pos[a] = p
  BY DEF Queued
<1> DEFINE p == pos[1]
           t == Tail(s)
           next == [a \in 1 .. (Len(s) - 1) |-> pos[a + 1]]
<1>2. /\ Len(s) \in Nat \ {0} /\ Len(t) = Len(s) - 1 /\ Head(s) = s[1]
      /\ \A a \in 1 .. (Len(s) - 1) : t[a] = s[a + 1]
  BY SMTT(30)
<1>3. p \in (i + 1) .. l /\ Head(s) = Items[p] /\ Items[p].key \in K
  BY <1>1, <1>2, SMTT(30)
<1>4. ASSUME NEW q \in (i + 1) .. (p - 1), Items[q].key \in K PROVE FALSE
  <2>1. PICK a \in 1 .. Len(s) : pos[a] = q
    BY <1>1, <1>3, <1>4, SMTT(30)
  <2> QED
    BY <1>1, <1>2, <1>3, <2>1, SMTT(30)
<1>5. ASSUME NEW a \in 1 .. (Len(s) - 1)
      PROVE  /\ next[a] = pos[a + 1] /\ next[a] \in (p + 1) .. l
             /\ a + 1 \in 1 .. Len(s)
  BY <1>1, <1>2, SMTT(30)
<1>6. next \in [1 .. Len(t) -> (p + 1) .. l]
  BY <1>2, <1>5
<1> HIDE DEF t, next
<1>7. \A a, b \in 1 .. Len(t) : a < b => next[a] < next[b]
  BY <1>1, <1>2, <1>5, SMTT(30)
<1>8. \A a \in 1 .. Len(t) : t[a] = Items[next[a]] /\ Items[next[a]].key \in K
  BY <1>1, <1>2, <1>5, SMTT(30)
<1>9. ASSUME NEW q \in (p + 1) .. l, Items[q].key \in K
      PROVE  \E a \in 1 .. Len(t) : next[a] = q
  <2>1. PICK a \in 1 .. Len(s) : pos[a] = q
    BY <1>1, <1>3, <1>9, SMTT(30)
  <2>2. a - 1 \in 1 .. (Len(s) - 1) /\ (a - 1) + 1 = a
    BY <1>2, <1>3, <2>1, SMTT(30)
  <2> QED
    BY <1>2, <1>5, <2>1, <2>2
<1>10. Queued(t, K, p, l)
  BY <1>6, <1>7, <1>8, <1>9 DEF Queued
<1> QED
  BY <1>3, <1>4, <1>10 DEF t

-----------------------------------------------------------------------------
(* import: its two calls *)

LEMMA InitImport == Init => ImportInvariant
  BY DEF Init, ImportInvariant, QuietCommand

LEMMA ImportFacts ==
    ASSUME ClientTypeOK, ImportInvariant, QuietCommand("import")
    PROVE  /\ Items \in Seq(Item) /\ Len(Items) \in Nat /\ line \in 0 .. Len(Items) /\ line \in Nat
           /\ NsCall \in DOMAIN calls /\ StmtCall \in DOMAIN calls /\ NsCall # StmtCall
           /\ KeysOf(NsCall) = Prefix /\ KeysOf(StmtCall) = Statement
           /\ DOMAIN calls = 1 .. Len(calls) /\ Len(calls) \in Nat
           /\ \A n \in DOMAIN calls : calls[n] \in CallType
           /\ \A n \in DOMAIN calls \ {NsCall, StmtCall} : calls[n].work = "done"
<1>1. /\ script \in Seq(Commands) /\ script # <<>> /\ Command.op = "import"
      /\ calls \in Seq(CallType) /\ line \in Nat
  BY DEF ClientTypeOK, QuietCommand
<1>2. Items \in Seq(Item) /\ Len(Items) \in Nat
  BY <1>1, CommandType, SMTT(30)
<1>3. /\ Len(calls) >= 2 /\ line \in 0 .. Len(Items)
      /\ \A m \in 1 .. (Len(calls) - 2) : calls[m].work = "done"
  BY DEF ImportInvariant
<1>4. /\ DOMAIN calls = 1 .. Len(calls) /\ Len(calls) \in Nat
      /\ \A n \in DOMAIN calls : calls[n] \in CallType
  BY <1>1, SMTT(30)
<1>5. /\ NsCall \in DOMAIN calls /\ StmtCall \in DOMAIN calls /\ NsCall # StmtCall
      /\ \A n \in DOMAIN calls \ {NsCall, StmtCall} : n \in 1 .. (Len(calls) - 2)
  <2>1. \A L \in Nat : /\ \A n \in 1 .. L : n \notin {L - 1, L} => n \in 1 .. (L - 2)
                       /\ L >= 2 => L - 1 \in 1 .. L /\ L \in 1 .. L /\ L - 1 # L
    BY SMTT(30)
  <2>2. NsCall = Len(calls) - 1 /\ StmtCall = Len(calls)
    BY DEF NsCall, StmtCall
  <2>3. NsCall \in DOMAIN calls /\ StmtCall \in DOMAIN calls /\ NsCall # StmtCall
    BY <1>3, <1>4, <2>1, <2>2
  <2> QED
    BY <1>4, <2>1, <2>2, <2>3
<1>6. KeysOf(NsCall) = Prefix /\ KeysOf(StmtCall) = Statement
  BY <1>5 DEF KeysOf
<1> QED
  BY <1>1, <1>2, <1>3, <1>4, <1>5, <1>6

\* Most steps leave the command as it is.
LEMMA ImportFrame ==
    ASSUME ClientTypeOK, ImportInvariant, QuietCommand("import"), script' = script,
           Len(calls') = Len(calls), DOMAIN calls' = DOMAIN calls,
           \A n \in DOMAIN calls : /\ calls'[n].kind = calls[n].kind
                                   /\ calls[n].work = "done" => calls'[n].work = "done",
           line' \in 0 .. Len(Items), at' # "parse" => line' = Len(Items),
           unknown' = {} \/ AllDone',
           \A n \in {NsCall, StmtCall} : ServedCall(n)'
    PROVE  ImportInvariant'
<1>1. NsCall' = NsCall /\ StmtCall' = StmtCall /\ Items' = Items
  BY ItemsStay DEF NsCall, StmtCall
<1>2. /\ Len(calls) >= 2
      /\ \A m \in 1 .. (Len(calls) - 2) : calls[m].work = "done"
      /\ calls[NsCall].kind = "ns" /\ calls[StmtCall].kind = "stmt"
  BY DEF ImportInvariant
<1>3. \A m \in 1 .. (Len(calls') - 2) : calls'[m].work = "done"
  BY <1>2, ImportFacts, SMTT(30)
<1>4. calls'[NsCall].kind = "ns" /\ calls'[StmtCall].kind = "stmt"
  BY <1>2, ImportFacts
<1> QED
  BY <1>1, <1>2, <1>3, <1>4 DEF ImportInvariant

\* What a step leaves of the document, and what it has to show about call n.
LEMMA ReachedThen ==
    ASSUME NEW n, NEW i, script' = script, before' = before, Len(calls') = Len(calls),
           calls'[n].work = "new" => i = 0,
           calls'[n].work # "done" =>
              /\ \A k \in KeysOf(n) : store'[k] = before[k]
              /\ n \in 1 .. MaxCalls => \A k \in Key :
                    pending'[n][k] = IF k \in KeysOf(n) THEN Change(k, i) ELSE Keep,
           calls'[n].work = "done" => \A k \in KeysOf(n) \ unknown' : store'[k] = Imported(k, i),
           calls'[n].up =>
              /\ calls'[n].count = Cardinality(About(KeysOf(n), i))
              /\ Queued(calls'[n].sent, KeysOf(n), i, line')
    PROVE  Reached(n, i)'
<1>1. KeysOf(n)' = KeysOf(n) /\ Items' = Items /\ About(KeysOf(n), i)' = About(KeysOf(n), i)
  <2>1. KeysOf(n)' = KeysOf(n) /\ Items' = Items
    BY ItemsStay DEF KeysOf, StmtCall
  <2> QED
    BY <2>1 DEF About
<1>2. \A k : Change(k, i)' = Change(k, i) /\ Imported(k, i)' = Imported(k, i)
  BY ItemsStay
<1>3. Queued(calls'[n].sent, KeysOf(n), i, line') => Queued(calls[n].sent, KeysOf(n), i, line)'
  BY <1>1, SMTT(30) DEF Queued
<1> QED
  BY <1>1, <1>2, <1>3 DEF Reached

\* A call that a step does not touch, nor the keys it is about.
LEMMA ServedStays ==
    ASSUME NEW n, ServedCall(n), Len(calls') = Len(calls),
           calls'[n].work = calls[n].work, calls'[n].ended = calls[n].ended,
           calls'[n].up = calls[n].up, calls'[n].count = calls[n].count,
           calls'[n].sent = calls[n].sent,
           script' = script, before' = before, line' = line, at' = "parse" => at = "parse",
           n \in 1 .. MaxCalls => state'[n] = state[n] /\ pending'[n] = pending[n],
           KeysOf(n) \cap unknown' = KeysOf(n) \cap unknown,
           \A k \in KeysOf(n) : store'[k] = store[k]
    PROVE  ServedCall(n)'
<1>1. PICK i \in 0 .. line : Reached(n, i)
  BY DEF ServedCall
<1>2. /\ calls[n].work = "new" => i = 0
      /\ calls[n].work # "done" =>
            /\ \A k \in KeysOf(n) : store[k] = before[k]
            /\ n \in 1 .. MaxCalls => \A k \in Key :
                  pending[n][k] = IF k \in KeysOf(n) THEN Change(k, i) ELSE Keep
      /\ calls[n].work = "done" => \A k \in KeysOf(n) \ unknown : store[k] = Imported(k, i)
      /\ calls[n].up =>
            /\ calls[n].count = Cardinality(About(KeysOf(n), i))
            /\ Queued(calls[n].sent, KeysOf(n), i, line)
  BY <1>1 DEF Reached
<1>3. KeysOf(n) \ unknown' = KeysOf(n) \ unknown
  OBVIOUS
<1>4. /\ calls'[n].work = "new" => i = 0
      /\ calls'[n].work # "done" =>
            /\ \A k \in KeysOf(n) : store'[k] = before[k]
            /\ n \in 1 .. MaxCalls => \A k \in Key :
                  pending'[n][k] = IF k \in KeysOf(n) THEN Change(k, i) ELSE Keep
  BY <1>2
<1>5. calls'[n].work = "done" => \A k \in KeysOf(n) \ unknown' : store'[k] = Imported(k, i)
  BY <1>2, <1>3
<1>6. calls'[n].up =>
            /\ calls'[n].count = Cardinality(About(KeysOf(n), i))
            /\ Queued(calls'[n].sent, KeysOf(n), i, line')
  BY <1>2
<1>7. Reached(n, i)'
  BY <1>4, <1>5, <1>6, ReachedThen
<1>8. KeysOf(n)' = KeysOf(n)
  BY DEF KeysOf, StmtCall
<1> QED
  BY <1>1, <1>7, <1>8 DEF ServedCall

\* A call whose connection is lost.
LEMMA CutServed ==
    ASSUME NEW n, ServedCall(n), Len(calls') = Len(calls), UNCHANGED serverVars,
           script' = script, before' = before, line' = line, line \in Nat,
           at' = "parse" => at = "parse",
           calls[n] \in CallType, calls'[n] = calls[n] \/ calls'[n] \in Cut(calls[n])
    PROVE  ServedCall(n)'
<1>1. UNCHANGED <<store, state, pending, unknown>>
  BY DEF serverVars
<1>2. CASE calls'[n] = calls[n]
  BY <1>1, <1>2, ServedStays
<1>3. CASE calls'[n] # calls[n]
  <2>1. /\ ~calls'[n].up /\ calls'[n].ended = calls[n].ended
        /\ calls'[n].work = calls[n].work \/ (calls[n].work = "new" /\ calls'[n].work = "done")
    BY <1>3, CutType
  <2>2. PICK i \in 0 .. line : Reached(n, i)
    BY DEF ServedCall
  <2>3. ASSUME calls'[n].work # calls[n].work
        PROVE  i = 0 /\ \A k \in KeysOf(n) : store[k] = Imported(k, i)
    BY <2>1, <2>2, <2>3, NothingChanged DEF Reached
  <2>4. /\ calls[n].work = "new" => i = 0
        /\ calls[n].work # "done" =>
              /\ \A k \in KeysOf(n) : store[k] = before[k]
              /\ n \in 1 .. MaxCalls => \A k \in Key :
                    pending[n][k] = IF k \in KeysOf(n) THEN Change(k, i) ELSE Keep
        /\ calls[n].work = "done" => \A k \in KeysOf(n) \ unknown : store[k] = Imported(k, i)
        /\ calls[n].up =>
              /\ calls[n].count = Cardinality(About(KeysOf(n), i))
              /\ Queued(calls[n].sent, KeysOf(n), i, line)
    BY <2>2 DEF Reached
  <2>5. Reached(n, i)'
    BY <1>1, <2>1, <2>3, <2>4, ReachedThen
  <2> QED
    BY <2>1, <2>2, <2>5 DEF ServedCall
<1> QED
  BY <1>2, <1>3

\* The parser reads an item, and writes it to the stream of call n if it is about its keys.
LEMMA ParseServed ==
    ASSUME NEW n, ServedCall(n), Len(calls') = Len(calls), UNCHANGED serverVars,
           script' = script, before' = before, line' = line + 1, line \in Nat,
           at = "parse", at' = at, calls[n] \in CallType, Items[line + 1] \in Item,
           calls'[n].work = calls[n].work, calls'[n].ended = calls[n].ended,
           calls'[n].up = calls[n].up, calls'[n].count = calls[n].count,
           IF Items[line + 1].key \in KeysOf(n) /\ calls[n].up
           THEN calls'[n].sent = Append(calls[n].sent, Items[line + 1])
           ELSE calls'[n].sent = calls[n].sent
    PROVE  ServedCall(n)'
<1>1. UNCHANGED <<store, state, pending, unknown>>
  BY DEF serverVars
<1>2. PICK i \in 0 .. line : Reached(n, i)
  BY DEF ServedCall
<1>3. i \in Nat /\ i <= line /\ i \in 0 .. line'
  BY SMTT(30)
<1>4. /\ calls'[n].work = "new" => i = 0
      /\ calls'[n].work # "done" =>
            /\ \A k \in KeysOf(n) : store'[k] = before[k]
            /\ n \in 1 .. MaxCalls => \A k \in Key :
                  pending'[n][k] = IF k \in KeysOf(n) THEN Change(k, i) ELSE Keep
      /\ calls'[n].work = "done" => \A k \in KeysOf(n) \ unknown' : store'[k] = Imported(k, i)
      /\ calls[n].up =>
            /\ calls'[n].count = Cardinality(About(KeysOf(n), i))
            /\ Queued(calls[n].sent, KeysOf(n), i, line)
  BY <1>1, <1>2 DEF Reached
<1>5. ASSUME calls'[n].up PROVE Queued(calls'[n].sent, KeysOf(n), i, line')
  <2>1. calls[n].up /\ calls[n].sent \in Seq(Item) /\ Queued(calls[n].sent, KeysOf(n), i, line)
    BY <1>4, <1>5 DEF CallType
  <2>2. CASE Items[line + 1].key \in KeysOf(n)
    <3>1. calls'[n].sent = Append(calls[n].sent, Items[line + 1])
      BY <2>1, <2>2
    <3> QED
      BY <1>3, <2>1, <2>2, <3>1, QueueGrows
  <2>3. CASE Items[line + 1].key \notin KeysOf(n)
    <3>1. calls'[n].sent = calls[n].sent
      BY <2>3
    <3> QED
      BY <1>3, <2>1, <2>3, <3>1, QueuePassed
  <2> QED
    BY <2>2, <2>3
<1>6. Reached(n, i)'
  BY <1>4, <1>5, ReachedThen
<1>7. ~calls[n].ended /\ KeysOf(n)' = KeysOf(n)
  BY DEF ServedCall, KeysOf, StmtCall
<1>8. ~(calls[n].up /\ (calls[n].work = "done" \/ (n \in 1 .. MaxCalls /\ state[n] = "closing")))
  BY <1>7 DEF ServedCall
<1> QED
  BY <1>1, <1>3, <1>6, <1>7, <1>8 DEF ServedCall

LEMMA ImportParse ==
    ASSUME ClientTypeOK, ImportInvariant, QuietCommand("import"), Parse
    PROVE  ImportInvariant'
<1> DEFINE item == Items[line + 1]
           n == IF item.key \in Statement THEN StmtCall ELSE NsCall
<1>0. /\ Items \in Seq(Item) /\ Len(Items) \in Nat /\ line \in 0 .. Len(Items) /\ line \in Nat
      /\ NsCall \in DOMAIN calls /\ StmtCall \in DOMAIN calls /\ NsCall # StmtCall
      /\ KeysOf(NsCall) = Prefix /\ KeysOf(StmtCall) = Statement
      /\ \A m \in DOMAIN calls : calls[m] \in CallType
      /\ calls \in Seq(CallType)
  BY ImportFacts DEF ClientTypeOK
<1>1. /\ calls' = [calls EXCEPT ![n] = Write(calls[n], item)]
      /\ line < Len(Items) /\ line' = line + 1 /\ at = "parse"
      /\ UNCHANGED serverVars /\ UNCHANGED <<at, script, before>>
  BY DEF Parse
<1>2. item \in Item /\ item.key \in Prefix \cup Statement
  <2>1. item \in Item
    BY <1>0, <1>1, SMTT(30)
  <2> HIDE DEF item
  <2> QED
    BY <2>1 DEF Item, Key
<1>3. n \in {NsCall, StmtCall} /\ item.key \in KeysOf(n)
  BY <1>0, <1>2
<1>4. \A m \in {NsCall, StmtCall} \ {n} : item.key \notin KeysOf(m)
  BY <1>0, <1>2, ClientAssumption
<1> HIDE DEF n
<1>5. n \in DOMAIN calls /\ calls[n] \in CallType
  BY <1>0, <1>3
<1> DEFINE w == Write(calls[n], item)
<1>6. /\ w \in CallType /\ w.kind = calls[n].kind /\ w.work = calls[n].work
      /\ w.ended = calls[n].ended /\ w.up = calls[n].up /\ w.count = calls[n].count
      /\ w.sent = IF calls[n].up THEN Append(calls[n].sent, item) ELSE calls[n].sent
  <2>1. CASE calls[n].up
    <3>1. calls[n].sent \in Seq(Item) /\ Append(calls[n].sent, item) \in Seq(Item)
      BY <1>2, <1>5, SMTT(30) DEF CallType
    <3> QED
      BY <1>5, <2>1, <3>1 DEF Write, CallType
  <2>2. CASE ~calls[n].up
    BY <1>5, <2>2 DEF Write
  <2> QED
    BY <2>1, <2>2
<1> HIDE DEF w
<1>7. /\ Len(calls') = Len(calls) /\ DOMAIN calls' = DOMAIN calls
      /\ calls'[n] = w /\ \A m \in DOMAIN calls \ {n} : calls'[m] = calls[m]
  <2>1. calls' = [calls EXCEPT ![n] = w]
    BY <1>1 DEF w
  <2> QED
    BY <1>0, <1>5, <1>6, <2>1, CallChanges
<1>8. ASSUME NEW m \in {NsCall, StmtCall} PROVE ServedCall(m)'
  <2>1. /\ m \in DOMAIN calls /\ calls[m] \in CallType /\ ServedCall(m)
    BY <1>0 DEF ImportInvariant
  <2>2. /\ calls'[m].work = calls[m].work /\ calls'[m].ended = calls[m].ended
        /\ calls'[m].up = calls[m].up /\ calls'[m].count = calls[m].count
        /\ IF item.key \in KeysOf(m) /\ calls[m].up
           THEN calls'[m].sent = Append(calls[m].sent, item)
           ELSE calls'[m].sent = calls[m].sent
    BY <1>3, <1>4, <1>6, <1>7, <2>1
  <2> QED
    BY <1>0, <1>1, <1>2, <1>7, <2>1, <2>2, ParseServed
<1>9. \A m \in DOMAIN calls : /\ calls'[m].kind = calls[m].kind
                              /\ calls[m].work = "done" => calls'[m].work = "done"
  BY <1>6, <1>7
<1>10. unknown' = {} \/ AllDone'
  BY <1>1, <1>7, <1>9 DEF ImportInvariant, AllDone, serverVars
<1>11. line' \in 0 .. Len(Items)
  BY <1>0, <1>1, SMTT(30)
<1> QED
  BY <1>1, <1>7, <1>8, <1>9, <1>10, <1>11, ImportFrame

\* The connections of calls are lost.
LEMMA ImportCut ==
    ASSUME ClientTypeOK, ImportInvariant, QuietCommand("import"), NEW N, CutCalls(N),
           UNCHANGED serverVars, UNCHANGED <<script, before, line>>,
           at' = at \/ (line = Len(Items) /\ at' # "parse")
    PROVE  ImportInvariant'
<1>0. /\ NsCall \in DOMAIN calls /\ StmtCall \in DOMAIN calls /\ line \in Nat
      /\ line \in 0 .. Len(Items) /\ \A m \in DOMAIN calls : calls[m] \in CallType
      /\ calls \in Seq(CallType)
  BY ImportFacts DEF ClientTypeOK
<1>1. /\ Len(calls') = Len(calls) /\ DOMAIN calls' = DOMAIN calls
      /\ \A m \in DOMAIN calls : calls'[m] \in Cut(calls[m]) \/ calls'[m] = calls[m]
  BY <1>0, CutCallsType
<1>2. \A m \in {NsCall, StmtCall} : ServedCall(m)'
  <2>1. ASSUME NEW m \in {NsCall, StmtCall} PROVE ServedCall(m)'
    <3>1. m \in DOMAIN calls /\ calls[m] \in CallType /\ ServedCall(m)
      BY <1>0 DEF ImportInvariant
    <3> QED
      BY <1>0, <1>1, <3>1, CutServed
  <2> QED
    BY <2>1
<1>3. \A m \in DOMAIN calls : /\ calls'[m].kind = calls[m].kind
                              /\ calls[m].work = "done" => calls'[m].work = "done"
  BY <1>0, <1>1, CutType, SMTT(30)
<1>4. unknown' = {} \/ AllDone'
  BY <1>1, <1>3 DEF ImportInvariant, AllDone, serverVars
<1>5. line' \in 0 .. Len(Items) /\ (at' # "parse" => line' = Len(Items))
  BY <1>0 DEF ImportInvariant
<1> QED
  BY <1>1, <1>2, <1>3, <1>4, <1>5, ImportFrame

\* Both streams are ended.
LEMMA ImportEnds ==
    ASSUME ClientTypeOK, ImportInvariant, QuietCommand("import"), ParseEnds
    PROVE  ImportInvariant'
<1>0. /\ NsCall \in DOMAIN calls /\ StmtCall \in DOMAIN calls /\ line \in Nat
      /\ line \in 0 .. Len(Items) /\ calls \in Seq(CallType) /\ Len(calls) >= 2
  BY ImportFacts DEF ClientTypeOK, ImportInvariant
<1>1. /\ at = "parse" /\ at' = "finish" /\ line = Len(Items)
      /\ UNCHANGED <<script, before, line>> /\ UNCHANGED <<store, state, pending, unknown>>
      /\ calls' = [calls EXCEPT ![StmtCall].ended = TRUE, ![NsCall].ended = TRUE]
  BY DEF ParseEnds, serverVars, userVars
<1>2. /\ Len(calls') = Len(calls) /\ DOMAIN calls' = DOMAIN calls
      /\ \A m \in DOMAIN calls :
            /\ calls'[m].kind = calls[m].kind /\ calls'[m].sent = calls[m].sent
            /\ calls'[m].up = calls[m].up /\ calls'[m].work = calls[m].work
            /\ calls'[m].count = calls[m].count
  BY <1>0, <1>1, EndsEffect
<1>3. ASSUME NEW m \in {NsCall, StmtCall} PROVE ServedCall(m)'
  <2>1. m \in DOMAIN calls /\ ServedCall(m)
    BY <1>0 DEF ImportInvariant
  <2>2. PICK i \in 0 .. line : Reached(m, i)
    BY <2>1 DEF ServedCall
  <2>3. /\ calls'[m].work = "new" => i = 0
        /\ calls'[m].work # "done" =>
              /\ \A k \in KeysOf(m) : store'[k] = before[k]
              /\ m \in 1 .. MaxCalls => \A k \in Key :
                    pending'[m][k] = IF k \in KeysOf(m) THEN Change(k, i) ELSE Keep
        /\ calls'[m].work = "done" => \A k \in KeysOf(m) \ unknown' : store'[k] = Imported(k, i)
        /\ calls'[m].up =>
              /\ calls'[m].count = Cardinality(About(KeysOf(m), i))
              /\ Queued(calls'[m].sent, KeysOf(m), i, line')
    BY <1>1, <1>2, <2>1, <2>2 DEF Reached
  <2>4. Reached(m, i)'
    BY <1>1, <1>2, <2>3, ReachedThen
  <2>5. ~(calls[m].up /\ (calls[m].work = "done" \/ (m \in 1 .. MaxCalls /\ state[m] = "closing")))
    BY <1>1, <2>1 DEF ServedCall
  <2> QED
    BY <1>1, <1>2, <2>1, <2>4, <2>5 DEF ServedCall
<1>4. unknown' = {} \/ AllDone'
  <2>1. unknown = {} \/ AllDone
    BY DEF ImportInvariant
  <2> QED
    BY <1>1, <1>2, <2>1 DEF AllDone
<1> QED
  BY <1>0, <1>1, <1>2, <1>3, <1>4, ImportFrame

\* A step that the calls of an import do not notice.
LEMMA ImportRests ==
    ASSUME ClientTypeOK, ImportInvariant, QuietCommand("import"),
           UNCHANGED <<script, before, line, calls, store, state, pending, unknown>>,
           at' = at \/ (at # "parse" /\ at' # "parse")
    PROVE  ImportInvariant'
<1>0. NsCall \in DOMAIN calls /\ StmtCall \in DOMAIN calls /\ line \in 0 .. Len(Items)
  BY ImportFacts
<1>1. \A m \in {NsCall, StmtCall} : ServedCall(m)'
  <2>1. ASSUME NEW m \in {NsCall, StmtCall} PROVE ServedCall(m)'
    <3>1. ServedCall(m)
      BY DEF ImportInvariant
    <3> QED
      BY <3>1, ServedStays
  <2> QED
    BY <2>1
<1>2. unknown' = {} \/ AllDone'
  BY DEF ImportInvariant, AllDone
<1>3. line' \in 0 .. Len(Items) /\ (at' # "parse" => line' = Len(Items))
  BY <1>0 DEF ImportInvariant
<1> QED
  BY <1>1, <1>2, <1>3, ImportFrame

\* A call at work changes its own keys, and only the two calls of the import are at work.
LEMMA OwnKeys ==
    ASSUME ClientTypeOK, CallsAgree, ImportInvariant, QuietCommand("import")
    PROVE  /\ KeysOf(NsCall) \cap KeysOf(StmtCall) = {}
           /\ \A g \in 1 .. MaxCalls : state[g] # "idle" =>
                 /\ g \in {NsCall, StmtCall} /\ calls[g].work = "work"
                 /\ \A k \in Key : pending[g][k] # Keep => k \in KeysOf(g)
<1>1. KeysOf(NsCall) \cap KeysOf(StmtCall) = {}
  BY ImportFacts, ClientAssumption
<1>2. ASSUME NEW g \in 1 .. MaxCalls, state[g] # "idle"
      PROVE  /\ g \in {NsCall, StmtCall} /\ calls[g].work = "work"
             /\ \A k \in Key : pending[g][k] # Keep => k \in KeysOf(g)
  <2>1. g \in DOMAIN calls /\ calls[g].work = "work"
    BY <1>2 DEF CallsAgree
  <2>2. g \in {NsCall, StmtCall}
    BY <2>1, ImportFacts
  <2>3. PICK i \in 0 .. line : Reached(g, i)
    BY <2>2 DEF ImportInvariant, ServedCall
  <2> QED
    BY <2>1, <2>2, <2>3 DEF Reached
<1> QED
  BY <1>1, <1>2

\* The server dies: what a call was writing is unknown, and a call that was answered stays.
LEMMA ImportCrash ==
    ASSUME ClientTypeOK, CallsAgree, ImportInvariant, QuietCommand("import"), Crash
    PROVE  ImportInvariant'
<1>0. /\ NsCall \in DOMAIN calls /\ StmtCall \in DOMAIN calls /\ line \in Nat
      /\ line \in 0 .. Len(Items) /\ KeysOf(NsCall) \subseteq Key /\ KeysOf(StmtCall) \subseteq Key
  BY ImportFacts DEF Key
<1>1. UNCHANGED <<script, before, line, at>>
  BY DEF Crash, userVars
<1>2. /\ Len(calls') = Len(calls) /\ DOMAIN calls' = DOMAIN calls
      /\ \A m \in DOMAIN calls :
            /\ calls'[m].kind = calls[m].kind /\ calls'[m].ended = calls[m].ended
            /\ IF calls[m].status = "ok" THEN calls'[m] = calls[m]
               ELSE ~calls'[m].up /\ calls'[m].work = "done"
      /\ \A k \in Key : k \notin unknown' => k \notin unknown /\ store'[k] = store[k]
      /\ state' = [m \in 1 .. MaxCalls |-> "idle"]
  BY CrashEffect
<1>3. /\ \A m \in DOMAIN calls : calls[m].status = "ok" => calls[m].work = "done" /\ calls[m].up
      /\ \A m \in DOMAIN calls : calls'[m].work = "done"
  BY <1>2, SMTT(30) DEF CallsAgree
<1>4. unknown' = unknown \cup {k \in Key : \E g \in 1 .. MaxCalls : state[g] = "closing" /\ pending[g][k] # Keep}
  BY DEF Crash, Server!Crash, Server!Busy
<1>5. ASSUME NEW m \in {NsCall, StmtCall} PROVE ServedCall(m)'
  <2>1. m \in DOMAIN calls /\ ServedCall(m) /\ KeysOf(m) \subseteq Key /\ calls'[m].work = "done"
    BY <1>0, <1>3 DEF ImportInvariant
  <2>2. PICK i \in 0 .. line : Reached(m, i)
    BY <2>1 DEF ServedCall
  <2>3. KeysOf(m)' = KeysOf(m)
    BY <1>2 DEF KeysOf, StmtCall
  <2>4. CASE calls[m].status = "ok"
    <3>1. calls'[m] = calls[m] /\ calls[m].work = "done" /\ calls[m].up
      BY <1>2, <1>3, <2>1, <2>4
    <3>2. KeysOf(m) \cap unknown = {} /\ calls[m].ended /\ calls[m].sent = <<>>
      BY <2>1, <3>1 DEF ServedCall
    <3>3. KeysOf(m) \cap unknown' = {}
      <4>1. ASSUME NEW k \in KeysOf(m), NEW g \in 1 .. MaxCalls, state[g] = "closing",
                   pending[g][k] # Keep
            PROVE  FALSE
        <5>1. g \in {NsCall, StmtCall} /\ calls[g].work = "work" /\ k \in KeysOf(g)
          BY <2>1, <4>1, OwnKeys
        <5>2. g # m
          BY <3>1, <5>1
        <5> QED
          BY <4>1, <5>1, <5>2, OwnKeys, SMTT(30)
      <4> QED
        BY <1>4, <3>2, <4>1
    <3>4. \A k \in KeysOf(m) : store'[k] = store[k]
      BY <1>2, <2>1, <3>3
    <3>5. /\ \A k \in KeysOf(m) \ unknown' : store'[k] = Imported(k, i)
          /\ calls'[m].up =>
                /\ calls'[m].count = Cardinality(About(KeysOf(m), i))
                /\ Queued(calls'[m].sent, KeysOf(m), i, line')
      BY <1>1, <2>2, <3>1, <3>2, <3>4 DEF Reached
    <3>6. Reached(m, i)'
      BY <1>1, <1>2, <2>1, <3>5, ReachedThen
    <3> QED
      BY <1>1, <1>2, <2>1, <2>3, <3>1, <3>2, <3>3, <3>6 DEF ServedCall
  <2>5. CASE calls[m].status # "ok"
    <3>1. ~calls'[m].up /\ calls'[m].ended = calls[m].ended
      BY <1>2, <2>1, <2>5
    <3>2. PICK j \in 0 .. line : \A k \in KeysOf(m) \ unknown' : store'[k] = Imported(k, j)
      <4>1. CASE calls[m].work = "done"
        BY <1>2, <2>1, <2>2, <4>1 DEF Reached
      <4>2. CASE calls[m].work # "done"
        <5>1. \A k \in KeysOf(m) : store[k] = Imported(k, 0)
          BY <2>2, <4>2, NothingChanged DEF Reached
        <5>2. 0 \in 0 .. line
          BY <1>0, SMTT(30)
        <5> QED
          BY <1>2, <2>1, <5>1, <5>2
      <4> QED
        BY <4>1, <4>2
    <3>3. Reached(m, j)'
      BY <1>1, <1>2, <2>1, <3>1, <3>2, ReachedThen
    <3> QED
      BY <1>1, <2>1, <3>1, <3>3 DEF ServedCall
  <2> QED
    BY <2>4, <2>5
<1>6. AllDone'
  BY <1>2, <1>3 DEF AllDone
<1>7. at' # "parse" => line' = Len(Items)
  BY <1>1 DEF ImportInvariant
<1> QED
  BY <1>0, <1>1, <1>2, <1>3, <1>5, <1>6, <1>7, ImportFrame

\* A handler at work leaves the other call alone.
LEMMA ImportHandles ==
    ASSUME ClientTypeOK, CallsAgree, ImportInvariant, QuietCommand("import"),
           NEW n \in 1 .. MaxCalls, Handler(n), n \in {NsCall, StmtCall}, calls[n].work # "done",
           unknown' = {}, ServedCall(n)', \A k \in Key \ KeysOf(n) : store'[k] = store[k]
    PROVE  ImportInvariant'
<1>0. /\ NsCall \in DOMAIN calls /\ StmtCall \in DOMAIN calls /\ n \in DOMAIN calls
      /\ line \in 0 .. Len(Items) /\ KeysOf(NsCall) \subseteq Key /\ KeysOf(StmtCall) \subseteq Key
  BY ImportFacts DEF Key
<1>1. UNCHANGED <<script, before, line, at>>
  BY HandlerEffect DEF serverOnly, userVars
<1>2. /\ Len(calls') = Len(calls) /\ DOMAIN calls' = DOMAIN calls
      /\ \A m \in DOMAIN calls \ {n} : calls'[m] = calls[m]
      /\ calls'[n].kind = calls[n].kind
      /\ \A m \in (1 .. MaxCalls) \ {n} : state'[m] = state[m] /\ pending'[m] = pending[m]
  BY HandlerEffect
<1>3. unknown = {}
  BY <1>0 DEF ImportInvariant, AllDone
<1>4. ASSUME NEW m \in {NsCall, StmtCall} PROVE ServedCall(m)'
  <2>1. CASE m = n
    BY <2>1
  <2>2. CASE m # n
    <3>1. m \in DOMAIN calls \ {n} /\ ServedCall(m) /\ KeysOf(m) \subseteq Key \ KeysOf(n)
      BY <1>0, <2>2, OwnKeys, SMTT(30) DEF ImportInvariant
    <3>2. calls'[m] = calls[m] /\ \A k \in KeysOf(m) : store'[k] = store[k]
      BY <1>2, <3>1
    <3>3. m \in 1 .. MaxCalls => state'[m] = state[m] /\ pending'[m] = pending[m]
      BY <1>2, <2>2
    <3> QED
      BY <1>1, <1>2, <1>3, <3>1, <3>2, <3>3, ServedStays
  <2> QED
    BY <2>1, <2>2
<1>5. \A m \in DOMAIN calls : /\ calls'[m].kind = calls[m].kind
                              /\ calls[m].work = "done" => calls'[m].work = "done"
  BY <1>2
<1>6. line' \in 0 .. Len(Items) /\ (at' # "parse" => line' = Len(Items))
  BY <1>0, <1>1 DEF ImportInvariant
<1> QED
  BY <1>1, <1>2, <1>4, <1>5, <1>6, ImportFrame

\* The handlers of earlier calls have returned.
LEMMA ImportAnswer ==
    ASSUME ClientTypeOK, CallsAgree, ImportInvariant, QuietCommand("import"),
           NEW n \in 1 .. MaxCalls, Handler(n), n \notin {NsCall, StmtCall} \/ Answer(n)
    PROVE  ImportInvariant'
<1>0. /\ NsCall \in DOMAIN calls /\ StmtCall \in DOMAIN calls /\ line \in 0 .. Len(Items)
      /\ \A m \in DOMAIN calls : calls[m] \in CallType
      /\ \A m \in DOMAIN calls \ {NsCall, StmtCall} : calls[m].work = "done"
  BY ImportFacts
<1>1. UNCHANGED <<script, before, line, at>> /\ n \in DOMAIN calls
  BY HandlerEffect DEF serverOnly, userVars
<1>2. Answer(n)
  <2>1. CASE n \notin {NsCall, StmtCall} /\ ~Answer(n)
    <3>1. calls[n].work = "done" /\ state[n] = "idle"
      BY <1>0, <1>1, <2>1, OwnKeys
    <3> QED
      BY <2>1, <3>1 DEF Handler, Begin, Request, Remove, HandlerWrites, HandlerReturns, Server!Commit
  <2> QED
    BY <2>1
<1>3. /\ Len(calls') = Len(calls) /\ DOMAIN calls' = DOMAIN calls
      /\ \A m \in DOMAIN calls \ {n} : calls'[m] = calls[m]
  BY HandlerEffect
<1>4. /\ UNCHANGED <<store, state, pending, unknown>>
      /\ calls'[n] = [calls[n] EXCEPT !.status = "ok"]
  BY <1>1, <1>2, <1>3 DEF Answer, serverVars
<1>5. ASSUME NEW m \in DOMAIN calls
      PROVE  /\ calls'[m].kind = calls[m].kind /\ calls'[m].work = calls[m].work
             /\ calls'[m].ended = calls[m].ended /\ calls'[m].up = calls[m].up
             /\ calls'[m].count = calls[m].count /\ calls'[m].sent = calls[m].sent
  <2>1. calls[m] \in CallType
    BY <1>0
  <2> QED
    BY <1>3, <1>4, <2>1, SMTT(30) DEF CallType
<1>6. ASSUME NEW m \in {NsCall, StmtCall} PROVE ServedCall(m)'
  <2>1. m \in DOMAIN calls /\ ServedCall(m)
    BY <1>0 DEF ImportInvariant
  <2> QED
    BY <1>1, <1>3, <1>4, <1>5, <2>1, ServedStays
<1>7. unknown' = {} \/ AllDone'
  <2>1. unknown = {} \/ AllDone
    BY DEF ImportInvariant
  <2> QED
    BY <1>3, <1>4, <1>5, <2>1 DEF AllDone
<1>8. line' \in 0 .. Len(Items) /\ (at' # "parse" => line' = Len(Items))
  BY <1>0, <1>1 DEF ImportInvariant
<1> QED
  BY <1>1, <1>3, <1>5, <1>6, <1>7, <1>8, ImportFrame

\* A handler begins, or writes what it has read.
LEMMA ImportWrites ==
    ASSUME ClientTypeOK, CallsAgree, ImportInvariant, QuietCommand("import"),
           NEW n \in 1 .. MaxCalls, Handler(n), n \in {NsCall, StmtCall},
           Begin(n) \/ HandlerWrites(n)
    PROVE  ImportInvariant'
<1>0. /\ n \in DOMAIN calls /\ line \in Nat /\ calls[n] \in CallType /\ KeysOf(n) \subseteq Key
      /\ calls[n].kind # "remove" /\ ServedCall(n)
  BY ImportFacts DEF ImportInvariant, Key
<1>1. UNCHANGED <<script, before, line, at>>
  BY HandlerEffect DEF serverOnly, userVars
<1>2. /\ Len(calls') = Len(calls) /\ calls'[n].ended = calls[n].ended /\ calls'[n].up = calls[n].up
  BY HandlerEffect
<1>3. calls[n].work # "done" /\ unknown = {}
  BY <1>0 DEF ImportInvariant, AllDone, Begin, HandlerWrites
<1>4. /\ store \in [Key -> Entry]
      /\ state \in [1 .. MaxCalls -> {"idle", "open", "closing"}]
  BY DEF ClientTypeOK
<1>5. PICK i \in 0 .. line : Reached(n, i)
  BY <1>0 DEF ServedCall
<1>6. /\ calls[n].work = "new" => i = 0
      /\ \A k \in KeysOf(n) : store[k] = before[k]
      /\ \A k \in Key : pending[n][k] = IF k \in KeysOf(n) THEN Change(k, i) ELSE Keep
      /\ calls[n].up =>
            /\ calls[n].count = Cardinality(About(KeysOf(n), i))
            /\ Queued(calls[n].sent, KeysOf(n), i, line)
  BY <1>3, <1>5 DEF Reached
<1>7. CASE Begin(n)
  <2>1. UNCHANGED <<store, pending, unknown>> /\ state'[n] = "open"
    BY <1>4, <1>7 DEF Begin, Server!Begin
  <2>2. calls'[n] = [calls[n] EXCEPT !.work = "work"]
    BY <1>0, <1>7 DEF Begin
  <2>3. calls'[n].work = "work" /\ calls'[n].count = calls[n].count /\ calls'[n].sent = calls[n].sent
    BY <1>0, <2>2 DEF CallType
  <2>4. Reached(n, i)'
    BY <1>1, <1>2, <1>6, <2>1, <2>3, ReachedThen
  <2>5. ServedCall(n)'
    BY <1>0, <1>1, <1>2, <1>5, <2>1, <2>3, <2>4 DEF ServedCall
  <2> QED
    BY <1>3, <2>1, <2>5, ImportHandles
<1>8. CASE HandlerWrites(n)
  <2>1. /\ calls' = calls /\ pending' = pending /\ state'[n] = "closing"
        /\ Server!Settle(n, pending[n]) /\ calls[n].work = "work"
    BY <1>4, <1>8 DEF HandlerWrites, Server!Close
  <2>2. ASSUME NEW g \in (1 .. MaxCalls) \ {n}, NEW k \in Key, state[g] = "closing", pending[g][k] # Keep
        PROVE  pending[n][k] = Keep
    <3>1. g \in {NsCall, StmtCall} /\ k \in KeysOf(g)
      BY <2>2, OwnKeys
    <3>2. k \notin KeysOf(n)
      BY <2>2, <3>1, OwnKeys, SMTT(30)
    <3> QED
      BY <1>6, <3>2
  <2>3. unknown' = {} /\ store' = store
    BY <1>3, <1>4, <2>1, <2>2, SettleAlone
  <2>4. calls[n].up => calls[n].ended /\ calls[n].sent = <<>>
    BY <1>0, <1>8 DEF HandlerWrites, NoMoreRequests
  <2>5. Reached(n, i)'
    BY <1>1, <1>6, <2>1, <2>3, ReachedThen
  <2>6. ServedCall(n)'
    BY <1>0, <1>1, <1>5, <2>1, <2>3, <2>4, <2>5 DEF ServedCall
  <2> QED
    BY <1>3, <2>3, <2>6, ImportHandles
<1> QED
  BY <1>7, <1>8

-----------------------------------------------------------------------------
(* import: the items counted *)
\* The last of some items is the one after which there are none.
LEMMA LastOfHits ==
    ASSUME SetFacts, NEW i \in Nat, NEW hits \in SUBSET (1 .. i), hits # {}
    PROVE  LastOf(hits) \in hits
<1> DEFINE T == {m \in Nat : \A j \in hits : j <= m}
<1>1. i \in T
  BY SMTT(30)
<1>2. PICK m \in T : \A n \in T : m <= n
  <2>1. T \in SUBSET Nat /\ T # {}
    BY <1>1
  <2> HIDE DEF T
  <2> QED
    BY <2>1, Smallest
<1>3. m \in hits
  <2> SUFFICES ASSUME m \notin hits PROVE FALSE
    OBVIOUS
  <2>1. PICK h \in hits : h \in 1 .. i
    OBVIOUS
  <2>2. m \in Nat /\ \A j \in hits : j \in Nat /\ j <= m
    BY SMTT(30)
  <2>3. m - 1 \in T
    BY <2>1, <2>2, SMTT(30)
  <2> QED
    BY <1>2, <2>2, <2>3, SMTT(30)
<1>4. \E h \in hits : \A j \in hits : j <= h
  BY <1>3
<1> QED
  BY <1>4 DEF LastOf

\* What the changes of a document make of an entry.
LEMMA ChangeImported ==
    ASSUME SetFacts, Items \in Seq(Item), NEW k, NEW i \in 0 .. Len(Items)
    PROVE  Imported(k, i) = IF Change(k, i) = Keep THEN before[k] ELSE Change(k, i)
<1>1. CASE Hits(k, i) = {}
  BY <1>1 DEF Change, Imported
<1>2. CASE Hits(k, i) # {}
  <2>1. i \in Nat /\ Hits(k, i) \in SUBSET (1 .. i)
    BY SMTT(30) DEF Hits
  <2>2. LastOf(Hits(k, i)) \in 1 .. i
    BY <1>2, <2>1, LastOfHits
  <2>3. Items[LastOf(Hits(k, i))] \in Item
    BY <2>2, SMTT(30)
  <2>4. Items[LastOf(Hits(k, i))].value # Keep
    BY <2>3, ClientAssumption DEF Item
  <2> QED
    BY <1>2, <2>4 DEF Change, Imported
<1> QED
  BY <1>1, <1>2

\* The next item about the keys K is one more.
LEMMA OneMore ==
    ASSUME SetFacts, NEW i \in Nat, NEW p \in Nat, i < p, NEW K, Items[p].key \in K,
           \A q \in (i + 1) .. (p - 1) : Items[q].key \notin K
    PROVE  Cardinality(About(K, p)) =
               Cardinality(About(K, i)) + 1
<1> DEFINE S == About(K, i)
           T == About(K, p)
<1>1. T = S \cup {p} /\ p \notin S /\ S \in SUBSET (1 .. i)
  BY SMTT(30) DEF About
<1>2. IsFiniteSet(1 .. i)
  BY IntervalFinite
<1> HIDE DEF S, T
<1>3. IsFiniteSet(S)
  BY <1>1, <1>2, SubsetFinite
<1>4. Cardinality(S \cup {p}) = Cardinality(S) + 1
  BY <1>1, <1>3, OneElementMore
<1>5. Cardinality(T) = Cardinality(S) + 1
  BY <1>1, <1>4
<1> QED
  BY <1>5 DEF S, T

\* A handler reads a request: the next item that is about its keys.
LEMMA ImportRequest ==
    ASSUME SetFacts, ClientTypeOK, CallsAgree, ImportInvariant, QuietCommand("import"),
           NEW n \in 1 .. MaxCalls, Handler(n), n \in {NsCall, StmtCall}, Request(n)
    PROVE  ImportInvariant'
<1>0. /\ n \in DOMAIN calls /\ line \in Nat /\ calls[n] \in CallType /\ KeysOf(n) \subseteq Key
      /\ ServedCall(n) /\ Items \in Seq(Item) /\ line \in 0 .. Len(Items)
  BY ImportFacts DEF ImportInvariant, Key
<1>1. UNCHANGED <<script, before, line, at>>
  BY HandlerEffect DEF serverOnly, userVars
<1>2. /\ Len(calls') = Len(calls) /\ calls'[n].ended = calls[n].ended /\ calls'[n].up = calls[n].up
  BY HandlerEffect
<1>3. calls[n].work = "work" /\ unknown = {}
  BY <1>0 DEF ImportInvariant, AllDone, Request
<1>4. /\ pending \in [1 .. MaxCalls -> [Key -> Entry \cup {Keep}]]
      /\ state \in [1 .. MaxCalls -> {"idle", "open", "closing"}]
  BY DEF ClientTypeOK
<1>5. PICK i \in 0 .. line : Reached(n, i)
  BY <1>0 DEF ServedCall
<1>6. calls[n].up /\ calls[n].sent # <<>> /\ calls[n].sent \in Seq(Item)
  BY <1>0 DEF Request, CallType
<1>7. /\ \A k \in KeysOf(n) : store[k] = before[k]
      /\ \A k \in Key : pending[n][k] = IF k \in KeysOf(n) THEN Change(k, i) ELSE Keep
      /\ calls[n].count = Cardinality(About(KeysOf(n), i))
      /\ Queued(calls[n].sent, KeysOf(n), i, line)
  BY <1>3, <1>5, <1>6 DEF Reached
<1>8. PICK p \in (i + 1) .. line :
         /\ Head(calls[n].sent) = Items[p] /\ Items[p].key \in KeysOf(n)
         /\ \A q \in (i + 1) .. (p - 1) : Items[q].key \notin KeysOf(n)
         /\ Queued(Tail(calls[n].sent), KeysOf(n), p, line)
  <2>1. i \in Nat
    BY <1>0, SMTT(30)
  <2>2. \A K, l : l \in Nat /\ Queued(calls[n].sent, K, i, l) =>
            \E p \in (i + 1) .. l :
                /\ Head(calls[n].sent) = Items[p] /\ Items[p].key \in K
                /\ \A q \in (i + 1) .. (p - 1) : Items[q].key \notin K
                /\ Queued(Tail(calls[n].sent), K, p, l)
    BY <1>6, <2>1, QueueShrinks
  <2> QED
    BY <1>0, <1>7, <2>2
<1>9. i \in Nat /\ p \in Nat \ {0} /\ i < p /\ i <= p - 1 /\ p - 1 \in Nat /\ p \in 0 .. line
  BY <1>0, SMTT(30)
<1>10. /\ UNCHANGED <<store, state, unknown>> /\ state[n] = "open"
       /\ pending' = [pending EXCEPT ![n] = [@ EXCEPT ![Items[p].key] = Items[p].value]]
  BY <1>8 DEF Request, Server!Put
<1>11. ASSUME NEW k \in Key
       PROVE  pending'[n][k] = IF k \in KeysOf(n) THEN Change(k, p) ELSE Keep
  <2>1. Items[p].key \in Key
    BY <1>0, <1>8
  <2>2. CASE k = Items[p].key
    <3>1. pending'[n][k] = Items[p].value
      BY <1>4, <1>10, <2>1, <2>2
    <3> QED
      BY <1>8, <1>9, <2>2, <3>1, ChangeHits
  <2>3. CASE k # Items[p].key
    <3>1. pending'[n][k] = pending[n][k]
      BY <1>4, <1>10, <2>1, <2>3
    <3>2. ASSUME k \in KeysOf(n) PROVE Change(k, p) = Change(k, i)
      <4>1. \A q \in (i + 1) .. p : Items[q].key # k
        BY <1>8, <1>9, <2>3, <3>2, SMTT(30)
      <4> QED
        BY <1>9, <4>1, ChangeStays, SMTT(30)
    <3> QED
      BY <1>7, <3>1, <3>2
  <2> QED
    BY <2>2, <2>3
<1>12. calls'[n] = [calls[n] EXCEPT !.sent = Tail(@), !.count = @ + 1]
  BY <1>0 DEF Request
<1>13. /\ calls'[n].work = "work" /\ calls'[n].sent = Tail(calls[n].sent)
       /\ calls'[n].count = calls[n].count + 1
  BY <1>0, <1>3, <1>12 DEF CallType
<1>14. calls'[n].count = Cardinality(About(KeysOf(n), p))
  <2>1. Cardinality(About(KeysOf(n), p)) =
            Cardinality(About(KeysOf(n), i)) + 1
    BY <1>8, <1>9, OneMore
  <2> QED
    BY <1>7, <1>13, <2>1
<1>15. Reached(n, p)'
  BY <1>1, <1>2, <1>7, <1>8, <1>10, <1>11, <1>13, <1>14, ReachedThen, SMTT(30)
<1>16. ServedCall(n)'
  BY <1>0, <1>1, <1>2, <1>9, <1>10, <1>13, <1>15 DEF ServedCall
<1> QED
  BY <1>3, <1>10, <1>16, ImportHandles

\* A handler returns: all it has read is stored.
LEMMA ImportReturns ==
    ASSUME SetFacts, ClientTypeOK, CallsAgree, ImportInvariant, QuietCommand("import"),
           NEW n \in 1 .. MaxCalls, Handler(n), n \in {NsCall, StmtCall}, HandlerReturns(n)
    PROVE  ImportInvariant'
<1>0. /\ n \in DOMAIN calls /\ line \in Nat /\ calls[n] \in CallType /\ KeysOf(n) \subseteq Key
      /\ ServedCall(n) /\ Items \in Seq(Item) /\ line \in 0 .. Len(Items) /\ Len(Items) \in Nat
  BY ImportFacts DEF ImportInvariant, Key
<1>1. UNCHANGED <<script, before, line, at>>
  BY HandlerEffect DEF serverOnly, userVars
<1>2. /\ Len(calls') = Len(calls) /\ calls'[n].ended = calls[n].ended /\ calls'[n].up = calls[n].up
  BY HandlerEffect
<1>3. /\ state[n] = "closing" /\ store' = Server!Applied(pending[n]) /\ unknown' = unknown
      /\ state' = [state EXCEPT ![n] = "idle"]
  BY DEF HandlerReturns, Server!Commit
<1>4. calls[n].work = "work" /\ state'[n] = "idle"
  BY <1>3 DEF CallsAgree, ClientTypeOK
<1>5. unknown = {}
  BY <1>0, <1>4 DEF ImportInvariant, AllDone
<1>6. PICK i \in 0 .. line : Reached(n, i)
  BY <1>0 DEF ServedCall
<1>7. /\ \A k \in KeysOf(n) : store[k] = before[k]
      /\ \A k \in Key : pending[n][k] = IF k \in KeysOf(n) THEN Change(k, i) ELSE Keep
      /\ calls[n].up =>
            /\ calls[n].count = Cardinality(About(KeysOf(n), i))
            /\ Queued(calls[n].sent, KeysOf(n), i, line)
  BY <1>4, <1>6 DEF Reached
<1>8. calls'[n] = [calls[n] EXCEPT !.work = "done"]
  BY <1>0 DEF HandlerReturns
<1>9. calls'[n].work = "done" /\ calls'[n].count = calls[n].count /\ calls'[n].sent = calls[n].sent
  BY <1>0, <1>8 DEF CallType
<1>10. \A k \in Key : store'[k] = IF pending[n][k] = Keep THEN store[k] ELSE pending[n][k]
  BY <1>3, <1>5 DEF Server!Applied
<1>11. \A k \in Key \ KeysOf(n) : store'[k] = store[k]
  BY <1>7, <1>10
<1>12. ASSUME NEW k \in KeysOf(n) PROVE store'[k] = Imported(k, i)
  <2>1. i \in 0 .. Len(Items)
    BY <1>0, SMTT(30)
  <2>2. Imported(k, i) = IF Change(k, i) = Keep THEN before[k] ELSE Change(k, i)
    BY <1>0, <2>1, ChangeImported
  <2> QED
    BY <1>0, <1>7, <1>10, <2>2
<1>13. Reached(n, i)'
  BY <1>1, <1>2, <1>7, <1>9, <1>12, ReachedThen
<1>14. calls[n].up => calls[n].ended /\ calls[n].sent = <<>>
  BY <1>0, <1>3 DEF ServedCall
<1>15. ServedCall(n)'
  BY <1>0, <1>1, <1>2, <1>3, <1>5, <1>6, <1>9, <1>13, <1>14 DEF ServedCall
<1> QED
  BY <1>3, <1>4, <1>5, <1>11, <1>15, ImportHandles

LEMMA ImportHandler ==
    ASSUME SetFacts, ClientTypeOK, CallsAgree, ImportInvariant, QuietCommand("import"),
           NEW n \in 1 .. MaxCalls, Handler(n)
    PROVE  ImportInvariant'
<1>1. CASE n \notin {NsCall, StmtCall} \/ Answer(n)
  BY <1>1, ImportAnswer
<1>2. CASE n \in {NsCall, StmtCall} /\ (Begin(n) \/ HandlerWrites(n))
  BY <1>2, ImportWrites
<1>3. CASE n \in {NsCall, StmtCall} /\ Request(n)
  BY <1>3, ImportRequest
<1>4. CASE n \in {NsCall, StmtCall} /\ HandlerReturns(n)
  BY <1>4, ImportReturns
<1>5. n \in {NsCall, StmtCall} => ~Remove(n)
  BY DEF Remove, ImportInvariant
<1> QED
  BY <1>1, <1>2, <1>3, <1>4, <1>5 DEF Handler

\* An import begins: its calls are new, and nothing has been read.
LEMMA ImportStarts ==
    ASSUME SetFacts, ClientTypeOK, CallsAgree, StartImport PROVE ImportInvariant'
<1> SUFFICES ASSUME quiet' PROVE ImportInvariant'
  BY DEF ImportInvariant, QuietCommand
<1> DEFINE c == NewCall("ns", Anything)
           d == NewCall("stmt", Anything)
           L == Len(calls)
<1>1. /\ calls' = calls \o <<c, d>> /\ calls \in Seq(CallType) /\ script' = script
      /\ UNCHANGED <<store, state, pending, unknown>>
      /\ quiet' = (AllDone /\ unknown = {}) /\ before' = store /\ line' = 0 /\ at' = "parse"
      /\ Command.op = "import" /\ script \in Seq(Commands) /\ script # <<>>
      /\ store \in [Key -> Entry]
  BY DEF StartImport, Start, ClientTypeOK, serverVars
<1>2. /\ c.kind = "ns" /\ d.kind = "stmt" /\ c \in CallType /\ d \in CallType
      /\ \A e \in {c, d} : /\ e.work = "new" /\ e.sent = <<>> /\ ~e.ended
                           /\ e.up /\ e.count = 0
  BY NewCallType, AnythingIsPattern, SMTT(30) DEF NewCall
<1> HIDE DEF c, d
<1>3. /\ Len(calls') = L + 2 /\ L \in Nat /\ DOMAIN calls' = 1 .. (L + 2)
      /\ calls'[L + 1] = c /\ calls'[L + 2] = d
      /\ \A m \in 1 .. L : calls'[m] = calls[m] /\ calls[m].work = "done"
  <2>1. /\ Len(calls') = L + 2 /\ L \in Nat /\ DOMAIN calls' = 1 .. (L + 2)
        /\ calls'[L + 1] = c /\ calls'[L + 2] = d /\ DOMAIN calls = 1 .. L
        /\ \A m \in 1 .. L : calls'[m] = calls[m]
    <3>1. calls' = calls \o <<c, d>> /\ calls \in Seq(CallType)
      BY <1>1
    <3> QED
      BY <3>1, TwoAppended, SMTT(30)
  <2> QED
    BY <1>1, <2>1 DEF AllDone
<1> HIDE DEF L
<1>4. /\ Command' = Command /\ Items' = Items /\ Items \in Seq(Item)
      /\ \A k, i : Change(k, i)' = Change(k, i)
  BY <1>1, ItemsStay, CommandType
<1>5. NsCall' = L + 1 /\ StmtCall' = L + 2
  BY <1>3, SMTT(30) DEF NsCall, StmtCall
<1>6. ASSUME NEW n \in {L + 1, L + 2} PROVE ServedCall(n)'
  <2>1. /\ calls'[n].work = "new" /\ calls'[n].sent = <<>> /\ ~calls'[n].ended
        /\ calls'[n].up /\ calls'[n].count = 0
    BY <1>2, <1>3
  <2>2. n \in 1 .. MaxCalls => state'[n] = "idle" /\ pending'[n] = Server!NoChange
    <3>1. n \notin DOMAIN calls
      BY <1>1, <1>3, SMTT(30) DEF L
    <3> QED
      BY <1>1, <3>1 DEF CallsAgree
  <2>3. KeysOf(n)' \subseteq Key
    BY DEF KeysOf, Key
  <2>4. \A k \in KeysOf(n)' : store'[k] = before'[k]
    BY <1>1
  <2>5. n \in 1 .. MaxCalls => \A k \in Key :
            pending'[n][k] = IF k \in KeysOf(n)' THEN Change(k, 0)' ELSE Keep
    BY <1>4, <2>2, NothingChanged DEF Server!NoChange
  <2>6. About(KeysOf(n), 0)' = {}
    BY SMTT(30) DEF About
  <2>7. calls'[n].count = Cardinality(About(KeysOf(n), 0)')
    BY <2>1, <2>6, EmptyFinite
  <2>8. Queued(calls[n].sent, KeysOf(n), 0, line)'
    <3> DEFINE pos == [a \in {} |-> a]
    <3>1. pos \in [{} -> {}]
      OBVIOUS
    <3> HIDE DEF pos
    <3>2. 1 .. 0 = {} /\ (0 + 1) .. 0 = {}
      BY SMTT(30)
    <3>3. Len(calls'[n].sent) = 0 /\ line' = 0
      BY <1>1, <2>1
    <3>4. 1 .. Len(calls'[n].sent) = {} /\ (0 + 1) .. line' = {}
      BY <3>2, <3>3
    <3> QED
      BY <3>1, <3>4 DEF Queued
  <2>9. Reached(n, 0)'
    BY <2>1, <2>4, <2>5, <2>7, <2>8 DEF Reached
  <2>10. 0 \in 0 .. line'
    BY <1>1, SMTT(30)
  <2> QED
    BY <2>1, <2>2, <2>9, <2>10 DEF ServedCall
<1>7. /\ Len(calls') >= 2 /\ line' \in 0 .. Len(Items)
      /\ \A m \in 1 .. (Len(calls') - 2) : calls'[m].work = "done"
  <2>1. Len(Items) \in Nat
    BY <1>4, SMTT(30)
  <2>2. Len(calls') - 2 = L
    BY <1>3, SMTT(30)
  <2> QED
    BY <1>1, <1>3, <2>1, <2>2, SMTT(30)
<1>8. calls'[NsCall'].kind = "ns" /\ calls'[StmtCall'].kind = "stmt"
  BY <1>2, <1>3, <1>5
<1>9. \A n \in {NsCall', StmtCall'} : ServedCall(n)'
  BY <1>5, <1>6
<1> QED
  BY <1>1, <1>4, <1>7, <1>8, <1>9 DEF ImportInvariant

LEMMA ImportStep ==
    ASSUME SetFacts, ClientTypeOK, CallsAgree, ImportInvariant, [Next]_vars PROVE ImportInvariant'
<1>1. CASE StartImport
  BY <1>1, ImportStarts
<1>2. CASE ~QuietCommand("import") /\ ~StartImport
  <2>1. ~QuietCommand("import")'
    <3>1. CASE StartDelete \/ StartSelect \/ Exit
      BY <3>1 DEF StartDelete, StartSelect, Exit, Start, QuietCommand, Command
    <3>2. CASE UNCHANGED <<script, quiet>> /\ (at' = "start" \/ at # "start")
      BY <1>2, <3>2 DEF QuietCommand, Command
    <3>3. CASE Client /\ ~(StartDelete \/ StartSelect \/ Exit)
      BY <1>2, <3>2, <3>3 DEF Client, Parse, ParseEnds, ParseError, ImportReport,
            DeleteReport, Read, SerializationError, ReadEnds, userVars
    <3>4. ASSUME NEW n \in 1 .. MaxCalls, Handler(n) PROVE ~QuietCommand("import")'
      <4>1. UNCHANGED <<script, quiet, at>>
        BY <3>4, HandlerEffect DEF serverOnly, userVars
      <4> QED
        BY <1>2, <4>1 DEF QuietCommand, Command
    <3>5. CASE GetStatements \/ BreakCalls \/ BreakSelect \/ Crash \/ Idle \/ UNCHANGED vars
      <4>1. UNCHANGED <<script, quiet, at>>
        BY <3>5 DEF GetStatements, BreakCalls, BreakSelect, Crash, Idle, vars, userVars
      <4> QED
        BY <1>2, <4>1 DEF QuietCommand, Command
    <3> QED
      BY <3>1, <3>3, <3>4, <3>5 DEF Next
  <2> QED
    BY <2>1 DEF ImportInvariant
<1>3. CASE QuietCommand("import")
  <2>1. at # "start" /\ Command.op = "import"
    BY <1>3 DEF QuietCommand
  <2>2. CASE Parse
    BY <1>3, <2>2, ImportParse
  <2>3. CASE ParseEnds
    BY <1>3, <2>3, ImportEnds
  <2>4. CASE ParseError
    <3>1. /\ CutCalls({NsCall, StmtCall}) /\ UNCHANGED serverVars
          /\ UNCHANGED <<script, before, line>> /\ line = Len(Items) /\ at' # "parse"
      BY <2>4 DEF ParseError, userVars
    <3> QED
      BY <1>3, <3>1, ImportCut
  <2>5. CASE BreakCalls
    <3>1. PICK N : CutCalls(N)
      BY <2>5 DEF BreakCalls
    <3>2. UNCHANGED serverVars /\ UNCHANGED <<script, before, line, at>>
      BY <2>5 DEF BreakCalls, userVars
    <3> QED
      BY <1>3, <3>1, <3>2, ImportCut
  <2>6. CASE ImportReport \/ GetStatements \/ BreakSelect \/ Idle \/ UNCHANGED vars
    <3>1. /\ UNCHANGED <<script, before, line, calls, store, state, pending, unknown>>
          /\ at' = at \/ (at # "parse" /\ at' # "parse")
      BY <2>6 DEF ImportReport, GetStatements, BreakSelect, Idle, vars, serverVars, userVars
    <3> QED
      BY <1>3, <3>1, ImportRests
  <2>7. CASE Crash
    BY <1>3, <2>7, ImportCrash
  <2>8. ASSUME NEW n \in 1 .. MaxCalls, Handler(n) PROVE ImportInvariant'
    BY <1>3, <2>8, ImportHandler
  <2>9. CASE Exit
    BY <2>9 DEF Exit, ImportInvariant, QuietCommand
  <2>10. ~(StartImport \/ StartDelete \/ StartSelect)
    BY <2>1 DEF StartImport, StartDelete, StartSelect, Start
  <2>11. ~(DeleteReport \/ Read \/ SerializationError \/ ReadEnds)
    BY <2>1 DEF DeleteReport, Read, SerializationError, ReadEnds, ClientTypeOK
  <2> QED
    BY <2>2, <2>3, <2>4, <2>5, <2>6, <2>7, <2>8, <2>9, <2>10, <2>11 DEF Next, Client
<1> QED
  BY <1>1, <1>2, <1>3

-----------------------------------------------------------------------------
(* The iterator of GetStatements *)

LEMMA CurrentIsLeast ==
    ASSUME SetFacts, ScanTypeOK, rest # {}
    PROVE  /\ Current \in rest
           /\ \A y \in rest : Leq(StatementKey(Type, Current), StatementKey(Type, y))
<1>1. Type \in StmtDB /\ rest \in SUBSET Statement
  BY TypeOfType DEF ScanTypeOK, Type
<1> QED
  BY <1>1, FirstIsLeast DEF Current

LEMMA MaxKeyType ==
    ASSUME NEW d \in StmtDB, NEW pat \in Pattern
    PROVE  MaxKey(d, pat) \in [1 .. 4 -> Nat]
<1>1. ASSUME NEW i \in 1 .. 4, Bound(d, pat, i)
      PROVE  pat[PatternOrder[d][i]] \in Term
  <2>1. pat[PatternOrder[d][i]] # Unset
    BY <1>1, SMTT(30) DEF Bound
  <2>2. PatternOrder[d][i] \in {"s", "p", "o", "c"}
    BY Orders
  <2> QED
    BY <2>1, <2>2 DEF Pattern, Term
<1> QED
  BY <1>1, HashAssumption, SMTT(30) DEF MaxKey, computeKey

\* The statements handed out, with one more.
LEMMA EmittedAppend ==
    ASSUME NEW x \in Statement, emitted \in Seq(Statement), emitted' = Append(emitted, x)
    PROVE  /\ emitted' \in Seq(Statement)
           /\ DOMAIN emitted' = 1 .. (Len(emitted) + 1)
           /\ DOMAIN emitted = 1 .. Len(emitted) /\ Len(emitted) \in Nat
           /\ \A i \in 1 .. Len(emitted) : emitted'[i] = emitted[i]
           /\ emitted'[Len(emitted) + 1] = x
           /\ \A y : y \in Emitted' <=> y \in Emitted \/ y = x
<1>1. /\ emitted' \in Seq(Statement)
      /\ DOMAIN emitted' = 1 .. (Len(emitted) + 1)
      /\ DOMAIN emitted = 1 .. Len(emitted) /\ Len(emitted) \in Nat
      /\ \A i \in 1 .. Len(emitted) : emitted'[i] = emitted[i]
      /\ emitted'[Len(emitted) + 1] = x
  BY SMTT(30)
<1>2. ASSUME NEW y PROVE y \in Emitted' <=> y \in Emitted \/ y = x
  <2>1. y \in Emitted' <=> \E i \in 1 .. (Len(emitted) + 1) : emitted'[i] = y
    BY <1>1 DEF Emitted
  <2>2. y \in Emitted <=> \E i \in 1 .. Len(emitted) : emitted[i] = y
    BY <1>1 DEF Emitted
  <2>3. \A i \in 1 .. (Len(emitted) + 1) : i \in 1 .. Len(emitted) \/ i = Len(emitted) + 1
    BY <1>1, SMTT(30)
  <2>4. 1 .. Len(emitted) \subseteq 1 .. (Len(emitted) + 1) /\ Len(emitted) + 1 \in 1 .. (Len(emitted) + 1)
    BY <1>1, SMTT(30)
  <2> QED
    BY <1>1, <2>1, <2>2, <2>3, <2>4
<1> QED
  BY <1>1, <1>2

LEMMA InitScan == ScanInit => ScanInvariant
<1> SUFFICES ASSUME ScanInit PROVE ScanInvariant
  OBVIOUS
<1>1. pattern \in Pattern
  BY DEF ScanInit, Anything, Pattern
<1> QED
  BY <1>1, SMTT(30) DEF ScanInit, ScanInvariant, ScanTypeOK

\* One round of the loop.
LEMMA StepScan ==
    ASSUME SetFacts, ScanInvariant, NEW cbsuccess \in BOOLEAN, ScanStep(cbsuccess)
    PROVE  ScanInvariant'
<1>1. /\ ScanTypeOK /\ emitted \in Seq(Statement) /\ rest \in SUBSET Statement
      /\ scan = "scan" /\ rest # {} /\ UNCHANGED <<snapshot, pattern>>
      /\ scan' \in {"scan", "stopped"}
      /\ Leq(StatementKey(Type, Current), MaxKey(Type, pattern))
  BY DEF ScanInvariant, ScanTypeOK, ScanStep, hasNext
<1> DEFINE c == Current
<1>2. /\ c \in rest /\ c \in Statement
      /\ \A y \in rest : Leq(StatementKey(Type, c), StatementKey(Type, y))
  BY <1>1, CurrentIsLeast
<1>3. emitted' = Append(emitted, c) /\ rest' = rest \ {c}
  BY DEF ScanStep
<1>4. Leq(StatementKey(Type, c), MaxKey(Type, pattern))
  BY <1>1
<1> HIDE DEF c
<1>5. Type' = Type /\ Type \in StmtDB
  BY <1>1, TypeOfType DEF Type, ScanTypeOK
<1>6. \A y \in rest \ {c} : Precedes(c, y)
  BY <1>1, <1>2, <1>5, KeyInjective DEF Leq, Precedes
<1>7. /\ emitted' \in Seq(Statement)
      /\ DOMAIN emitted' = 1 .. (Len(emitted) + 1)
      /\ DOMAIN emitted = 1 .. Len(emitted) /\ Len(emitted) \in Nat
      /\ \A i \in 1 .. Len(emitted) : emitted'[i] = emitted[i]
      /\ emitted'[Len(emitted) + 1] = c
      /\ \A y : y \in Emitted' <=> y \in Emitted \/ y = c
  BY <1>1, <1>2, <1>3, EmittedAppend
<1>8. ScanTypeOK'
  BY <1>1, <1>3, <1>7 DEF ScanTypeOK
<1>9. \A x, y \in Statement : Precedes(x, y)' <=> Precedes(x, y)
  BY <1>5 DEF Precedes
<1>10. \A x \in Emitted : /\ x \in Statement
                          /\ Leq(StatementKey(Type, x), MaxKey(Type, pattern))
                          /\ \A y \in rest : Precedes(x, y)
  BY <1>1, SMTT(30) DEF ScanInvariant, Emitted
<1>11. ASSUME NEW i \in DOMAIN emitted', NEW j \in DOMAIN emitted', i < j
       PROVE  Precedes(emitted[i], emitted[j])'
  <2>1. i \in 1 .. Len(emitted) /\ emitted'[i] = emitted[i] /\ emitted[i] \in Emitted
    BY <1>7, <1>11, SMTT(30) DEF Emitted
  <2>2. CASE j = Len(emitted) + 1
    <3>1. Precedes(emitted[i], c)
      BY <1>2, <1>10, <2>1
    <3> QED
      BY <1>2, <1>7, <1>9, <1>10, <2>1, <2>2, <3>1
  <2>3. CASE j \in 1 .. Len(emitted)
    <3>1. Precedes(emitted[i], emitted[j]) /\ emitted[j] \in Statement
      BY <1>1, <1>7, <1>11, <2>1, <2>3, SMTT(30) DEF ScanInvariant
    <3> QED
      BY <1>7, <1>9, <1>10, <2>1, <2>3, <3>1
  <2> QED
    BY <1>7, <2>2, <2>3, SMTT(30)
<1>12. ASSUME NEW x \in Statement
       PROVE  x \in Emitted' \/ x \in rest' <=>
                 (x \in snapshot /\ Leq(MinKey(Type, pattern), StatementKey(Type, x)))'
  <2>1. x \in Emitted' \/ x \in rest' <=> x \in Emitted \/ x \in rest
    BY <1>2, <1>3, <1>7
  <2>2. x \in Emitted \/ x \in rest <=>
           x \in snapshot /\ Leq(MinKey(Type, pattern), StatementKey(Type, x))
    BY <1>1 DEF ScanInvariant
  <2> QED
    BY <1>1, <1>5, <2>1, <2>2
<1>13. ASSUME NEW x \in Emitted'
       PROVE  /\ Leq(StatementKey(Type, x), MaxKey(Type, pattern))'
              /\ \A y \in rest' : Precedes(x, y)'
  <2>1. x \in Statement /\ Leq(StatementKey(Type, x), MaxKey(Type, pattern))
    BY <1>2, <1>4, <1>7, <1>10
  <2>2. \A y \in rest' : Precedes(x, y)
    BY <1>3, <1>6, <1>7, <1>10
  <2> QED
    BY <1>1, <1>3, <1>5, <1>9, <2>1, <2>2
<1> QED
  BY <1>1, <1>8, <1>11, <1>12, <1>13 DEF ScanInvariant

LEMMA NextScan ==
    ASSUME SetFacts, ScanInvariant, [ScanNext]_scanVars
    PROVE  ScanInvariant'
<1>1. CASE UNCHANGED scanVars
  BY <1>1 DEF scanVars, ScanInvariant, ScanTypeOK, Precedes, Type, Emitted
<1>2. ASSUME NEW pat \in Pattern, RequestScan(pat) PROVE ScanInvariant'
  BY <1>2, SMTT(30) DEF RequestScan, ScanInvariant, ScanTypeOK
<1>3. ASSUME NEW stored \in SUBSET Statement, OpenScan(stored) PROVE ScanInvariant'
  <2>1. /\ emitted = <<>> /\ emitted' = emitted /\ pattern' = pattern
        /\ snapshot' = stored /\ scan' = "scan" /\ Type' = Type
        /\ rest' = {x \in stored : Leq(MinKey(Type, pattern), StatementKey(Type, x))}
    BY <1>3 DEF OpenScan, ScanInvariant, Type
  <2>2. \A x : x \notin Emitted'
    BY <2>1, SMTT(30) DEF Emitted
  <2>3. ScanTypeOK'
    BY <2>1 DEF ScanInvariant, ScanTypeOK
  <2> QED
    BY <2>1, <2>2, <2>3, SMTT(30) DEF ScanInvariant
<1>4. ASSUME ScanEnds PROVE ScanInvariant'
  <2>1. /\ UNCHANGED <<snapshot, pattern, rest, emitted>> /\ scan = "scan" /\ scan' = "done"
        /\ Type' = Type /\ Emitted' = Emitted
    BY <1>4 DEF ScanEnds, Type, Emitted
  <2>2. ASSUME NEW x \in rest, Leq(StatementKey(Type, x), MaxKey(Type, pattern)) PROVE FALSE
    <3>1. Current \in rest /\ Leq(StatementKey(Type, Current), StatementKey(Type, x))
      BY <2>2, CurrentIsLeast DEF ScanInvariant
    <3>2. /\ StatementKey(Type, Current) \in [1 .. 4 -> Nat]
          /\ StatementKey(Type, x) \in [1 .. 4 -> Nat]
          /\ MaxKey(Type, pattern) \in [1 .. 4 -> Nat]
      BY <3>1, KeyType, MaxKeyType, TypeOfType DEF ScanInvariant, ScanTypeOK, Type
    <3>3. Leq(StatementKey(Type, Current), MaxKey(Type, pattern))
      BY <2>2, <3>1, <3>2, LessOrder DEF Leq
    <3> QED
      BY <1>4, <2>2, <3>3 DEF ScanEnds, hasNext
  <2>3. ScanTypeOK'
    BY <2>1 DEF ScanInvariant, ScanTypeOK
  <2> QED
    BY <2>1, <2>2, <2>3 DEF ScanInvariant, Precedes
<1>5. ASSUME ScanDies PROVE ScanInvariant'
  <2>1. /\ UNCHANGED <<snapshot, pattern, rest, emitted>> /\ scan' = "none" /\ Type' = Type
    BY <1>5 DEF ScanDies, Type
  <2> QED
    BY <2>1 DEF ScanInvariant, ScanTypeOK, Precedes
<1> QED
  BY <1>1, <1>2, <1>3, <1>4, <1>5, StepScan DEF ScanNext

LEMMA RangeFollows == ScanInvariant => ScanIsRange
<1> SUFFICES ASSUME ScanInvariant PROVE ScanIsRange
  OBVIOUS
<1>1. ScanTypeOK /\ emitted \in Seq(Statement) /\ snapshot \in SUBSET Statement
  BY DEF ScanInvariant, ScanTypeOK
<1>2. ASSUME NEW i \in 1 .. (Len(emitted) - 1)
      PROVE  Less(StatementKey(Type, emitted[i]), StatementKey(Type, emitted[i + 1]))
  <2>1. i \in DOMAIN emitted /\ i + 1 \in DOMAIN emitted /\ i < i + 1
    BY <1>1, SMTT(30)
  <2> QED
    BY <2>1 DEF ScanInvariant, Precedes
<1>3. ASSUME scan \in {"scan", "done", "stopped"}
      PROVE  /\ Emitted \subseteq Scan(snapshot, pattern)
             /\ Scan(snapshot, pattern) \ Emitted = IF scan = "done" THEN {} ELSE Scan(rest, pattern)
  <2>1. ASSUME NEW x \in Statement
        PROVE  InRange(Type, pattern, x) <=> /\ Leq(MinKey(Type, pattern), StatementKey(Type, x))
                                             /\ Leq(StatementKey(Type, x), MaxKey(Type, pattern))
    BY DEF InRange
  <2>2. \A x \in Emitted : x \in Statement
    BY <1>1, SMTT(30) DEF Emitted
  <2>3. \A x \in Statement : x \in Emitted \/ x \in rest <=>
           x \in snapshot /\ Leq(MinKey(Type, pattern), StatementKey(Type, x))
    BY <1>3 DEF ScanInvariant
  <2>4. \A x \in Emitted : Leq(StatementKey(Type, x), MaxKey(Type, pattern))
    BY <1>3 DEF ScanInvariant
  <2>5. \A x \in Emitted : x \notin rest
    <3> SUFFICES ASSUME NEW x \in Emitted, x \in rest PROVE FALSE
      OBVIOUS
    <3>1. Precedes(x, x)
      BY <1>3 DEF ScanInvariant
    <3>2. StatementKey(Type, x) \in [1 .. 4 -> Nat]
      BY <1>1, <2>2, KeyType, TypeOfType DEF ScanTypeOK, Type
    <3> QED
      BY <3>1, <3>2, LessOrder DEF Precedes
  <2>6. scan = "done" => \A x \in rest : ~Leq(StatementKey(Type, x), MaxKey(Type, pattern))
    BY DEF ScanInvariant
  <2>7. rest \in SUBSET Statement
    BY <1>1 DEF ScanTypeOK
  <2>8. \A S : Scan(S, pattern) = {x \in S : InRange(Type, pattern, x)}
    BY DEF Scan, Type
  <2>9. Emitted \subseteq Scan(snapshot, pattern)
    BY <2>1, <2>2, <2>3, <2>4, <2>8
  <2>10. CASE scan = "done"
    BY <1>1, <2>1, <2>3, <2>6, <2>8, <2>9, <2>10
  <2>11. CASE scan # "done"
    BY <1>1, <2>1, <2>3, <2>5, <2>7, <2>8, <2>9, <2>11
  <2> QED
    BY <2>9, <2>10, <2>11
<1> QED
  BY <1>2, <1>3 DEF ScanIsRange

-----------------------------------------------------------------------------
(* The client and the server together *)

LEMMA InitInvariant == Init => ClientInvariant
<1> SUFFICES ASSUME Init PROVE ClientInvariant
  OBVIOUS
<1>1. ScanInvariant
  BY InitScan DEF Init
<1>2. DeleteInvariant
  BY InitDelete
<1> QED
  BY <1>1, <1>2, InitType, InitCalls, InitSelect, InitImport DEF ClientInvariant

LEMMA NextInvariant ==
    ASSUME SetFacts, ClientInvariant, [Next]_vars
    PROVE  ClientInvariant'
<1>0. /\ ClientTypeOK /\ CallsAgree /\ ScanInvariant /\ SelectInvariant
      /\ DeleteInvariant /\ ImportInvariant
  BY DEF ClientInvariant
<1>1. ClientTypeOK' /\ CallsAgree'
  <2>1. CASE Client
    BY <1>0, <2>1, ClientType, ClientCalls
  <2>2. ASSUME NEW n \in 1 .. MaxCalls, Handler(n) PROVE ClientTypeOK' /\ CallsAgree'
    BY <1>0, <2>2, HandlerType, HandlerCalls
  <2>3. CASE BreakCalls \/ BreakSelect \/ Crash \/ GetStatements \/ Idle
    BY <1>0, <2>3, FaultType, FaultCalls
  <2>4. CASE UNCHANGED vars
    <3>1. UNCHANGED <<scanVars, serverVars, userVars, selectVars, at, calls, out, faults>>
      BY <2>4 DEF vars
    <3>2. ClientTypeOK'
      BY <1>0, <3>1 DEF ClientTypeOK, serverVars, userVars, selectVars, Command
    <3>3. CallsAgree'
      BY <1>0, <3>1 DEF CallsAgree, ImportCalls, NsCall, StmtCall, serverVars
    <3> QED
      BY <3>2, <3>3
  <2> QED
    BY <2>1, <2>2, <2>3, <2>4 DEF Next
<1>2. ScanInvariant'
  BY <1>0, ScanSteps, NextScan
<1>3. SelectInvariant'
  BY <1>0, <1>2, SelectStep
<1>4. DeleteInvariant'
  BY <1>0, DeleteStep
<1>5. ImportInvariant'
  BY <1>0, ImportStep
<1> QED
  BY <1>1, <1>2, <1>3, <1>4, <1>5 DEF ClientInvariant

\* A stream that has been read to its end: the call has stored what the document
\* says about its keys.
LEMMA StreamStored ==
    ASSUME ClientTypeOK, ImportInvariant, QuietCommand("import"), at # "parse",
           NEW n \in {NsCall, StmtCall}, calls[n].work = "done", calls[n].up
    PROVE  /\ \A k \in KeysOf(n) : store[k] = Imported(k, Len(Items))
           /\ calls[n].count = Cardinality({i \in DOMAIN Items : Items[i].key \in KeysOf(n)})
<1>0. /\ Items \in Seq(Item) /\ Len(Items) \in Nat /\ line = Len(Items) /\ ServedCall(n)
  BY ImportFacts DEF ImportInvariant
<1>1. PICK i \in 0 .. line : Reached(n, i)
  BY <1>0 DEF ServedCall
<1>2. calls[n].sent = <<>> /\ KeysOf(n) \cap unknown = {}
  BY <1>0 DEF ServedCall
<1>3. /\ \A k \in KeysOf(n) \ unknown : store[k] = Imported(k, i)
      /\ calls[n].count = Cardinality(About(KeysOf(n), i))
      /\ Queued(calls[n].sent, KeysOf(n), i, line)
  BY <1>1 DEF Reached
<1>4. i \in Nat /\ i <= line /\ line \in Nat
  BY <1>0, SMTT(30)
<1>5. \A p \in (i + 1) .. line : Items[p].key \notin KeysOf(n)
  BY <1>2, <1>3, <1>4, QueueOver
<1>6. ASSUME NEW k \in KeysOf(n) PROVE store[k] = Imported(k, Len(Items))
  <2>1. \A p \in (i + 1) .. line : Items[p].key # k
    BY <1>5
  <2>2. Imported(k, line) = Imported(k, i)
    BY <1>4, <2>1, ChangeStays
  <2>3. k \in KeysOf(n) \ unknown
    BY <1>2
  <2> QED
    BY <1>0, <1>3, <2>2, <2>3
<1>7. About(KeysOf(n), i) = {j \in DOMAIN Items : Items[j].key \in KeysOf(n)}
  <2>1. DOMAIN Items = 1 .. line /\ \A j \in 1 .. line : j \in 1 .. i \/ j \in (i + 1) .. line
    BY <1>0, <1>4, SMTT(30)
  <2>2. \A j \in 1 .. i : j \in 1 .. line
    BY <1>4, SMTT(30)
  <2> QED
    BY <1>5, <2>1, <2>2 DEF About
<1> QED
  BY <1>3, <1>6, <1>7

\* An import that reports has stored what it reports.
LEMMA AddedIsTrue ==
    ASSUME ClientInvariant, ImportReport, out'.op = "added", quiet
    PROVE  /\ \A k \in Key : store[k] = Imported(k, Len(Items))
           /\ out'.stmt = Cardinality({i \in DOMAIN Items : Items[i].key \in Statement})
           /\ out'.ns = Cardinality({i \in DOMAIN Items : Items[i].key \in Prefix})
<1>0. ClientTypeOK /\ CallsAgree /\ ImportInvariant
  BY DEF ClientInvariant
<1>1. at = "finish" /\ QuietCommand("import")
  BY <1>0 DEF ImportReport, ClientTypeOK, QuietCommand
<1>2. /\ BothOk /\ out' = [op |-> "added", ns |-> calls[NsCall].count, stmt |-> calls[StmtCall].count]
  BY DEF ImportReport
<1>3. /\ NsCall \in DOMAIN calls /\ StmtCall \in DOMAIN calls
      /\ KeysOf(NsCall) = Prefix /\ KeysOf(StmtCall) = Statement
  BY <1>0, <1>1, ImportFacts
<1>4. \A n \in {NsCall, StmtCall} : calls[n].work = "done" /\ calls[n].up
  BY <1>0, <1>2, <1>3 DEF BothOk, CallsAgree
<1>5. ASSUME NEW n \in {NsCall, StmtCall}
      PROVE  /\ \A k \in KeysOf(n) : store[k] = Imported(k, Len(Items))
             /\ calls[n].count = Cardinality({i \in DOMAIN Items : Items[i].key \in KeysOf(n)})
  BY <1>0, <1>1, <1>4, StreamStored
<1>6. \A k \in Key : store[k] = Imported(k, Len(Items))
  BY <1>3, <1>5 DEF Key
<1>7. /\ out'.stmt = Cardinality({i \in DOMAIN Items : Items[i].key \in Statement})
      /\ out'.ns = Cardinality({i \in DOMAIN Items : Items[i].key \in Prefix})
  BY <1>2, <1>3, <1>5
<1> QED
  BY <1>6, <1>7

\* A stream stores a part of the document that has no gaps.
LEMMA StreamsHaveNoGaps ==
    ASSUME ClientInvariant
    PROVE  NoGaps
<1> SUFFICES ASSUME QuietCommand("import"), AllDone
             PROVE  \E i, j \in 0 .. Len(Items) : \A k \in Key \ unknown :
                       store[k] = Imported(k, IF k \in Statement THEN i ELSE j)
  BY DEF NoGaps, QuietCommand
<1>0. ClientTypeOK /\ ImportInvariant
  BY DEF ClientInvariant
<1>1. /\ NsCall \in DOMAIN calls /\ StmtCall \in DOMAIN calls /\ line \in Nat
      /\ KeysOf(NsCall) = Prefix /\ KeysOf(StmtCall) = Statement
      /\ line \in 0 .. Len(Items) /\ Len(Items) \in Nat
  BY <1>0, ImportFacts
<1>2. ASSUME NEW n \in {NsCall, StmtCall}
      PROVE  \E i \in 0 .. Len(Items) : \A k \in KeysOf(n) \ unknown : store[k] = Imported(k, i)
  <2>1. ServedCall(n) /\ calls[n].work = "done"
    BY <1>0, <1>1 DEF ImportInvariant, AllDone
  <2>2. PICK i \in 0 .. line : Reached(n, i)
    BY <2>1 DEF ServedCall
  <2>3. i \in 0 .. Len(Items)
    BY <1>1, SMTT(30)
  <2> QED
    BY <2>1, <2>2, <2>3 DEF Reached
<1>3. PICK i \in 0 .. Len(Items) : \A k \in Statement \ unknown : store[k] = Imported(k, i)
  BY <1>1, <1>2
<1>4. PICK j \in 0 .. Len(Items) : \A k \in Prefix \ unknown : store[k] = Imported(k, j)
  BY <1>1, <1>2
<1>5. \A k \in Key \ unknown : store[k] = Imported(k, IF k \in Statement THEN i ELSE j)
  BY <1>3, <1>4 DEF Key
<1> QED
  BY <1>5

\* A delete that reports has deleted what it reports.
LEMMA DeletedIsTrue ==
    ASSUME ClientInvariant, DeleteReport, out'.op = "deleted", quiet
    PROVE  LET gone == Scan(Statements(before), Command.pattern) IN
           /\ \A k \in Key : store[k] = IF k \in gone THEN Absent ELSE before[k]
           /\ out'.count = Cardinality(gone)
<1> DEFINE call == calls[Len(calls)]
<1>0. ClientTypeOK /\ CallsAgree /\ DeleteInvariant
  BY DEF ClientInvariant
<1>1. at = "wait" /\ call.status = "ok" /\ out' = [op |-> "deleted", count |-> call.count]
  BY DEF DeleteReport
<1>2. Len(calls) \in DOMAIN calls
  BY <1>0, <1>1, SMTT(30) DEF ClientTypeOK
<1>3. call.work = "done" /\ call.up
  BY <1>0, <1>1, <1>2 DEF CallsAgree
<1>4. store = Without /\ call.count = Cardinality(Gone)
  BY <1>0, <1>1, <1>3 DEF DeleteInvariant
<1> QED
  BY <1>1, <1>4 DEF Without, Gone

\* What select has printed is a part of what the server has read.
LEMMA PrintedIsScanned ==
    ASSUME ClientInvariant
    PROVE  SelectPrints
<1>0. SelectInvariant /\ ScanInvariant /\ ScanIsRange /\ ClientTypeOK
  BY RangeFollows DEF ClientInvariant
<1>1. printed = SubSeq(emitted, 1, Len(printed))
  BY <1>0 DEF SelectInvariant
<1>2. ASSUME at = "exit", out.op = "selected", link
      PROVE  LET all == {printed[i] : i \in DOMAIN printed} IN
             /\ all = Scan(snapshot, Command.pattern)
             /\ \A x \in snapshot : matches(x, Command.pattern) => x \in all
             /\ quiet => all = Scan(Statements(before), Command.pattern)
  <2> DEFINE all == {printed[i] : i \in DOMAIN printed}
  <2>1. /\ Command.op = "select" /\ pattern = Command.pattern
        /\ scan = "done" /\ Len(printed) = Len(emitted)
    BY <1>0, <1>2 DEF SelectInvariant
  <2>2. emitted \in Seq(Statement) /\ snapshot \in SUBSET Statement /\ pattern \in Pattern
    BY <1>0 DEF ScanInvariant, ScanTypeOK
  <2>3. printed = emitted
    BY <1>1, <2>1, <2>2, SMTT(30)
  <2>4. all = Emitted
    BY <2>3 DEF Emitted
  <2> HIDE DEF all
  <2>5. all = Scan(snapshot, Command.pattern)
    BY <1>0, <2>1, <2>4 DEF ScanIsRange
  <2>6. ASSUME NEW x \in snapshot, matches(x, Command.pattern) PROVE x \in all
    <3>1. InRange(TypeOf(pattern), pattern, x)
      BY <2>1, <2>2, <2>6, MatchesInRange
    <3> QED
      BY <2>1, <2>5, <3>1 DEF Scan
  <2>7. quiet => snapshot = Statements(before)
    BY <1>0, <1>2, <2>1 DEF SelectInvariant, QuietCommand
  <2>8. quiet => all = Scan(Statements(before), Command.pattern)
    BY <2>5, <2>7
  <2> QED
    BY <2>5, <2>6, <2>8 DEF all
<1> QED
  BY <1>1, <1>2 DEF SelectPrints

-----------------------------------------------------------------------------
(* The theorems *)

INSTANCE FiniteSetTheorems

\* The library proves the facts about sets that the lemmas above assume.
LEMMA Library == SetFacts
<1>1. ASSUME NEW T \in SUBSET Nat, T # {} PROVE \E m \in T : \A n \in T : m <= n
  <2> DEFINE R == {ss \in Nat \X Nat : ss[1] < ss[2]}
  <2>1. IsWellFoundedOn(R, Nat)
    BY NatLessThanWellFounded DEF OpToRel
  <2> HIDE DEF R
  <2>2. PICK m \in T : \A n \in T : ~(<<n, m>> \in R)
    BY <1>1, <2>1, WFMin
  <2>3. ASSUME NEW n \in T PROVE m <= n
    <3>1. m \in Nat /\ n \in Nat /\ ~(<<n, m>> \in R)
      BY <2>2
    <3>2. ~(n < m)
      BY <3>1 DEF R
    <3> QED
      BY <3>1, <3>2, SMTT(30)
  <2> QED
    BY <2>3
<1>2. IsFiniteSet({}) /\ Cardinality({}) = 0
  BY FS_EmptySet
<1>3. \A n \in Nat : IsFiniteSet(1 .. n)
  BY FS_Interval, SMTT(30)
<1>4. \A S : IsFiniteSet(S) => Cardinality(S) \in Nat
  BY FS_CardinalityType
<1>5. \A S : IsFiniteSet(S) => \A T \in SUBSET S : IsFiniteSet(T)
  BY FS_Subset
<1>6. ASSUME NEW S, NEW x, IsFiniteSet(S)
      PROVE  /\ IsFiniteSet(S \cup {x})
             /\ x \notin S => Cardinality(S \cup {x}) = Cardinality(S) + 1
  BY <1>6, FS_AddElement
<1>7. ASSUME NEW S, NEW T, IsFiniteSet(S), IsFiniteSet(T), S \cap T = {}
      PROVE  /\ IsFiniteSet(S \cup T)
             /\ Cardinality(S \cup T) = Cardinality(S) + Cardinality(T)
  <2>1. /\ IsFiniteSet(S \cup T)
        /\ Cardinality(S \cup T) = Cardinality(S) + Cardinality(T) - Cardinality(S \cap T)
    BY <1>7, FS_Union
  <2>2. Cardinality(S \cap T) = 0
    BY <1>2, <1>7
  <2>3. Cardinality(S) \in Nat /\ Cardinality(T) \in Nat
    BY <1>4, <1>7
  <2> QED
    BY <2>1, <2>2, <2>3, SMTT(30)
<1> QED
  BY <1>1, <1>2, <1>3, <1>4, <1>5, <1>6, <1>7 DEF SetFacts

\* GetStatements hands out the statements of its key range, in order, each once,
\* none left out: for every hash function, store, pattern and client.
THEOREM ScansAreRanges == ScanSpec => []ScanIsRange
  BY Library, InitScan, NextScan, RangeFollows, PTL DEF ScanSpec

\* The invariant holds whatever breaks, and however often the server dies.
THEOREM ClientInvariantHolds == Spec => []ClientInvariant
  BY Library, InitInvariant, NextInvariant, PTL DEF Spec

\* To the server's iterator the client is one of the clients of StatementScan:
\* each step of the two is a step of the scan or leaves it alone.
THEOREM ClientScans == Spec => ScanSpec
<1>1. Init => ScanInit
  BY DEF Init
<1>2. ClientInvariant => ClientTypeOK
  BY DEF ClientInvariant
<1> QED
  BY <1>1, <1>2, ScanSteps, ClientInvariantHolds, PTL DEF Spec, ScanSpec

\* "Added n namespaces and m statements" is the truth, for every document, and
\* whatever connections and servers do.
THEOREM ImportsAreReported == Spec => ImportReports
  BY AddedIsTrue, ClientInvariantHolds, PTL DEF ImportReports

\* However an import ends, its streams have no gaps.
THEOREM ImportsHaveNoGaps == Spec => []NoGaps
  BY StreamsHaveNoGaps, ClientInvariantHolds, PTL

\* "Deleted n statements." is the truth.
THEOREM DeletesAreReported == Spec => DeleteReports
  BY DeletedIsTrue, ClientInvariantHolds, PTL DEF DeleteReports

\* What select prints is what the server's scan hands out, up to some point, and
\* all of it if its stream was not broken.
THEOREM SelectsArePrinted == Spec => []SelectPrints
  BY PrintedIsScanned, ClientInvariantHolds, PTL
=============================================================================
