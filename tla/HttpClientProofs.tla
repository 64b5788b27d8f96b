-------------------------- MODULE HttpClientProofs --------------------------
(***************************************************************************)
(* Proofs about HttpClient, for any requests of any types, any workers and *)
(* any cookie files.  Three inductive invariants: Line, about the pool and *)
(* the requests it executes; Options, about what a transfer has set up;    *)
(* and Jars, about the cookies.                                            *)
(***************************************************************************)
EXTENDS HttpClient, Functions, TLAPS

(* Queues without repetitions.                                             *)

(* A longer queue.                                                         *)
LEMMA AppendRange ==
  ASSUME NEW S, NEW s \in Seq(S), NEW e \in S, IsInjective(s), e \notin Range(s)
  PROVE  /\ Append(s, e) \in Seq(S)
         /\ Range(Append(s, e)) = Range(s) \cup {e}
         /\ IsInjective(Append(s, e))
<1> DEFINE t == Append(s, e)
<1>1. /\ t \in Seq(S) /\ DOMAIN t = 1..(Len(s) + 1) /\ DOMAIN s = 1..Len(s)
      /\ Len(s) \in Nat /\ t[Len(s) + 1] = e /\ \A i \in 1..Len(s) : t[i] = s[i]
  OBVIOUS
<1> HIDE DEF t
<1>2. Range(t) = Range(s) \cup {e}
  BY <1>1, SMT DEF Range
<1>3. IsInjective(t)
  BY <1>1, SMT DEF IsInjective, Range
<1> QED
  BY <1>1, <1>2, <1>3 DEF t

(* The queue without its front.                                            *)
LEMMA TailRange ==
  ASSUME NEW S, NEW s \in Seq(S), s # <<>>, IsInjective(s)
  PROVE  /\ Head(s) \in Range(s) /\ Head(s) \in S
         /\ Tail(s) \in Seq(S)
         /\ Range(Tail(s)) = Range(s) \ {Head(s)}
         /\ IsInjective(Tail(s))
<1> DEFINE t == Tail(s)
<1>1. /\ Len(s) \in Nat \ {0} /\ DOMAIN s = 1..Len(s) /\ Head(s) = s[1]
      /\ t \in Seq(S) /\ DOMAIN t = 1..(Len(s) - 1)
      /\ \A i \in 1..(Len(s) - 1) : t[i] = s[i + 1]
      /\ \A i \in 1..Len(s) : s[i] \in S
  OBVIOUS
<1> HIDE DEF t
<1>2. \A i \in 1..(Len(s) - 1) : i + 1 \in 1..Len(s) /\ i + 1 # 1
  BY <1>1
<1>3. \A i \in 1..Len(s) : i # 1 => i - 1 \in 1..(Len(s) - 1) /\ t[i - 1] = s[i]
  <2> TAKE i \in 1..Len(s)
  <2> HAVE i # 1
  <2>1. i - 1 \in 1..(Len(s) - 1) /\ (i - 1) + 1 = i
    BY <1>1
  <2> QED
    BY <1>1, <2>1
<1>4. Range(t) = Range(s) \ {Head(s)}
  <2>1. Range(t) \subseteq Range(s) \ {Head(s)}
    BY <1>1, <1>2, SMT DEF Range, IsInjective
  <2>2. Range(s) \ {Head(s)} \subseteq Range(t)
    BY <1>1, <1>3, SMT DEF Range
  <2> QED
    BY <2>1, <2>2
<1>5. IsInjective(t)
  <2> SUFFICES ASSUME NEW a \in DOMAIN t, NEW b \in DOMAIN t, t[a] = t[b] PROVE a = b
    BY DEF IsInjective
  <2>1. a + 1 = b + 1
    BY <1>1, <1>2 DEF IsInjective
  <2> QED
    BY <1>1, <2>1
<1>6. Head(s) \in Range(s)
  BY <1>1 DEF Range
<1> QED
  BY <1>1, <1>4, <1>5, <1>6 DEF t

-----------------------------------------------------------------------------
States == {"unsent", "queued", "begin", "named", "init", "performing", "answered", "closed",
           "called", "ended", "lost"}

(* The steps of a transfer but for the last, and but for its loss.         *)
GoesOn(r) ==
  \/ ReadCookieFilename(r) \/ ReadFreed(r) \/ InitDone(r)
  \/ \E upTo \in {"nothing", "url"}, name \in Names \cup {NoName} : InitFails(r, upTo, name)
  \/ Perform(r) \/ GivesUp(r) \/ \E code \in {200, 404} : Answer(r, code)
  \/ NoAnswer(r) \/ Close(r) \/ Callback(r)

-----------------------------------------------------------------------------
(* Who executes a request: one that waits is in the line once, one in its  *)
(* transfer on the pool has a worker, and none of these is lost.           *)
Line ==
  /\ client \in {"alive", "cleaned", "stopping", "gone"}
  /\ pc \in [Requests -> States] /\ how \in [Requests -> {"none", "pool", "own"}]
  /\ worker \in [Workers -> Requests \cup {"unborn", "head", "take", "exited"}]
  /\ queue \in Seq(Requests) /\ IsInjective(queue)
  /\ Range(queue) = {r \in Requests : pc[r] = "queued"}
  /\ \A r \in Requests : pc[r] = "queued" => how[r] = "pool"
  /\ \A r \in Requests : InTransfer(r) /\ how[r] = "pool" => \E w \in Workers : worker[w] = r
  /\ \A r \in Requests : pc[r] = "unsent" <=> how[r] = "none"
  /\ \A r \in Requests : pc[r] = "lost" => how[r] = "own"
  /\ client = "gone" => AllJoined

LEMMA LineInit == Init => Line
<1> SUFFICES ASSUME Init PROVE Line
  OBVIOUS
<1>1. queue = <<>> /\ queue \in Seq(Requests) /\ IsInjective(queue) /\ Range(queue) = {}
  BY DEF Init, IsInjective, Range
<1> QED
  BY <1>1 DEF Init, Line, States, InTransfer

LEMMA OwnerKeepsLine == ASSUME Line, Owner PROVE Line'
<1> USE HttpClientAssumption DEF Line, InTransfer, AllJoined
<1>1. ASSUME NEW S \in SUBSET Workers, InitThreadpool(S) PROVE Line'
  BY <1>1 DEF InitThreadpool
<1>2. ASSUME NEW n \in Names, EnableCookies(n) PROVE Line'
  BY <1>2 DEF EnableCookies, pool
<1>3. CASE Cleanup
  BY <1>3 DEF Cleanup, pool
<1>4. CASE StopPool
  BY <1>4 DEF StopPool, pool
<1>5. CASE JoinPool
  BY <1>5 DEF JoinPool, pool
<1> QED
  BY <1>1, <1>2, <1>3, <1>4, <1>5 DEF Owner

LEMMA SenderKeepsLine == ASSUME Line, NEW r \in Requests, Sends(r) PROVE Line'
<1> USE DEF Line, InTransfer, AllJoined, States
<1>1. CASE SendNow(r)
  BY <1>1 DEF SendNow, Goes, FirstStep, pool
<1>2. CASE Send(r)
  <2>1. /\ queue' = Append(queue, r) /\ queue' \in Seq(Requests) /\ IsInjective(queue')
        /\ Range(queue') = Range(queue) \cup {r}
    BY <1>2, AppendRange DEF Send
  <2> QED
    BY <1>2, <2>1 DEF Send, Goes
<1> QED
  BY <1>1, <1>2 DEF Sends

LEMMA WorkerKeepsLine == ASSUME Line, NEW w \in Workers, Works(w) PROVE Line'
<1> USE HttpClientAssumption DEF Line, InTransfer, AllJoined, States
<1>1. CASE CheckRunning(w)
  BY <1>1 DEF CheckRunning
<1>2. CASE TakeNothing(w)
  BY <1>2 DEF TakeNothing
<1>3. CASE Take(w)
  <2>1. /\ Head(queue) \in Range(queue) /\ queue' \in Seq(Requests) /\ IsInjective(queue')
        /\ Range(queue') = Range(queue) \ {Head(queue)}
    BY <1>3, TailRange DEF Take, Popped
  <2> DEFINE r == Head(queue)
  <2>2. r \in Requests /\ pc[r] = "queued" /\ how[r] = "pool"
    BY <2>1
  <2>3. /\ worker' = [worker EXCEPT ![w] = r] /\ worker[w] = "take"
        /\ pc' = [pc EXCEPT ![r] = FirstStep(r)] /\ UNCHANGED <<client, how>>
    BY <1>3 DEF Take, Goes
  <2>4. FirstStep(r) \in {"begin", "closed"}
    BY DEF FirstStep
  <2> HIDE DEF r
  <2> QED
    BY <2>1, <2>2, <2>3, <2>4 DEF r
<1> QED
  BY <1>1, <1>2, <1>3 DEF Works

LEMMA TransferKeepsLine == ASSUME Line, NEW r \in Requests, Transfers(r) PROVE Line'
<1> USE HttpClientAssumption DEF Line, InTransfer, AllJoined, States
<1>1. CASE End(r)
  BY <1>1 DEF End, Goes
<1>2. ASSUME UNCHANGED <<client, pool, how>>, InTransfer(r), InTransfer(r)',
             pc' = [pc EXCEPT ![r] = pc'[r]]
      PROVE  Line'
  BY <1>2 DEF pool
<1>3. CASE GoesOn(r)
  BY <1>2, <1>3
  DEF GoesOn, Goes, ReadCookieFilename, ReadFreed, InitDone, InitFails, Perform, GivesUp, Answer, NoAnswer,
      Close, Callback
<1>4. CASE Lost(r)
  <2>1. how[r] = "own"
    BY <1>4 DEF Lost
  <2> QED
    BY <1>4, <2>1 DEF Lost, Goes, pool
<1> QED
  BY <1>1, <1>3, <1>4 DEF Transfers, GoesOn

LEMMA LineStep == Line /\ [Next]_vars => Line'
<1> SUFFICES ASSUME Line, [Next]_vars PROVE Line'
  OBVIOUS
<1>1. CASE UNCHANGED vars
  BY <1>1 DEF Line, vars, pool, AllJoined, InTransfer
<1> QED
  BY <1>1, OwnerKeepsLine, SenderKeepsLine, WorkerKeepsLine, TransferKeepsLine DEF Next

(* When the destructor is done, no thread of the pool is left and no       *)
(* request that was given to the pool is in the middle of its transfer.    *)
(* Requests in threads of their own are not spoken of.                     *)
THEOREM PoolEndsWithClient == Spec => []PoolQuietWhenGone
<1>1. Line => PoolQuietWhenGone
  BY HttpClientAssumption DEF Line, PoolQuietWhenGone, AllJoined, States, InTransfer
<1> QED
  BY LineInit, LineStep, <1>1, PTL DEF Spec

(* What the owner, the senders and the workers leave alone, and the one    *)
(* thing they do to a request: they begin its transfer.                    *)
Begins ==
  /\ UNCHANGED <<file, handles, response, overlapped>>
  /\ \/ UNCHANGED pc
     \/ \E r \in Requests, there \in {"queued", "begin", "closed"} :
          pc[r] \in {"unsent", "queued"} /\ pc' = [pc EXCEPT ![r] = there]

LEMMA OthersBegin ==
  ASSUME Line, [Next]_vars, \A r \in Requests : ~Transfers(r)
  PROVE  Begins
<1> USE DEF Begins
<1>1. CASE Owner
  BY <1>1 DEF Owner, InitThreadpool, EnableCookies, Cleanup, StopPool, JoinPool
<1>2. ASSUME NEW r \in Requests, Sends(r) PROVE Begins
  BY <1>2 DEF Sends, Send, SendNow, Goes, FirstStep
<1>3. ASSUME NEW w \in Workers, Works(w) PROVE Begins
  <2>1. CASE Take(w)
    <3>1. Head(queue) \in Requests /\ pc[Head(queue)] = "queued"
      BY <2>1, TailRange DEF Line, Take
    <3>2. FirstStep(Head(queue)) \in {"begin", "closed"}
      BY DEF FirstStep
    <3> QED
      BY <2>1, <3>1, <3>2 DEF Take, Goes
  <2> QED
    BY <1>3, <2>1 DEF Works, CheckRunning, TakeNothing
<1> QED
  BY <1>1, <1>2, <1>3 DEF Next, vars

-----------------------------------------------------------------------------
(* A transfer that is performed has all its options, but for PUT.          *)
Options ==
  /\ pc \in [Requests -> States] /\ configured \in [Requests -> {"nothing", "url", "all"}]
  /\ response \in [Requests -> [succeed : BOOLEAN, code : {-1, 200, 404}, body : BOOLEAN]]
  /\ \A r \in Requests : pc[r] = "performing" /\ Kind[r] # "PUT" => configured[r] = "all"
  /\ SuccessIsComplete

LEMMA OptionsInit == Init => Options
BY DEF Init, Options, States, SuccessIsComplete

LEMMA OptionsStep == Line /\ Options /\ [Next]_vars => Options'
<1> SUFFICES ASSUME Line, Options, [Next]_vars PROVE Options'
  OBVIOUS
<1> USE DEF Options, States, SuccessIsComplete
<1>1. ASSUME NEW r \in Requests, Transfers(r) PROVE Options'
  <2>1. CASE \/ ReadCookieFilename(r) \/ ReadFreed(r) \/ Lost(r)
             \/ NoAnswer(r) \/ Callback(r) \/ GivesUp(r)
    BY <2>1 DEF ReadCookieFilename, ReadFreed, Lost, NoAnswer, Callback, GivesUp, Goes, handles
  <2>2. CASE InitDone(r)
    BY <2>2 DEF InitDone, Goes
  <2>7. CASE Close(r)
    <3>1. /\ configured' = [configured EXCEPT ![r] = "nothing"] /\ pc' = [pc EXCEPT ![r] = "closed"]
          /\ UNCHANGED response
      BY <2>7 DEF Close, Goes
    <3> QED
      BY <3>1
  <2>3. ASSUME NEW upTo \in {"nothing", "url"}, NEW name \in Names \cup {NoName},
               InitFails(r, upTo, name)
        PROVE  Options'
    BY <2>3 DEF InitFails, Goes
  <2>4. CASE Perform(r)
    BY <2>4 DEF Perform, Performs, Goes
  <2>5. ASSUME NEW code \in {200, 404}, Answer(r, code) PROVE Options'
    <3> DEFINE new == [succeed |-> code >= 200 /\ code < 300, code |-> code,
                       body |-> configured[r] = "all"]
    <3>1. new \in [succeed : BOOLEAN, code : {-1, 200, 404}, body : BOOLEAN]
      BY <2>5
    <3>2. new.succeed => new.code = 200 /\ (Kind[r] # "PUT" => new.body)
      <4>1. Kind[r] # "PUT" => configured[r] = "all"
        BY <2>5 DEF Answer
      <4>2. new.succeed = (code >= 200 /\ code < 300) /\ new.code = code
            /\ new.body = (configured[r] = "all")
        BY Zenon
      <4>3. (code >= 200 /\ code < 300) => code = 200
        BY <2>5
      <4> HIDE DEF new
      <4> QED
        BY <4>1, <4>2, <4>3, Zenon
    <3> HIDE DEF new
    <3>3. response' = [response EXCEPT ![r] = new] /\ pc' = [pc EXCEPT ![r] = "answered"]
          /\ UNCHANGED configured
      BY <2>5 DEF Answer, Goes, new
    <3> QED
      BY <3>1, <3>2, <3>3
  <2>6. CASE End(r)
    BY <2>6 DEF End, Goes, handles
  <2> QED
    BY <1>1, <2>1, <2>2, <2>3, <2>4, <2>5, <2>6, <2>7 DEF Transfers
<1>2. CASE Begins
  BY <1>2 DEF Begins, handles
<1> QED
  BY <1>1, <1>2, OthersBegin

(* A callback that hears of success hears of a complete answer.            *)
THEOREM NoHalfSuccess == Spec => []SuccessIsComplete
<1>1. Options => SuccessIsComplete
  BY DEF Options
<1> QED
  BY LineInit, LineStep, OptionsInit, OptionsStep, <1>1, PTL DEF Spec

-----------------------------------------------------------------------------
(* The cookies.  Two open handles on one file are both known to overlap;   *)
(* the cookie of an answer is in its handle until this is closed, and then *)
(* in the file and in every handle that has read the file.                 *)
Past == {"closed", "called", "ended"}

Kept(r) == r \notin overlapped /\ pc[r] \in Past /\ jar[r] # NoName /\ response[r].code # -1

Jars ==
  /\ pc \in [Requests -> States] /\ jar \in [Requests -> Names \cup {NoName}]
  /\ file \in [Names -> SUBSET Requests] /\ cookies \in [Requests -> SUBSET Requests]
  /\ response \in [Requests -> [succeed : BOOLEAN, code : {-1, 200, 404}, body : BOOLEAN]]
  /\ \A r \in Requests : response[r].code # -1 => pc[r] \in {"answered"} \cup Past
  /\ \A r \in Requests :
       pc[r] = "answered" /\ response[r].code # -1 /\ jar[r] # NoName => r \in cookies[r]
  /\ \A q, r \in Requests :
       Open(q) /\ Open(r) /\ q # r /\ jar[q] = jar[r] /\ jar[r] # NoName => r \in overlapped
  /\ \A r \in Requests : Kept(r) => r \in file[jar[r]]
  /\ \A r, q \in Requests : Kept(r) /\ Open(q) /\ jar[q] = jar[r] => r \in cookies[q]

LEMMA JarsInit == Init => Jars
BY DEF Init, Jars, States, Past, Open, Kept

(* The steps that touch neither a file, nor a jar, nor what a handle holds.*)
LEMMA QuietKeepsJars ==
  ASSUME Jars, UNCHANGED <<file, jar, cookies, response, overlapped>>,
         NEW r \in Requests, NEW there \in States, pc' = [pc EXCEPT ![r] = there],
         \/ pc[r] = "performing" /\ there = "answered"
         \/ pc[r] \in Past /\ there \in Past
         \/ pc[r] \notin Past \cup {"performing", "answered"}
            /\ there \notin {"performing", "answered"}
  PROVE  Jars'
BY DEF Jars, Open, Kept, Past, States

(* The name of the cookie file is read and may be forgotten again.         *)
LEMMA NamingKeepsJars ==
  ASSUME Jars, UNCHANGED <<file, cookies, response, overlapped>>,
         NEW r \in Requests, NEW there \in {"named", "init"}, pc' = [pc EXCEPT ![r] = there],
         NEW n \in Names \cup {NoName}, jar' = [jar EXCEPT ![r] = n],
         pc[r] \in {"begin", "named"}
  PROVE  Jars'
BY DEF Jars, Open, Kept, Past, States

(* A handle reads its file.                                                *)
LEMMA OpeningKeepsJars ==
  ASSUME Jars, UNCHANGED <<file, jar, response>>,
         NEW r \in Requests, pc[r] = "init",
         NEW there \in {"performing", "answered"}, pc' = [pc EXCEPT ![r] = there],
         cookies' = [cookies EXCEPT ![r] = FromFile(r)],
         overlapped' = overlapped \cup (IF Sharing(r) = {} THEN {} ELSE Sharing(r) \cup {r})
  PROVE  Jars'
<1> USE DEF Jars, Open, Past, States
<1>1. cookies' \in [Requests -> SUBSET Requests]
  BY DEF FromFile
<1>2. ASSUME NEW p \in Requests, NEW q \in Requests, Open(p)', Open(q)', p # q,
             jar[p] = jar[q], jar[q] # NoName
      PROVE  q \in overlapped'
  BY <1>2 DEF Sharing
<1>3. ASSUME NEW q \in Requests, Kept(q)' PROVE Kept(q) /\ q # r
  BY <1>3 DEF Kept
<1>4. ASSUME NEW q \in Requests, NEW p \in Requests, Kept(q)', Open(p)', jar[p] = jar[q]
      PROVE  q \in cookies'[p]
  <2>1. CASE p = r
    BY <1>3, <1>4, <2>1 DEF FromFile, Kept
  <2>2. CASE p # r
    BY <1>3, <1>4, <2>2
  <2> QED
    BY <2>1, <2>2
<1> QED
  BY <1>1, <1>2, <1>3, <1>4

LEMMA AnswerKeepsJars ==
  ASSUME Jars, NEW r \in Requests, NEW code \in {200, 404}, Answer(r, code)
  PROVE  Jars'
<1> USE DEF Jars, Open, Past, States
<1>1. /\ pc[r] = "performing" /\ pc' = [pc EXCEPT ![r] = "answered"]
      /\ cookies' = [cookies EXCEPT ![r] = IF jar[r] = NoName THEN @ ELSE @ \cup {r}]
      /\ UNCHANGED <<file, jar, overlapped>>
      /\ \A q \in Requests \ {r} : response'[q] = response[q]
  BY DEF Answer, Goes
<1>2. response' \in [Requests -> [succeed : BOOLEAN, code : {-1, 200, 404}, body : BOOLEAN]]
  <2> DEFINE new == [succeed |-> code >= 200 /\ code < 300, code |-> code,
                     body |-> configured[r] = "all"]
  <2>1. new \in [succeed : BOOLEAN, code : {-1, 200, 404}, body : BOOLEAN]
    OBVIOUS
  <2>2. response' = [response EXCEPT ![r] = new]
    BY DEF Answer
  <2> HIDE DEF new
  <2> QED
    BY <2>1, <2>2
<1>3. /\ cookies' \in [Requests -> SUBSET Requests]
      /\ \A q \in Requests : cookies[q] \subseteq cookies'[q]
      /\ jar[r] # NoName => r \in cookies'[r]
  BY <1>1
<1>4. ASSUME NEW q \in Requests, Kept(q)' PROVE Kept(q)
  BY <1>1, <1>4 DEF Kept
<1> QED
  BY <1>1, <1>2, <1>3, <1>4

(* A handle writes its file: its own cookie is there then, and those of    *)
(* the transfers that ended before it read the file still are.             *)
LEMMA CloseKeepsJars ==
  ASSUME Jars, NEW r \in Requests, Close(r)
  PROVE  Jars'
<1> USE DEF Jars, Open, Past, States
<1>1. /\ pc[r] = "answered" /\ pc' = [pc EXCEPT ![r] = "closed"]
      /\ cookies' = [cookies EXCEPT ![r] = {}] /\ file' = Closed(r)
      /\ UNCHANGED <<jar, response, overlapped>>
  BY DEF Close, Goes
<1>2. file' \in [Names -> SUBSET Requests]
  BY <1>1 DEF Closed
<1>3. ASSUME NEW q \in Requests, Kept(q)'
      PROVE  /\ q \in file'[jar[q]]
             /\ \A p \in Requests : Open(p)' /\ jar[p] = jar[q] => q \in cookies'[p]
  <2>1. CASE q = r
    <3>1. \A p \in Requests : Open(p) /\ p # r => jar[p] # jar[r]
      BY <1>1, <1>3, <2>1 DEF Kept
    <3> QED
      BY <1>1, <1>3, <2>1, <3>1 DEF Kept, Closed
  <2>2. CASE q # r
    <3>1. Kept(q)
      BY <1>1, <1>3, <2>2 DEF Kept
    <3> QED
      BY <1>1, <2>2, <3>1 DEF Kept, Closed
  <2> QED
    BY <2>1, <2>2
<1> QED
  BY <1>1, <1>2, <1>3

LEMMA JarsStep == Line /\ Jars /\ cookieFilename \in Names \cup {NoName} /\ [Next]_vars => Jars'
<1> SUFFICES ASSUME Line, Jars, cookieFilename \in Names \cup {NoName}, [Next]_vars
             PROVE  Jars'
  OBVIOUS
<1>1. ASSUME NEW r \in Requests, Transfers(r) PROVE Jars'
  <2>1. CASE ReadCookieFilename(r)
    BY <2>1, NamingKeepsJars DEF ReadCookieFilename, Goes
  <2>7. CASE ReadFreed(r)
    BY <2>7, NamingKeepsJars DEF ReadFreed, Goes
  <2>8. CASE Lost(r)
    BY <2>8, QuietKeepsJars DEF Lost, Goes, States, Past, handles
  <2>2. ASSUME NEW upTo \in {"nothing", "url"}, NEW name \in Names \cup {NoName},
               InitFails(r, upTo, name)
        PROVE  Jars'
    BY <2>2, NamingKeepsJars DEF InitFails, Goes
  <2>3. CASE Perform(r) \/ GivesUp(r)
    BY <2>3, OpeningKeepsJars DEF Perform, GivesUp, Goes
  <2>4. CASE InitDone(r)
    BY <2>4, QuietKeepsJars DEF InitDone, Goes, States, Past
  <2>5. CASE NoAnswer(r)
    BY <2>5, QuietKeepsJars DEF NoAnswer, Goes, States, Past, handles
  <2>6. CASE Callback(r) \/ End(r)
    BY <2>6, QuietKeepsJars DEF Callback, End, Goes, States, Past, handles
  <2> QED
    BY <1>1, <2>1, <2>2, <2>3, <2>4, <2>5, <2>6, <2>7, <2>8, AnswerKeepsJars, CloseKeepsJars
    DEF Transfers
<1>2. CASE Begins
  <2>1. CASE UNCHANGED pc
    BY <1>2, <2>1 DEF Begins, handles, Jars, Open, Kept
  <2>2. ASSUME NEW r \in Requests, NEW there \in {"queued", "begin", "closed"},
               pc[r] \in {"unsent", "queued"}, pc' = [pc EXCEPT ![r] = there]
        PROVE  Jars'
    <3>1. there \in States /\ there \notin {"performing", "answered"}
          /\ pc[r] \notin Past \cup {"performing", "answered"}
      BY <2>2 DEF States, Past
    <3> QED
      BY <1>2, <2>2, <3>1, QuietKeepsJars DEF Begins, handles
  <2> QED
    BY <1>2, <2>1, <2>2 DEF Begins
<1> QED
  BY <1>1, <1>2, OthersBegin

LEMMA NameStep ==
  cookieFilename \in Names \cup {NoName} /\ [Next]_vars
    => (cookieFilename \in Names \cup {NoName})'
BY DEF Next, vars, Owner, InitThreadpool, EnableCookies, Cleanup, StopPool, JoinPool, Sends,
       Send, SendNow, Works, CheckRunning, Take, TakeNothing, Transfers, ReadCookieFilename,
       ReadFreed, Lost, InitDone, InitFails, Perform, GivesUp, Answer, NoAnswer, Close, Callback, End

(* Only transfers that overlap lose cookies of each other.                 *)
THEOREM NoCookieLost == Spec => []CookiesKept
<1>1. Jars => CookiesKept
  BY DEF Jars, CookiesKept, Kept, Past
<1>2. Init => cookieFilename \in Names \cup {NoName}
  BY DEF Init
<1> QED
  BY LineInit, LineStep, JarsInit, JarsStep, NameStep, <1>1, <1>2, PTL DEF Spec

-----------------------------------------------------------------------------
(* A worker's request is inside its transfer, on the pool. *)
AtWork ==
  \A w \in Workers : worker[w] \in Requests => InTransfer(worker[w]) /\ how[worker[w]] = "pool"

LEMMA AtWorkStep == Line /\ AtWork /\ [Next]_vars => AtWork'
<1> SUFFICES ASSUME Line, AtWork, [Next]_vars PROVE AtWork'
  OBVIOUS
<1> USE HttpClientAssumption DEF AtWork
<1>1. CASE Owner \/ UNCHANGED vars
  BY <1>1 DEF Line, Owner, InitThreadpool, EnableCookies, Cleanup, StopPool, JoinPool, vars, pool,
     InTransfer
<1>2. ASSUME NEW r \in Requests, Sends(r) PROVE AtWork'
  <2>1. \A w \in Workers : worker[w] # r
    BY <1>2 DEF Sends, Send, SendNow, InTransfer
  <2> QED
    BY <1>2, <2>1 DEF Sends, Send, SendNow, Goes, Line, pool, InTransfer
<1>3. ASSUME NEW w \in Workers, Works(w) PROVE AtWork'
  <2>1. CASE Take(w)
    <3> DEFINE r == Head(queue)
    <3>1. r \in Requests /\ pc[r] = "queued" /\ how[r] = "pool"
      BY <2>1, TailRange DEF Line, Take
    <3>2. /\ worker' = [worker EXCEPT ![w] = r] /\ UNCHANGED how
          /\ pc' = [pc EXCEPT ![r] = FirstStep(r)]
      BY <2>1 DEF Take, Goes
    <3>3. FirstStep(r) \in {"begin", "closed"}
      BY DEF FirstStep
    <3> HIDE DEF r
    <3> QED
      BY <3>1, <3>2, <3>3 DEF Line, InTransfer
  <2>2. CASE CheckRunning(w) \/ TakeNothing(w)
    BY <2>2 DEF CheckRunning, TakeNothing, Line, InTransfer
  <2> QED
    BY <1>3, <2>1, <2>2 DEF Works
<1>4. ASSUME NEW r \in Requests, Transfers(r) PROVE AtWork'
  <2>1. CASE End(r)
    BY <2>1 DEF End, Goes, Line, InTransfer
  <2>2. CASE GoesOn(r)
    <3>1. /\ UNCHANGED <<worker, how>> /\ pc' = [pc EXCEPT ![r] = pc'[r]]
          /\ pc'[r] \in {"named", "init", "performing", "answered", "closed", "called"}
      BY <2>2 DEF GoesOn, Goes, ReadCookieFilename, ReadFreed, InitDone, InitFails, Perform, GivesUp, Answer,
         NoAnswer, Close, Callback, Line, pool, States
    <3> QED
      BY <3>1 DEF Line, InTransfer
  <2>3. CASE Lost(r)
    <3>1. \A w \in Workers : worker[w] # r
      BY <2>3 DEF Lost, Line, AllJoined
    <3> QED
      BY <2>3, <3>1 DEF Lost, Goes, Line, pool, InTransfer
  <2> QED
    BY <1>4, <2>1, <2>2, <2>3 DEF Transfers, GoesOn
<1> QED
  BY <1>1, <1>2, <1>3, <1>4 DEF Next

(* Every variable has its type, the pool's line holds what waits in it,    *)
(* once each, and no worker has a request that is not in its transfer.     *)
THEOREM LineInOrder == Spec => []TypeOK
<1>1. Line /\ Options /\ Jars /\ AtWork /\ cookieFilename \in Names \cup {NoName} => TypeOK
  <2> SUFFICES ASSUME Line, Options, Jars, AtWork, cookieFilename \in Names \cup {NoName}
               PROVE  TypeOK
    OBVIOUS
  <2>1. \A r \in Requests : pc[r] \in {"unsent", "queued", "ended", "lost"} \/ InTransfer(r)
    BY DEF Line, States, InTransfer
  <2> QED
    BY <2>1 DEF TypeOK, Line, Options, Jars, AtWork
<1>2. Init => AtWork /\ cookieFilename \in Names \cup {NoName}
  BY HttpClientAssumption DEF Init, AtWork
<1> QED
  BY LineInit, LineStep, OptionsInit, OptionsStep, JarsInit, JarsStep, NameStep, AtWorkStep,
     <1>1, <1>2, PTL DEF Spec
=============================================================================
