----------------------------- MODULE HttpClient -----------------------------
(***************************************************************************)
(* HttpClient of http_client.{h,cpp}: requests that are sent through the   *)
(* thread pool, by the caller or by a detached thread, each a transfer     *)
(* with a libcurl handle of its own that ends with the request's callback. *)
(*                                                                         *)
(* The pool is taken for what NetThreadPool.tla shows of it: an unbounded  *)
(* line, workers that lose no wake-up, a stop() that joins them.  libcurl  *)
(* is external: an option may be refused, a transfer may fail or be        *)
(* answered, and a handle reads its cookie file when the transfer begins   *)
(* and writes its cookie jar when it is closed.                            *)
(*                                                                         *)
(* The destructor waits for the pool and for nobody else: a transfer in a  *)
(* thread of its own may go on after the client's members are gone.  What  *)
(* it reads of them then is undefined: any name, a crash or a mutex that   *)
(* is never given (ReadFreed, Lost).                                       *)
(*                                                                         *)
(* A request object is sent once; a cookie is named after the request      *)
(* whose answer set it.                                                    *)
(***************************************************************************)
EXTENDS Integers, Sequences, Functions, FiniteSets

CONSTANTS
  Requests,
  Kind,       \* the HttpRequest::Type of each request
  Workers,    \* the threads initThreadpool() may start
  Names,      \* the file names enableCookies() may be given
  NoName      \* the empty string

Kinds == {"GET", "POST", "PUT", "DELETE", "UNKNOWN"}

ASSUME HttpClientAssumption ==
  /\ Kind \in [Requests -> Kinds]
  /\ NoName \notin Names
  /\ IsFiniteSet(Workers) /\ Requests \cap {"unborn", "head", "take", "exited"} = {}

VARIABLES
  client,          \* "alive", "cleaned", "stopping" or "gone": how far ~HttpClient is
  cookieFilename,  \* cookieFilename_
  file,            \* the cookies in each file
  worker,          \* where each worker of the pool is, or its request
  queue,           \* the requests in the pool's line
  how,             \* who executes processResponse(): the "pool" or a thread of its "own"
  pc,              \* how far each request is
  jar,             \* the cookie file and jar of its handle
  cookies,         \* the cookies its handle holds
  configured,      \* how much Curl::init() has set: "nothing", "url" or "all"
  response,        \* succeed_, responseCode_ and whether the body was collected
  overlapped       \* history: the requests that shared a file with another transfer

handles == <<jar, cookies, configured>>
pool == <<worker, queue>>
vars == <<client, cookieFilename, file, pool, how, pc, handles, response, overlapped>>

(* The handle exists and has read its cookie file. *)
Open(r) == pc[r] \in {"performing", "answered"}

(* Inside processResponse(), up to the return of the callback. *)
InTransfer(r) == pc[r] \in {"begin", "named", "init", "performing", "answered", "closed", "called"}

(* The pool's line holds what waits in it, once each, and a worker's       *)
(* request is inside its transfer on the pool.                             *)
TypeOK ==
  /\ client \in {"alive", "cleaned", "stopping", "gone"}
  /\ cookieFilename \in Names \cup {NoName} /\ file \in [Names -> SUBSET Requests]
  /\ worker \in [Workers -> Requests \cup {"unborn", "head", "take", "exited"}]
  /\ queue \in Seq(Requests) /\ IsInjective(queue)
  /\ Range(queue) = {r \in Requests : pc[r] = "queued"}
  /\ \A w \in Workers : worker[w] \in Requests => InTransfer(worker[w]) /\ how[worker[w]] = "pool"
  /\ how \in [Requests -> {"none", "pool", "own"}]
  /\ jar \in [Requests -> Names \cup {NoName}] /\ cookies \in [Requests -> SUBSET Requests]
  /\ configured \in [Requests -> {"nothing", "url", "all"}]
  /\ response \in [Requests -> [succeed : BOOLEAN, code : {-1, 200, 404}, body : BOOLEAN]]
  /\ \A r \in Requests : pc[r] \in {"unsent", "queued", "ended", "lost"} \/ InTransfer(r)

Init ==
  /\ client = "alive" /\ cookieFilename = NoName /\ file = [n \in Names |-> {}]
  /\ worker = [w \in Workers |-> "unborn"] /\ queue = <<>>
  /\ how = [r \in Requests |-> "none"] /\ pc = [r \in Requests |-> "unsent"]
  /\ jar = [r \in Requests |-> NoName] /\ cookies = [r \in Requests |-> {}]
  /\ configured = [r \in Requests |-> "nothing"]
  /\ response = [r \in Requests |-> [succeed |-> FALSE, code |-> -1, body |-> FALSE]]
  /\ overlapped = {}

Goes(r, there) == pc' = [pc EXCEPT ![r] = there]

-----------------------------------------------------------------------------
(* The owner and the senders.                                              *)

InitThreadpool(S) ==
  /\ client = "alive" /\ S # {} /\ \A w \in S : worker[w] = "unborn"
  /\ worker' = [w \in Workers |-> IF w \in S THEN "head" ELSE worker[w]]
  /\ UNCHANGED <<client, cookieFilename, file, queue, how, pc, handles, response, overlapped>>

EnableCookies(n) ==
  /\ client = "alive"
  /\ cookieFilename' = n
  /\ UNCHANGED <<client, file, pool, how, pc, handles, response, overlapped>>

(* Mutant of FirstStep: nobody is told of a request without a type. *)
FirstStepSilent(r) == IF Kind[r] = "UNKNOWN" THEN "ended" ELSE "begin"

(* processResponse() has no transfer for a type it does not know. *)
FirstStep(r) == IF Kind[r] = "UNKNOWN" THEN "closed" ELSE "begin"

(* synSend() and sendImmediate(), in the caller's thread or a new one, and *)
(* send() in the caller's while the pool has no thread.                    *)
SendNow(r) ==
  /\ client = "alive" /\ pc[r] = "unsent"
  /\ how' = [how EXCEPT ![r] = "own"]
  /\ Goes(r, FirstStep(r))
  /\ UNCHANGED <<client, cookieFilename, file, pool, handles, response, overlapped>>

Send(r) ==
  /\ client = "alive" /\ pc[r] = "unsent" /\ \E w \in Workers : worker[w] # "unborn"
  /\ how' = [how EXCEPT ![r] = "pool"]
  /\ queue' = Append(queue, r)
  /\ Goes(r, "queued")
  /\ UNCHANGED <<client, cookieFilename, file, worker, handles, response, overlapped>>

(* ~HttpClient: the body.  It waits for nothing, neither for the pool nor  *)
(* for a thread that sendImmediate() has detached.                         *)
Cleanup ==
  /\ client = "alive"
  /\ client' = "cleaned"
  /\ UNCHANGED <<cookieFilename, file, pool, how, pc, handles, response, overlapped>>

(* ~ThreadPool of the member: running_ is cleared ... *)
StopPool ==
  /\ client = "cleaned"
  /\ client' = "stopping"
  /\ UNCHANGED <<cookieFilename, file, pool, how, pc, handles, response, overlapped>>

(* Mutant of AllJoined: the threads are left to themselves. *)
AllDetached == TRUE

AllJoined == \A w \in Workers : worker[w] \in {"unborn", "exited"}

(* ... and the threads are joined. *)
JoinPool ==
  /\ client = "stopping" /\ AllJoined
  /\ client' = "gone"
  /\ UNCHANGED <<cookieFilename, file, pool, how, pc, handles, response, overlapped>>

-----------------------------------------------------------------------------
(* A worker of the pool.                                                   *)

CheckRunning(w) ==
  /\ worker[w] = "head"
  /\ worker' = [worker EXCEPT ![w] = IF client = "stopping" THEN "exited" ELSE "take"]
  /\ UNCHANGED <<client, cookieFilename, file, queue, how, pc, handles, response, overlapped>>

Popped(line) == Tail(line)

Take(w) ==
  /\ worker[w] = "take" /\ queue # <<>>
  /\ worker' = [worker EXCEPT ![w] = Head(queue)]
  /\ queue' = Popped(queue)
  /\ Goes(Head(queue), FirstStep(Head(queue)))
  /\ UNCHANGED <<client, cookieFilename, file, how, handles, response, overlapped>>

TakeNothing(w) ==
  /\ worker[w] = "take" /\ queue = <<>> /\ client = "stopping"
  /\ worker' = [worker EXCEPT ![w] = "head"]
  /\ UNCHANGED <<client, cookieFilename, file, queue, how, pc, handles, response, overlapped>>

-----------------------------------------------------------------------------
(* The transfer of a request: doGet(), doPost(), doPut() and doDelete().   *)

(* Curl::init() reads the cookie file's name under its mutex. *)
ReadCookieFilename(r) ==
  /\ pc[r] = "begin" /\ client # "gone"
  /\ jar' = [jar EXCEPT ![r] = cookieFilename]
  /\ Goes(r, "named")
  /\ UNCHANGED <<client, cookieFilename, file, pool, how, cookies, configured, response, overlapped>>

(* The same on a client that is gone: whatever name the memory holds ...   *)
ReadFreed(r) ==
  /\ pc[r] = "begin" /\ client = "gone"
  /\ \E name \in Names \cup {NoName} : jar' = [jar EXCEPT ![r] = name]
  /\ Goes(r, "named")
  /\ UNCHANGED <<client, cookieFilename, file, pool, how, cookies, configured, response, overlapped>>

(* ... or a crash, or a mutex that is never given, there or at the CA      *)
(* file's name and mutex, which init() looks at next.                      *)
Lost(r) ==
  /\ pc[r] \in {"begin", "named"} /\ client = "gone"
  /\ Goes(r, "lost")
  /\ UNCHANGED <<client, cookieFilename, file, pool, how, handles, response, overlapped>>

(* An option is refused, or no handle was to be had (the name is unused    *)
(* then): the rest of the options is not set.                              *)
InitFails(r, upTo, name) ==
  /\ pc[r] = "named" /\ upTo \in {"nothing", "url"} /\ name \in {NoName, jar[r]}
  /\ upTo = "url" => name = jar[r]
  /\ jar' = [jar EXCEPT ![r] = name]
  /\ configured' = [configured EXCEPT ![r] = upTo]
  /\ Goes(r, "init")
  /\ UNCHANGED <<client, cookieFilename, file, pool, how, cookies, response, overlapped>>

InitDone(r) ==
  /\ pc[r] = "named"
  /\ configured' = [configured EXCEPT ![r] = "all"]
  /\ Goes(r, "init")
  /\ UNCHANGED <<client, cookieFilename, file, pool, how, jar, cookies, response, overlapped>>

(* Mutant of Performs: init() is not looked at, by nobody. *)
PerformsAnyway(r) == TRUE

(* doPut() performs whatever init() said. *)
Performs(r) == configured[r] = "all" \/ Kind[r] = "PUT"

(* Mutant of FromFile: init() names the jar and not the file. *)
NothingRead(r) == {}

(* What the handle holds once it has read the file; a jar named but not    *)
(* read is read before it is written.                                      *)
FromFile(r) == IF jar[r] = NoName THEN {} ELSE file[jar[r]]

Sharing(r) == {q \in Requests \ {r} : Open(q) /\ jar[q] = jar[r] /\ jar[r] # NoName}

Perform(r) ==
  /\ pc[r] = "init" /\ Performs(r)
  /\ cookies' = [cookies EXCEPT ![r] = FromFile(r)]
  /\ overlapped' = overlapped \cup (IF Sharing(r) = {} THEN {} ELSE Sharing(r) \cup {r})
  /\ Goes(r, "performing")
  /\ UNCHANGED <<client, cookieFilename, file, pool, how, jar, configured, response>>

(* One of the calls before curl_easy_perform() failed, in init() or in     *)
(* setOption() after it.                                                   *)
GivesUp(r) ==
  /\ pc[r] = "init" /\ Kind[r] # "PUT"
  /\ cookies' = [cookies EXCEPT ![r] = FromFile(r)]
  /\ overlapped' = overlapped \cup (IF Sharing(r) = {} THEN {} ELSE Sharing(r) \cup {r})
  /\ Goes(r, "answered")
  /\ UNCHANGED <<client, cookieFilename, file, pool, how, jar, configured, response>>

(* The server's answer, with a cookie.  A handle without a URL has none,   *)
(* and one without the last options leaves the body to stdout.             *)
Answer(r, code) ==
  /\ pc[r] = "performing" /\ configured[r] # "nothing"
  /\ cookies' = [cookies EXCEPT ![r] = IF jar[r] = NoName THEN @ ELSE @ \cup {r}]
  /\ response' = [response EXCEPT ![r] =
                    [succeed |-> code >= 200 /\ code < 300, code |-> code,
                     body |-> configured[r] = "all"]]
  /\ Goes(r, "answered")
  /\ UNCHANGED <<client, cookieFilename, file, pool, how, jar, configured, overlapped>>

(* curl_easy_perform() fails: no connection, or a timeout. *)
NoAnswer(r) ==
  /\ pc[r] = "performing"
  /\ Goes(r, "answered")
  /\ UNCHANGED <<client, cookieFilename, file, pool, how, handles, response, overlapped>>

(* ~Curl: the handle writes its jar and is gone. *)
Closed(r) == IF jar[r] = NoName THEN file ELSE [file EXCEPT ![jar[r]] = cookies[r]]

Close(r) ==
  /\ pc[r] = "answered"
  /\ file' = Closed(r)
  /\ cookies' = [cookies EXCEPT ![r] = {}]
  /\ configured' = [configured EXCEPT ![r] = "nothing"]
  /\ Goes(r, "closed")
  /\ UNCHANGED <<client, cookieFilename, pool, how, jar, response, overlapped>>

Callback(r) ==
  /\ pc[r] = "closed"
  /\ Goes(r, "called")
  /\ UNCHANGED <<client, cookieFilename, file, pool, how, handles, response, overlapped>>

(* The callback returns and processResponse() with it. *)
End(r) ==
  /\ pc[r] = "called"
  /\ worker' = [w \in Workers |-> IF worker[w] = r THEN "head" ELSE worker[w]]
  /\ Goes(r, "ended")
  /\ UNCHANGED <<client, cookieFilename, file, queue, how, handles, response, overlapped>>

-----------------------------------------------------------------------------
Owner ==
  \/ \E S \in SUBSET Workers : InitThreadpool(S)
  \/ \E n \in Names : EnableCookies(n)
  \/ Cleanup \/ StopPool \/ JoinPool

Sends(r) == Send(r) \/ SendNow(r)

Works(w) == CheckRunning(w) \/ Take(w) \/ TakeNothing(w)

Transfers(r) ==
  \/ ReadCookieFilename(r) \/ ReadFreed(r) \/ Lost(r) \/ InitDone(r)
  \/ \E upTo \in {"nothing", "url"}, name \in Names \cup {NoName} : InitFails(r, upTo, name)
  \/ Perform(r) \/ GivesUp(r) \/ \E code \in {200, 404} : Answer(r, code)
  \/ NoAnswer(r) \/ Close(r) \/ Callback(r) \/ End(r)

Next ==
  \/ Owner
  \/ \E r \in Requests : Sends(r) \/ Transfers(r)
  \/ \E w \in Workers : Works(w)

Spec ==
  /\ Init /\ [][Next]_vars
  /\ \A r \in Requests : WF_vars(Transfers(r))
  /\ \A w \in Workers : WF_vars(Works(w))

-----------------------------------------------------------------------------
(* Properties.                                                             *)

(* Every request that was sent is answered by its callback, of whatever    *)
(* type it is and whatever libcurl does, but for two that the client's     *)
(* destruction overtakes: one that still waits in the pool's line, and one *)
(* in a thread of its own when the members are gone (a crash, which ends   *)
(* the whole program, finds no others).  A transfer on the pool, begun     *)
(* before the destructor or during it, is answered.                        *)
SentIsAnswered ==
  \A r \in Requests :
    (pc[r] = "queued" \/ InTransfer(r)) ~>
      \/ pc[r] = "called"
      \/ pc[r] = "queued" /\ client # "alive"
      \/ how[r] = "own" /\ client = "gone"

(* Of the requests that send() gave to the pool none is worked on when the *)
(* client is gone, whatever its threads were in the middle of when the     *)
(* destructor was called: each has ended or waits in a line that nobody    *)
(* will look at again.  A transfer in a thread of its own, as that of      *)
(* sendImmediate(), is not among them: it may well outlive the client.     *)
PoolQuietWhenGone ==
  client = "gone" =>
    /\ \A r \in Requests : how[r] = "pool" => pc[r] \in {"queued", "ended"}
    /\ \A w \in Workers : worker[w] \in {"unborn", "exited"}

(* A callback that hears of success has a 2xx code and, for all types but  *)
(* PUT, the body: an option that was refused does not pass unnoticed.      *)
SuccessIsComplete ==
  \A r \in Requests : response[r].succeed =>
    response[r].code = 200 /\ (Kind[r] # "PUT" => response[r].body)

(* The cookie of an answer is in the file before the callback runs and     *)
(* stays there, unless another transfer had the file open at the time:     *)
(* only overlapping transfers overwrite each other's cookies.              *)
CookiesKept ==
  \A r \in Requests \ overlapped :
    (pc[r] \in {"closed", "called", "ended"} /\ jar[r] # NoName /\ response[r].code # -1) =>
      r \in file[jar[r]]
=============================================================================
