------------------------------ MODULE Handlers ------------------------------
(***************************************************************************)
(* The request handlers of macmini/photo-share-monitor.py (class H): what  *)
(* refuses a request, the calls its answer is made of, each of which may   *)
(* raise, the one lock around the database, which the ingestion takes too, *)
(* and the answer.  A thread serves one request at a time.                 *)
(***************************************************************************)
EXTENDS Naturals, Sequences

CONSTANTS
    Hands,      \* threads of the server
    NoHand,     \* nobody
    Asked,      \* the requests that arrive
    MaxMishaps  \* bound: calls that raise and clients that go away

ASSUME HandAssumption ==
    NoHand \notin Hands /\ "ingest" \notin Hands /\ NoHand # "ingest"

VARIABLES
    hand,     \* of each thread: [at, req, todo, failed, raised, code, gone]
    answered, \* of each thread: the codes sent for its request
    dblock,   \* _dblock: who holds it, "ingest" or NoHand
    mishaps

handVars == <<hand, answered, dblock, mishaps>>

NoRequest == [method |-> "none", path |-> "", host |-> FALSE, login |-> FALSE,
              header |-> FALSE, body |-> "none"]

Idle == [at |-> "idle", req |-> NoRequest, todo |-> <<>>, failed |-> FALSE, raised |-> FALSE,
         code |-> 0, gone |-> FALSE]

Mishap == mishaps < MaxMishaps /\ mishaps' = mishaps + 1

-----------------------------------------------------------------------------
(* What a request leads to.                                                *)

\* _read_json_body: 0 unless the length, the bytes or the JSON are refused;
\* "late": not all of it arrives within the timeout of the connection;
\* "nested": so deep that json.loads raises what only _dispatch catches.
BodyError(body) ==
    CASE body \in {"badLength", "late", "notObject"} -> 400
      [] body = "tooLarge" -> 413
      [] body = "nested" -> 500
      [] OTHER -> 0

\* The fields of _post; a missing or empty body is an empty object.
FieldError(req) ==
    CASE req.path = "open" /\ req.body \in {"none", "noAlbum", "badTtl"} -> 400
      [] req.path \notin {"open", "close"} -> 404
      [] OTHER -> 0

\* _conn: the lock is held around the queries.
Conn(queries) == <<"lock">> \o queries \o <<"unlock">>

\* Mutant: _telemetry reads its own meta inside of the snapshot.
SnapshotNested == Conn(<<"query", "query">> \o Conn(<<"query">>))
\* _console_snapshot: meta, rate limits and statistics from one connection.
Snapshot == Conn(<<"query", "query", "query">>)

\* _get
Needs(path) ==
    CASE path = "/devhub" -> Snapshot \o Conn(<<"query">>) \o <<"immich">>
      [] path = "/albums" -> <<"immich">>
      [] path = "/shares" -> <<"immich">> \o Snapshot
      [] path = "/stats" -> Conn(<<"query">>)
      [] path \in {"open", "close"} -> <<"cli">>
      [] OTHER -> <<>>

\* Refused by send_error, _access_ok, _post or for its path; 0: by nothing.
RefusedWith(req) ==
    CASE req.method = "malformed" -> 400
      [] ~req.host -> 403
      [] ~req.login -> 401
      [] req.method = "GET" ->
           IF req.path \in {"/", "/health", "/devhub", "/albums", "/shares", "/stats"} THEN 0 ELSE 404
      [] ~req.header -> 403
      [] BodyError(req.body) # 0 -> BodyError(req.body)
      [] OTHER -> FieldError(req)

AcceptRequest(h) ==
    /\ hand[h].at = "idle"
    /\ \E req \in Asked : hand' = [hand EXCEPT ![h] = [Idle EXCEPT !.at = "access", !.req = req]]
    /\ UNCHANGED <<answered, dblock, mishaps>>

CheckAccess(h) ==
    LET req == hand[h].req IN
    /\ hand[h].at = "access"
    /\ hand' = [hand EXCEPT ![h] =
         IF RefusedWith(req) # 0 THEN [@ EXCEPT !.at = "send", !.code = RefusedWith(req)]
                                 ELSE [@ EXCEPT !.at = "work", !.todo = Needs(req.path)]]
    /\ UNCHANGED <<answered, dblock, mishaps>>

-----------------------------------------------------------------------------
(* The calls.                                                              *)

AboutTo(h, call) == hand[h].at = "work" /\ hand[h].todo # <<>> /\ Head(hand[h].todo) = call

TakesLock(h) ==
    /\ AboutTo(h, "lock")
    /\ dblock = NoHand
    /\ dblock' = h
    /\ hand' = [hand EXCEPT ![h].todo = Tail(@)]
    /\ UNCHANGED <<answered, mishaps>>

FreesLock(h) ==
    /\ AboutTo(h, "unlock")
    /\ dblock' = NoHand
    /\ hand' = [hand EXCEPT ![h].todo = Tail(@)]
    /\ UNCHANGED <<answered, mishaps>>

CallReturns(h) ==
    /\ AboutTo(h, "query") \/ AboutTo(h, "immich")
    /\ hand' = [hand EXCEPT ![h].todo = Tail(@)]
    /\ UNCHANGED <<answered, dblock, mishaps>>

\* Immich's client dies, with SystemExit, or returns what cannot be read.
Exceptions(call) == IF call = "immich" THEN {"SystemExit", "Exception"} ELSE {"Exception"}

\* Mutant: SystemExit, which is no Exception, is not caught.
OnlyExceptions(s, call, exc) ==
    CASE s.req.path = "/devhub" -> [s EXCEPT !.at = "send", !.code = 200, !.failed = TRUE]
      [] s.req.path = "/shares" /\ call = "immich" -> [s EXCEPT !.todo = Tail(@), !.failed = TRUE]
      [] exc = "SystemExit" -> [s EXCEPT !.at = "over"]
      [] OTHER -> [s EXCEPT !.at = "send", !.code = 500]
\* What catches it: _get, for /devhub, whose answer says "error", and for the
\* list of /shares, or else _dispatch.
Handled(s, call, exc) ==
    CASE s.req.path = "/devhub" -> [s EXCEPT !.at = "send", !.code = 200, !.failed = TRUE]
      [] s.req.path = "/shares" /\ call = "immich" -> [s EXCEPT !.todo = Tail(@), !.failed = TRUE]
      [] OTHER -> [s EXCEPT !.at = "send", !.code = IF exc = "SystemExit" THEN 502 ELSE 500]

\* _conn gives its lock back.  The command line raises, before it runs, when
\* an argument cannot be encoded.
CallRaises(h) ==
    \E call \in {"query", "immich", "cli"} : \E exc \in Exceptions(call) :
        /\ AboutTo(h, call)
        /\ Mishap
        /\ hand' = [hand EXCEPT ![h] = [Handled(@, call, exc) EXCEPT !.raised = TRUE]]
        /\ dblock' = IF call = "query" THEN NoHand ELSE dblock
        /\ UNCHANGED answered

\* _run_cli: done; or an exit status, an output or a timeout that make it 502.
CliReturns(h) ==
    /\ AboutTo(h, "cli")
    /\ \/ /\ hand' = [hand EXCEPT ![h].todo = <<>>]
          /\ UNCHANGED mishaps
       \/ /\ Mishap
          /\ hand' = [hand EXCEPT ![h] = [@ EXCEPT !.at = "send", !.code = 502, !.raised = TRUE]]
    /\ UNCHANGED <<answered, dblock>>

\* Mutant: a list that failed is shown as an empty one.
AlwaysFine(s) == 200
Verdict(s) == IF s.failed THEN 502 ELSE 200

Answers(h) ==
    /\ hand[h].at = "work" /\ hand[h].todo = <<>>
    /\ hand' = [hand EXCEPT ![h] = [@ EXCEPT !.at = "send", !.code = Verdict(hand[h])]]
    /\ UNCHANGED <<answered, dblock, mishaps>>

Sends(h) ==
    /\ hand[h].at = "send"
    /\ hand' = [hand EXCEPT ![h].at = "over"]
    /\ answered' = [answered EXCEPT ![h] = Append(@, hand[h].code)]
    /\ UNCHANGED <<dblock, mishaps>>

\* The hub sends its answer inside of the try, whose second answer follows.
SendsAgain(s) == s.req.path = "/devhub" /\ s.code = 200 /\ ~s.failed

\* A broken pipe, a reset or a timeout of the connection: _dispatch is silent.
ClientGone(h) ==
    /\ hand[h].at = "send"
    /\ Mishap
    /\ hand' = [hand EXCEPT ![h] =
         IF SendsAgain(@) THEN [@ EXCEPT !.failed = TRUE, !.gone = TRUE]
                          ELSE [@ EXCEPT !.at = "over", !.gone = TRUE]]
    /\ UNCHANGED <<answered, dblock>>

ThreadEnds(h) ==
    /\ hand[h].at = "over"
    /\ hand' = [hand EXCEPT ![h] = Idle]
    /\ answered' = [answered EXCEPT ![h] = <<>>]
    /\ UNCHANGED <<dblock, mishaps>>

\* The ingestion takes the lock and gives it back.
IngestLock ==
    /\ \/ dblock = NoHand /\ dblock' = "ingest"
       \/ dblock = "ingest" /\ dblock' = NoHand
    /\ UNCHANGED <<hand, answered, mishaps>>

-----------------------------------------------------------------------------
HandInit ==
    /\ hand = [h \in Hands |-> Idle]
    /\ answered = [h \in Hands |-> <<>>]
    /\ dblock = NoHand
    /\ mishaps = 0

HandWork(h) ==
    \/ CheckAccess(h) \/ FreesLock(h) \/ CallReturns(h) \/ CallRaises(h) \/ CliReturns(h)
    \/ Answers(h) \/ Sends(h) \/ ClientGone(h) \/ ThreadEnds(h)

HandNext ==
    \/ IngestLock
    \/ \E h \in Hands : AcceptRequest(h) \/ TakesLock(h) \/ HandWork(h)

HandSpec == HandInit /\ [][HandNext]_handVars

-----------------------------------------------------------------------------
(* "Run a handler; never leak": whatever raises in it, a request whose     *)
(* client stays gets one answer, never none and never two.                 *)
AnsweredOnce ==
    \A h \in Hands :
        /\ Len(answered[h]) <= 1
        /\ hand[h].at = "over" /\ ~hand[h].gone => Len(answered[h]) = 1

(* An answer of 200 tells that nothing failed, or, for the hub, says so    *)
(* itself: the page never takes a list that failed for "No active shares". *)
FailuresTold ==
    \A h \in Hands : answered[h] = <<200>> =>
        ~hand[h].raised \/ (hand[h].req.path = "/devhub" /\ hand[h].failed)

(* Who holds the lock of the database is about to give it back, whatever   *)
(* its queries raise, and does not wait for it itself first: else every    *)
(* request that counts anything, and the ingestion, would wait for ever.   *)
LockComesBack ==
    \A h \in Hands : dblock = h =>
        /\ hand[h].at = "work"
        /\ \E i \in DOMAIN hand[h].todo :
             hand[h].todo[i] = "unlock" /\ \A j \in 1 .. i : hand[h].todo[j] # "lock"
=============================================================================
