------------------------- MODULE SyncProgressNotifier -------------------------
(***************************************************************************)
(* _impl::SyncProgressNotifier (sync_session.cpp 892-983): the progress    *)
(* notifiers of a session.  Application threads register and unregister    *)
(* them and announce local commits; the event loop thread of the sync      *)
(* client passes on the client's progress.                                 *)
(*                                                                         *)
(* What happens under m_mutex is one action.  The notifiers are called     *)
(* after the mutex is released: outbox[t] holds the invocations thread t   *)
(* has prepared and not made yet.                                          *)
(*                                                                         *)
(* The sync client is external: it reads the commits one after another,    *)
(* uploads and downloads, and calls the progress handler when its numbers  *)
(* have changed.  A commit is worth one byte, or none (it changed nothing  *)
(* the server is told of).                                                 *)
(***************************************************************************)
EXTENDS Naturals, FiniteSets

CONSTANTS
    Threads,       \* application threads
    Loop,          \* the event loop thread of the sync client
    Notifiers,     \* registrations, each made at most once
    MaxVersion,    \* bound: local commits
    MaxDownload    \* bound: bytes the server has for us

ASSUME ThreadsAssumption == Loop \notin Threads
ASSUME BoundsAssumption == MaxVersion \in Nat /\ MaxDownload \in Nat

VARIABLES
    localVersion,  \* m_local_transaction_version
    current,       \* m_current_progress, or Unknown
    packages,      \* m_packages: the notifiers in it
    kind,          \* is_streaming and is_download of each notifier
    snapshot,      \* snapshot_version of each notifier
    captured,      \* captured_transferrable of each notifier, or None
    outbox,        \* invocations each thread has still to make
    \* the sync client (external)
    client,        \* its progress now
    reported,      \* the progress its handler was last called with
    \* the application
    version,       \* newest local commit
    announced,     \* newest version announced so far
    crossed,       \* the last announcement was of an older version than one before it
    announcing,    \* the commit each thread is about to announce, or 0
    used,          \* notifiers registered so far
    expected,      \* announced, when each notifier was registered
    overtaken,     \* notifiers registered while crossed
    removed,       \* notifiers unregistered by the application
    bytesUpTo,     \* what is to be uploaded for the commits up to each version
    last,          \* transferred and transferrable of each notifier's latest call
    finals         \* calls that told the notifier all is transferred; 2 for more

asked    == <<expected, overtaken>>
notifier == <<packages, kind, snapshot, captured, used, removed, asked>>
network  == <<client, reported, bytesUpTo>>
commits  == <<version, announcing, localVersion, announced, crossed>>
calls    == <<outbox, last, finals>>
vars == <<notifier, network, commits, calls, current>>

AllThreads == Threads \cup {Loop}
None == MaxVersion + MaxDownload + 1
Bytes == 0 .. MaxVersion + MaxDownload
Progress ==
    [downloaded : Bytes, downloadable : Bytes, uploaded : Bytes, uploadable : Bytes,
     downloadVersion : 0 .. 1, snapshot : 0 .. MaxVersion]
Nothing ==
    [downloaded |-> 0, downloadable |-> 0, uploaded |-> 0, uploadable |-> 0,
     downloadVersion |-> 0, snapshot |-> 0]
Known == current.downloadVersion = 1   \* m_current_progress is not none

Invocations == [to : Notifiers, transferred : Bytes, transferrable : Bytes]

TypeOK ==
    /\ localVersion \in 0 .. MaxVersion
    /\ current \in Progress
    /\ packages \subseteq Notifiers
    /\ kind \in [Notifiers -> [streaming : BOOLEAN, download : BOOLEAN]]
    /\ snapshot \in [Notifiers -> 0 .. MaxVersion]
    /\ captured \in [Notifiers -> Bytes \cup {None}]
    /\ outbox \in [AllThreads -> SUBSET Invocations]
    /\ client \in Progress
    /\ reported \in Progress
    /\ version \in 0 .. MaxVersion
    /\ announcing \in [Threads -> 0 .. MaxVersion]
    /\ announced \in 0 .. MaxVersion
    /\ crossed \in BOOLEAN
    /\ expected \in [Notifiers -> 0 .. MaxVersion]
    /\ overtaken \subseteq Notifiers
    /\ used \subseteq Notifiers
    /\ removed \subseteq Notifiers
    /\ bytesUpTo \in [0 .. MaxVersion -> Bytes]
    /\ last \in [Notifiers -> [transferred : Bytes, transferrable : Bytes \cup {None}]]
    /\ finals \in [Notifiers -> 0 .. 2]

Init ==
    /\ localVersion = 0
    /\ current = Nothing
    /\ packages = {}
    /\ kind \in [Notifiers -> [streaming : BOOLEAN, download : BOOLEAN]]
    /\ snapshot = [n \in Notifiers |-> 0]
    /\ captured = [n \in Notifiers |-> None]
    /\ outbox = [t \in AllThreads |-> {}]
    /\ client = Nothing
    /\ reported = Nothing
    /\ version = 0
    /\ announcing = [t \in Threads |-> 0]
    /\ announced = 0
    /\ crossed = FALSE
    /\ expected = [n \in Notifiers |-> 0]
    /\ overtaken = {}
    /\ used = {}
    /\ removed = {}
    /\ bytesUpTo = [v \in 0 .. MaxVersion |-> 0]
    /\ last = [n \in Notifiers |-> [transferred |-> 0, transferrable |-> None]]
    /\ finals = [n \in Notifiers |-> 0]

-----------------------------------------------------------------------------
\* create_invocation, for notifier n, a snapshot version and the progress p

Offered(n, p)     == IF kind[n].download THEN p.downloadable ELSE p.uploadable
Transferred(n, p) == IF kind[n].download THEN p.downloaded ELSE p.uploaded

\* The client has not processed the commits the notifier is about: its uploadable
\* is too small, so the notifier is neither called nor given a target.
TooEarly_Never(n, since, p) == FALSE
TooEarly_AlsoEqual(n, since, p) ==
    ~kind[n].streaming /\ ~kind[n].download /\ captured[n] = None /\ since >= p.snapshot
TooEarly(n, since, p) ==
    ~kind[n].streaming /\ ~kind[n].download /\ captured[n] = None /\ since > p.snapshot

Transferrable(n, p) ==
    IF kind[n].streaming \/ captured[n] = None THEN Offered(n, p) ELSE captured[n]

Expired(n, since, p) ==
    /\ ~kind[n].streaming /\ ~TooEarly(n, since, p)
    /\ Transferred(n, p) >= Transferrable(n, p)

CapturedBy(n, since, p) ==
    IF kind[n].streaming \/ TooEarly(n, since, p) THEN captured[n] ELSE Transferrable(n, p)

InvocationOf(n, since, p) ==
    IF TooEarly(n, since, p) THEN {}
    ELSE {[to |-> n, transferred |-> Transferred(n, p), transferrable |-> Transferrable(n, p)]}

-----------------------------------------------------------------------------
Free(t) == outbox[t] = {} /\ announcing[t] = 0   \* thread t is outside the session

Asks(n) ==
    /\ expected' = [expected EXCEPT ![n] = announced]
    /\ overtaken' = IF crossed THEN overtaken \cup {n} ELSE overtaken

\* register_callback: before there is progress the notifier is only stored
RegisterUnknown(t, n) ==
    /\ Free(t) /\ n \notin used /\ ~Known
    /\ used' = used \cup {n}
    /\ packages' = packages \cup {n}
    /\ snapshot' = [snapshot EXCEPT ![n] = localVersion]
    /\ Asks(n)
    /\ UNCHANGED <<kind, captured, removed, network, commits, calls, current>>

\* ... later it is also called, and not stored when it is already expired
RegisterKnown(t, n) ==
    /\ Free(t) /\ n \notin used /\ Known
    /\ used' = used \cup {n}
    /\ packages' = IF Expired(n, localVersion, current) THEN packages ELSE packages \cup {n}
    /\ snapshot' = [snapshot EXCEPT ![n] = localVersion]
    /\ Asks(n)
    /\ captured' = [captured EXCEPT ![n] = CapturedBy(n, localVersion, current)]
    /\ outbox' = [outbox EXCEPT ![t] = InvocationOf(n, localVersion, current)]
    /\ UNCHANGED <<kind, removed, network, commits, last, finals, current>>

\* unregister_callback; of an unknown token it does nothing
Unregister(n) ==
    /\ n \in packages
    /\ packages' = packages \ {n}
    /\ removed' = removed \cup {n}
    /\ UNCHANGED <<kind, snapshot, captured, used, asked, network, commits, calls, current>>

\* update, before the first DOWNLOAD message: ignored
UpdateIgnored ==
    /\ outbox[Loop] = {} /\ client # reported /\ client.downloadVersion = 0
    /\ reported' = client
    /\ UNCHANGED <<notifier, client, bytesUpTo, commits, calls, current>>

\* What update leaves in m_packages: the packages that have not expired.
Unexpired_All(p) == packages
Unexpired(p) == {n \in packages : ~Expired(n, snapshot[n], p)}

\* update: prepare an invocation of every package, and drop the expired ones
Update ==
    /\ outbox[Loop] = {} /\ client # reported /\ client.downloadVersion # 0
    /\ reported' = client
    /\ current' = client
    /\ captured' = [n \in Notifiers |->
                      IF n \in packages THEN CapturedBy(n, snapshot[n], client) ELSE captured[n]]
    /\ outbox' = [outbox EXCEPT ![Loop] =
                      UNION {InvocationOf(n, snapshot[n], client) : n \in packages}]
    /\ packages' = Unexpired(client)
    /\ UNCHANGED <<kind, snapshot, used, removed, asked, client, bytesUpTo, commits, last,
                   finals>>

\* one of the prepared invocations is made, after the mutex is released
Invoke(t) ==
    \E i \in outbox[t] :
        /\ outbox' = [outbox EXCEPT ![t] = @ \ {i}]
        /\ last' = [last EXCEPT ![i.to] =
                      [transferred |-> i.transferred, transferrable |-> i.transferrable]]
        /\ finals' = [finals EXCEPT ![i.to] =
                        IF i.transferred < i.transferrable THEN @
                        ELSE IF @ = 0 THEN 1 ELSE 2]
        /\ UNCHANGED <<notifier, network, commits, current>>

\* A write transaction.  After it, outside of the write lock, commit_write announces
\* the version that is the latest by then: nothing orders the calls of two threads,
\* and that of the older version may come last.
Commit(t) ==
    /\ Free(t) /\ version < MaxVersion
    /\ version' = version + 1
    /\ announcing' = [announcing EXCEPT ![t] = version + 1]
    /\ UNCHANGED <<notifier, network, localVersion, announced, crossed, calls, current>>

SetLocalVersion(t) ==
    /\ announcing[t] # 0
    /\ \E v \in announcing[t] .. version :
         /\ localVersion' = v
         /\ announced' = IF v > announced THEN v ELSE announced
         /\ crossed' = (v < announced)
    /\ announcing' = [announcing EXCEPT ![t] = 0]
    /\ UNCHANGED <<notifier, network, version, calls, current>>

-----------------------------------------------------------------------------
\* The sync client: it processes the next commit, the server acknowledges or offers
\* a byte, a byte arrives, and so does the first DOWNLOAD message.
ProcessCommit(bytes) ==
    /\ client.snapshot < version
    /\ client' = [client EXCEPT !.snapshot = @ + 1, !.uploadable = @ + bytes]
    /\ bytesUpTo' = [v \in 0 .. MaxVersion |->
                       IF v > client.snapshot THEN client.uploadable + bytes ELSE bytesUpTo[v]]
    /\ UNCHANGED <<notifier, reported, commits, calls, current>>

Upload ==
    /\ client.uploaded < client.uploadable
    /\ client' = [client EXCEPT !.uploaded = @ + 1]
    /\ UNCHANGED <<notifier, reported, bytesUpTo, commits, calls, current>>

Offer ==
    /\ client.downloadable < MaxDownload
    /\ client' = [client EXCEPT !.downloadable = @ + 1]
    /\ UNCHANGED <<notifier, reported, bytesUpTo, commits, calls, current>>

Download ==
    /\ client.downloaded < client.downloadable
    /\ client' = [client EXCEPT !.downloaded = @ + 1]
    /\ UNCHANGED <<notifier, reported, bytesUpTo, commits, calls, current>>

FirstDownload ==
    /\ client.downloadVersion = 0
    /\ client' = [client EXCEPT !.downloadVersion = 1]
    /\ UNCHANGED <<notifier, reported, bytesUpTo, commits, calls, current>>

Application ==
    \/ \E t \in Threads, n \in Notifiers : RegisterUnknown(t, n) \/ RegisterKnown(t, n)
    \/ \E n \in Notifiers : Unregister(n)
    \/ \E t \in Threads : Commit(t) \/ SetLocalVersion(t)

Client ==
    \/ \E bytes \in 0 .. 1 : ProcessCommit(bytes)
    \/ Upload \/ Offer \/ Download \/ FirstDownload

Next ==
    \/ Application
    \/ Client
    \/ UpdateIgnored
    \/ Update
    \/ \E t \in AllThreads : Invoke(t)

Spec == Init /\ [][Next]_vars

\* Threads that are inside a call go on; the client's event loop runs, and the
\* client gets on with what there is to transfer.  Nobody has to commit, register,
\* or write at the server.
Fairness ==
    /\ \A t \in Threads : WF_vars(SetLocalVersion(t))
    /\ \A t \in AllThreads : WF_vars(Invoke(t))
    /\ WF_vars(UpdateIgnored) /\ WF_vars(Update)
    /\ WF_vars(\E bytes \in 0 .. 1 : ProcessCommit(bytes))
    /\ WF_vars(Upload) /\ WF_vars(Download) /\ WF_vars(FirstDownload)

FairSpec == Spec /\ Fairness

-----------------------------------------------------------------------------
CurrentWork(n) == ~kind[n].streaming

\* The client has uploaded what there was to upload for the commits up to version v.
Uploaded(v) == client.snapshot >= v /\ client.uploaded >= bytesUpTo[v]

\* A notifier for outstanding uploads that has been told that all is transferred was
\* told so after the commits up to the one it took for the last were uploaded, even if
\* the client had not looked at that commit when the notifier was registered.  These
\* are all commits announced before its registration, unless it was registered when
\* the announcements had crossed: the announcements of two threads are not ordered
\* (realm_coordinator.cpp 416-424), and m_local_transaction_version, "the last
\* locally-created transaction that we're expecting to be uploaded"
\* (sync_session.hpp:97), goes back when that of the older commit comes last.
UploadsCovered ==
    \A n \in used : CurrentWork(n) /\ ~kind[n].download /\ finals[n] > 0 =>
        /\ Uploaded(snapshot[n])
        /\ n \notin overtaken => Uploaded(expected[n])

\* Why it holds.  The client's numbers are ordered, and those it last reported are a
\* past of those it has now.
ClientInOrder ==
    /\ client.uploaded <= client.uploadable
    /\ client.uploadable <= client.snapshot
    /\ client.snapshot <= version
    /\ client.downloaded <= client.downloadable
    /\ client.downloadable <= MaxDownload

ProgressGrows ==
    /\ current.uploaded <= client.uploaded
    /\ current.snapshot <= client.snapshot
    /\ \A v \in 0 .. client.snapshot : bytesUpTo[v] <= client.uploadable
    /\ \A v \in 0 .. current.snapshot : bytesUpTo[v] <= current.uploadable

\* The target of a notifier for outstanding uploads covers its commits; a prepared
\* call names that target, and what it says is uploaded is; a call that said all is
\* transferred was right.  Nothing is known of notifiers that are not registered.
UploadTargets ==
    \A n \in Notifiers : CurrentWork(n) /\ ~kind[n].download =>
        /\ captured[n] # None =>
             snapshot[n] <= client.snapshot /\ bytesUpTo[snapshot[n]] <= captured[n]
        /\ \A t \in AllThreads : \A i \in outbox[t] : i.to = n =>
             captured[n] = i.transferrable /\ i.transferred <= client.uploaded
        /\ finals[n] > 0 =>
             snapshot[n] <= client.snapshot /\ bytesUpTo[snapshot[n]] <= client.uploaded

UnusedUntouched ==
    \A n \in Notifiers \ used :
        /\ captured[n] = None /\ finals[n] = 0 /\ n \notin packages
        /\ \A t \in AllThreads : \A i \in outbox[t] : i.to # n

\* Unless announcements crossed, the target is the newest version announced.
TargetIsNewest ==
    /\ ~crossed => localVersion = announced
    /\ \A n \in used \ overtaken : snapshot[n] = expected[n]

UploadInv == ProgressGrows /\ UploadTargets /\ UnusedUntouched

FinalsPending(n) ==
    {t \in AllThreads : \E i \in outbox[t] : i.to = n /\ i.transferred >= i.transferrable}

\* A notifier for outstanding work disappears by itself only together with one last
\* call that says all is transferred, and there is never a second such call.
CompletionReportedOnce ==
    \A n \in used : CurrentWork(n) =>
        /\ finals[n] + Cardinality(FinalsPending(n)) <= 1
        /\ n \notin packages \cup removed => finals[n] + Cardinality(FinalsPending(n)) = 1

\* "the number of downloaded or uploaded bytes will always be reported relative to
\* the number of downloadable or uploadable bytes" it began with (sync_session.hpp
\* 158-161): the total a notifier for outstanding work is given never changes, also
\* when the calls of the registering thread and of the event loop cross.
TotalKept ==
    [][\A n \in Notifiers : CurrentWork(n) /\ last[n].transferrable # None =>
          last'[n].transferrable = last[n].transferrable]_vars

\* Every notifier for outstanding work is done some time: no registration falls into
\* a gap between two calls of the progress handler.
OutstandingWorkEnds ==
    \A n \in Notifiers : (n \in used /\ CurrentWork(n)) ~> (n \notin packages)

-----------------------------------------------------------------------------
=============================================================================
