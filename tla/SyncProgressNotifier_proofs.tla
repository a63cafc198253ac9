---------------------- MODULE SyncProgressNotifier_proofs ----------------------
(***************************************************************************)
(* Proofs about SyncProgressNotifier, for any number of threads, notifiers,*)
(* commits and bytes.                                                      *)
(***************************************************************************)
EXTENDS SyncProgressNotifier, FiniteSetTheorems, TLAPS

USE BoundsAssumption, ThreadsAssumption

\* What create_invocation makes of well-typed numbers is well typed.
LEMMA InvocationTypes ==
    ASSUME TypeOK, NEW n \in Notifiers, NEW since \in 0 .. MaxVersion, NEW p \in Progress
    PROVE  /\ InvocationOf(n, since, p) \in SUBSET Invocations
           /\ CapturedBy(n, since, p) \in Bytes \cup {None}
           /\ Offered(n, p) \in Bytes /\ Transferred(n, p) \in Bytes
<1>1. Offered(n, p) \in Bytes /\ Transferred(n, p) \in Bytes
  BY DEF Progress, Offered, Transferred
<1>2. captured[n] \in Bytes \cup {None} /\ Transferrable(n, p) \in Bytes
  BY <1>1 DEF TypeOK, Transferrable
<1> QED
  BY <1>1, <1>2 DEF InvocationOf, CapturedBy, Invocations

\* The client's numbers are naturals, in order, and inside the bounds.
LEMMA ClientNumbers ==
    ASSUME TypeOK, ClientInOrder
    PROVE  /\ client \in Progress /\ version \in 0 .. MaxVersion
           /\ client.downloaded \in Nat /\ client.downloadable \in Nat
           /\ client.uploaded \in Nat /\ client.uploadable \in Nat /\ client.snapshot \in Nat
           /\ client.uploaded <= client.uploadable
           /\ client.uploadable <= client.snapshot
           /\ client.snapshot <= version
           /\ client.downloaded <= client.downloadable
           /\ client.downloadable <= MaxDownload
BY DEF TypeOK, ClientInOrder, Progress, Bytes

\* Type correctness, which rests on the order of the client's numbers.
THEOREM ProgressTypeCorrect == Spec => [](TypeOK /\ ClientInOrder)
<1>1. Init => TypeOK /\ ClientInOrder
  <2> SUFFICES ASSUME Init PROVE TypeOK /\ ClientInOrder
    OBVIOUS
  <2>1. Nothing \in Progress
    BY DEF Nothing, Progress, Bytes
  <2>2. ClientInOrder
    BY DEF Init, ClientInOrder, Nothing
  <2>3. outbox \in [AllThreads -> SUBSET Invocations] /\ used \subseteq Notifiers
    BY DEF Init
  <2>4. last \in [Notifiers -> [transferred : Bytes, transferrable : Bytes \cup {None}]]
    BY DEF Init, Bytes
  <2>5. /\ kind \in [Notifiers -> [streaming : BOOLEAN, download : BOOLEAN]]
        /\ captured \in [Notifiers -> Bytes \cup {None}]
    BY DEF Init
  <2>6. /\ localVersion \in 0 .. MaxVersion /\ announced \in 0 .. MaxVersion
        /\ snapshot \in [Notifiers -> 0 .. MaxVersion]
        /\ expected \in [Notifiers -> 0 .. MaxVersion]
        /\ announcing \in [Threads -> 0 .. MaxVersion]
    BY DEF Init
  <2>7. crossed \in BOOLEAN /\ overtaken \subseteq Notifiers
    BY DEF Init
  <2>8. bytesUpTo \in [0 .. MaxVersion -> Bytes] /\ finals \in [Notifiers -> 0 .. 2]
    BY DEF Init, Bytes
  <2> QED
    BY <2>1, <2>2, <2>3, <2>4, <2>5, <2>6, <2>7, <2>8 DEF Init, TypeOK
<1>2. TypeOK /\ ClientInOrder /\ [Next]_vars => TypeOK' /\ ClientInOrder'
  <2> SUFFICES ASSUME TypeOK, ClientInOrder, [Next]_vars PROVE TypeOK' /\ ClientInOrder'
    OBVIOUS
  <2> USE DEF notifier, asked, network, commits, calls
  <2>1. ASSUME NEW t \in Threads, NEW n \in Notifiers, RegisterUnknown(t, n) PROVE TypeOK' /\ ClientInOrder'
    BY <2>1, ClientNumbers DEF RegisterUnknown, Asks, TypeOK, ClientInOrder, Free
  <2>2. ASSUME NEW t \in Threads, NEW n \in Notifiers, RegisterKnown(t, n) PROVE TypeOK' /\ ClientInOrder'
    <3> DEFINE inv == InvocationOf(n, localVersion, current)
               cap == CapturedBy(n, localVersion, current)
    <3>1. inv \in SUBSET Invocations /\ cap \in Bytes \cup {None}
      BY InvocationTypes DEF TypeOK
    <3>2. outbox' = [outbox EXCEPT ![t] = inv] /\ captured' = [captured EXCEPT ![n] = cap]
      BY <2>2 DEF RegisterKnown
    <3>3. packages' \subseteq Notifiers
      BY <2>2 DEF RegisterKnown, TypeOK
    <3> HIDE DEF inv, cap
    <3>4. outbox' \in [AllThreads -> SUBSET Invocations]
      BY <3>1, <3>2 DEF TypeOK
    <3>5. captured' \in [Notifiers -> Bytes \cup {None}]
      BY <3>1, <3>2 DEF TypeOK
    <3>6. /\ used' \subseteq Notifiers /\ snapshot' \in [Notifiers -> 0 .. MaxVersion]
          /\ expected' \in [Notifiers -> 0 .. MaxVersion] /\ overtaken' \subseteq Notifiers
          /\ UNCHANGED <<kind, removed, network, commits, last, finals, current>>
      BY <2>2 DEF RegisterKnown, Asks, TypeOK
    <3> QED
      BY <3>3, <3>4, <3>5, <3>6 DEF TypeOK, ClientInOrder
  <2>3. ASSUME NEW n \in Notifiers, Unregister(n) PROVE TypeOK' /\ ClientInOrder'
    BY <2>3, ClientNumbers DEF Unregister, TypeOK, ClientInOrder, Free
  <2>4. ASSUME UpdateIgnored PROVE TypeOK' /\ ClientInOrder'
    BY <2>4, ClientNumbers DEF UpdateIgnored, TypeOK, ClientInOrder, Free
  <2>5. ASSUME Update PROVE TypeOK' /\ ClientInOrder'
    <3>1. client \in Progress
      BY DEF TypeOK
    <3>2. captured' \in [Notifiers -> Bytes \cup {None}]
      <4>1. \A n \in Notifiers : CapturedBy(n, snapshot[n], client) \in Bytes \cup {None}
        BY <3>1, InvocationTypes DEF TypeOK
      <4> QED
        BY <2>5, <4>1 DEF Update, TypeOK
    <3>3. outbox' \in [AllThreads -> SUBSET Invocations]
      <4> DEFINE invs == UNION {InvocationOf(n, snapshot[n], client) : n \in packages}
      <4>1. \A n \in packages : InvocationOf(n, snapshot[n], client) \in SUBSET Invocations
        BY <3>1, InvocationTypes DEF TypeOK
      <4>2. invs \in SUBSET Invocations
        BY <4>1
      <4>3. outbox' = [outbox EXCEPT ![Loop] = invs]
        BY <2>5 DEF Update
      <4> HIDE DEF invs
      <4> QED
        BY <4>2, <4>3 DEF TypeOK
    <3>4. packages' \subseteq Notifiers
      BY <2>5 DEF Update, Unexpired, TypeOK
    <3>5. /\ current' = client /\ reported' = client
          /\ UNCHANGED <<kind, snapshot, used, removed, asked, client, bytesUpTo, commits, last, finals>>
      BY <2>5 DEF Update
    <3> QED
      BY <3>1, <3>2, <3>3, <3>4, <3>5 DEF TypeOK, ClientInOrder
  <2>6. ASSUME NEW t \in AllThreads, Invoke(t) PROVE TypeOK' /\ ClientInOrder'
    <3> PICK i \in outbox[t] :
            /\ outbox' = [outbox EXCEPT ![t] = @ \ {i}]
            /\ last' = [last EXCEPT ![i.to] =
                          [transferred |-> i.transferred, transferrable |-> i.transferrable]]
            /\ finals' = [finals EXCEPT ![i.to] =
                            IF i.transferred < i.transferrable THEN @
                            ELSE IF @ = 0 THEN 1 ELSE 2]
            /\ UNCHANGED <<notifier, network, commits, current>>
      BY <2>6 DEF Invoke
    <3>1. i \in Invocations
      BY DEF TypeOK
    <3>2. last' \in [Notifiers -> [transferred : Bytes, transferrable : Bytes \cup {None}]]
      BY <3>1 DEF TypeOK, Invocations
    <3>3. finals' \in [Notifiers -> 0 .. 2]
      BY <3>1 DEF TypeOK, Invocations
    <3>4. outbox' \in [AllThreads -> SUBSET Invocations]
      BY DEF TypeOK
    <3> QED
      BY <3>2, <3>3, <3>4 DEF TypeOK, ClientInOrder
  <2>7. ASSUME NEW t \in Threads, Commit(t) PROVE TypeOK' /\ ClientInOrder'
    BY <2>7, ClientNumbers DEF Commit, TypeOK, ClientInOrder, Free
  <2>8. ASSUME NEW t \in Threads, SetLocalVersion(t) PROVE TypeOK' /\ ClientInOrder'
    BY <2>8, ClientNumbers DEF SetLocalVersion, TypeOK, ClientInOrder, Free
  <2>9. ASSUME NEW bytes \in 0 .. 1, ProcessCommit(bytes) PROVE TypeOK' /\ ClientInOrder'
    <3>1. /\ client.snapshot + 1 \in 0 .. MaxVersion
          /\ client.snapshot + 1 <= version
          /\ client.uploadable + bytes \in Bytes
          /\ client.uploadable + bytes <= client.snapshot + 1
          /\ client.uploaded <= client.uploadable + bytes
      BY SMTT(30), <2>9, ClientNumbers DEF ProcessCommit, Bytes
    <3>2. client' = [client EXCEPT !.snapshot = @ + 1, !.uploadable = @ + bytes]
      BY <2>9 DEF ProcessCommit
    <3>3. client' \in Progress
      BY <3>1, <3>2, ClientNumbers DEF Progress
    <3>4. version' = version
      BY <2>9 DEF ProcessCommit
    <3>5. ClientInOrder'
      BY <3>1, <3>2, <3>4, ClientNumbers DEF Progress, ClientInOrder
    <3>6. bytesUpTo' \in [0 .. MaxVersion -> Bytes]
      BY <2>9, <3>1 DEF ProcessCommit, TypeOK
    <3> QED
      BY <2>9, <3>3, <3>5, <3>6 DEF ProcessCommit, TypeOK
  <2>10. ASSUME Upload PROVE TypeOK' /\ ClientInOrder'
    <3>1. /\ client.uploaded + 1 \in Bytes
          /\ client.uploaded + 1 <= client.uploadable
      BY <2>10, ClientNumbers DEF Upload, Bytes
    <3>2. client' = [client EXCEPT !.uploaded = @ + 1]
      BY <2>10 DEF Upload
    <3>3. client' \in Progress
      BY <3>1, <3>2, ClientNumbers DEF Progress
    <3>4. version' = version
      BY <2>10 DEF Upload
    <3>5. ClientInOrder'
      BY <3>1, <3>2, <3>4, ClientNumbers DEF Progress, ClientInOrder
    <3>6. bytesUpTo' = bytesUpTo
      BY <2>10 DEF Upload
    <3> QED
      BY <2>10, <3>3, <3>5, <3>6 DEF Upload, TypeOK
  <2>11. ASSUME Offer PROVE TypeOK' /\ ClientInOrder'
    <3>1. /\ client.downloadable + 1 \in Bytes
          /\ client.downloadable + 1 <= MaxDownload
          /\ client.downloaded <= client.downloadable + 1
      BY <2>11, ClientNumbers DEF Offer, Bytes
    <3>2. client' = [client EXCEPT !.downloadable = @ + 1]
      BY <2>11 DEF Offer
    <3>3. client' \in Progress
      BY <3>1, <3>2, ClientNumbers DEF Progress
    <3>4. version' = version
      BY <2>11 DEF Offer
    <3>5. ClientInOrder'
      BY <3>1, <3>2, <3>4, ClientNumbers DEF Progress, ClientInOrder
    <3>6. bytesUpTo' = bytesUpTo
      BY <2>11 DEF Offer
    <3> QED
      BY <2>11, <3>3, <3>5, <3>6 DEF Offer, TypeOK
  <2>12. ASSUME Download PROVE TypeOK' /\ ClientInOrder'
    <3>1. /\ client.downloaded + 1 \in Bytes
          /\ client.downloaded + 1 <= client.downloadable
      BY <2>12, ClientNumbers DEF Download, Bytes
    <3>2. client' = [client EXCEPT !.downloaded = @ + 1]
      BY <2>12 DEF Download
    <3>3. client' \in Progress
      BY <3>1, <3>2, ClientNumbers DEF Progress
    <3>4. version' = version
      BY <2>12 DEF Download
    <3>5. ClientInOrder'
      BY <3>1, <3>2, <3>4, ClientNumbers DEF Progress, ClientInOrder
    <3>6. bytesUpTo' = bytesUpTo
      BY <2>12 DEF Download
    <3> QED
      BY <2>12, <3>3, <3>5, <3>6 DEF Download, TypeOK
  <2>13. ASSUME FirstDownload PROVE TypeOK' /\ ClientInOrder'
    <3>1. /\ 1 \in 0 .. 1
      BY <2>13, ClientNumbers DEF FirstDownload, Bytes
    <3>2. client' = [client EXCEPT !.downloadVersion = 1]
      BY <2>13 DEF FirstDownload
    <3>3. client' \in Progress
      BY <3>1, <3>2, ClientNumbers DEF Progress
    <3>4. version' = version
      BY <2>13 DEF FirstDownload
    <3>5. ClientInOrder'
      BY <3>1, <3>2, <3>4, ClientNumbers DEF Progress, ClientInOrder
    <3>6. bytesUpTo' = bytesUpTo
      BY <2>13 DEF FirstDownload
    <3> QED
      BY <2>13, <3>3, <3>5, <3>6 DEF FirstDownload, TypeOK
  <2>14. CASE UNCHANGED vars
    BY <2>14 DEF vars, TypeOK, ClientInOrder
  <2> QED
    BY <2>1, <2>2, <2>3, <2>4, <2>5, <2>6, <2>7, <2>8, <2>9, <2>10, <2>11, <2>12, <2>13, <2>14 DEF Next, Application, Client
<1> QED
  BY <1>1, <1>2, PTL DEF Spec

-----------------------------------------------------------------------------
\* The steps that only let time pass: notifiers, prepared calls and what the session
\* knows stay, the client's numbers grow, and what is to be uploaded for the commits
\* the client has processed is settled.
LEMMA TimePasses ==
    ASSUME TypeOK, TypeOK', UploadInv,
           UNCHANGED <<kind, snapshot, captured, used, outbox, finals, current>>,
           packages' \subseteq packages,
           client.uploaded <= client'.uploaded,
           client.uploadable <= client'.uploadable,
           client.snapshot <= client'.snapshot,
           \A v \in 0 .. client.snapshot : bytesUpTo'[v] = bytesUpTo[v],
           \A v \in 0 .. client'.snapshot : bytesUpTo'[v] <= client'.uploadable
    PROVE  UploadInv'
<1>0. /\ client \in Progress /\ client' \in Progress /\ current \in Progress
      /\ bytesUpTo \in [0 .. MaxVersion -> Bytes] /\ bytesUpTo' \in [0 .. MaxVersion -> Bytes]
      /\ snapshot \in [Notifiers -> 0 .. MaxVersion]
      /\ captured \in [Notifiers -> Bytes \cup {None}]
  BY DEF TypeOK
<1>1. ProgressGrows'
  <2>1. /\ client.uploaded \in Nat /\ client.uploadable \in Nat /\ client.snapshot \in 0 .. MaxVersion
        /\ client'.uploaded \in Nat /\ client'.uploadable \in Nat
        /\ client'.snapshot \in 0 .. MaxVersion
        /\ current.uploaded \in Nat /\ current.uploadable \in Nat
        /\ current.snapshot \in 0 .. MaxVersion
    BY <1>0 DEF Progress, Bytes
  <2>2. /\ current.uploaded <= client.uploaded /\ current.snapshot <= client.snapshot
        /\ \A v \in 0 .. current.snapshot : bytesUpTo[v] <= current.uploadable
    BY DEF UploadInv, ProgressGrows
  <2>3. current.uploaded <= client'.uploaded /\ current.snapshot <= client'.snapshot
    BY <2>1, <2>2
  <2>4. \A v \in 0 .. current.snapshot : bytesUpTo'[v] <= current.uploadable
    BY <2>1, <2>2
  <2> QED
    BY <2>3, <2>4 DEF ProgressGrows
<1>2. UploadTargets'
  <2> SUFFICES ASSUME NEW n \in Notifiers, CurrentWork(n), ~kind[n].download
               PROVE  /\ captured[n] # None =>
                           /\ snapshot[n] <= client'.snapshot
                           /\ bytesUpTo'[snapshot[n]] <= captured[n]
                      /\ \A t \in AllThreads : \A i \in outbox[t] : i.to = n =>
                           captured[n] = i.transferrable /\ i.transferred <= client'.uploaded
                      /\ finals[n] > 0 =>
                           /\ snapshot[n] <= client'.snapshot
                           /\ bytesUpTo'[snapshot[n]] <= client'.uploaded
    BY DEF UploadTargets, CurrentWork
  <2>0. /\ client.uploaded \in Nat /\ client.snapshot \in 0 .. MaxVersion
        /\ client'.uploaded \in Nat /\ client'.snapshot \in 0 .. MaxVersion
        /\ snapshot[n] \in 0 .. MaxVersion /\ bytesUpTo[snapshot[n]] \in Nat
    <3>1. snapshot[n] \in 0 .. MaxVersion
      BY <1>0
    <3>2. bytesUpTo[snapshot[n]] \in Bytes
      BY <1>0, <3>1
    <3>3. client \in Progress /\ client' \in Progress
      BY <1>0
    <3>4. /\ client.uploaded \in Nat /\ client.snapshot \in 0 .. MaxVersion
          /\ client'.uploaded \in Nat /\ client'.snapshot \in 0 .. MaxVersion
      BY <3>3 DEF Progress, Bytes
    <3> QED
      BY <3>1, <3>2, <3>4 DEF Bytes
  <2>1. ASSUME captured[n] # None
        PROVE  snapshot[n] <= client'.snapshot /\ bytesUpTo'[snapshot[n]] <= captured[n]
    <3>1. snapshot[n] <= client.snapshot /\ bytesUpTo[snapshot[n]] <= captured[n]
      BY <2>1 DEF UploadInv, UploadTargets
    <3> QED
      BY <2>0, <3>1
  <2>2. ASSUME NEW t \in AllThreads, NEW i \in outbox[t], i.to = n
        PROVE  captured[n] = i.transferrable /\ i.transferred <= client'.uploaded
    <3>1. captured[n] = i.transferrable /\ i.transferred <= client.uploaded
      BY <2>2 DEF UploadInv, UploadTargets
    <3>2. i.transferred \in Nat
      BY DEF TypeOK, Invocations, Bytes
    <3> QED
      BY <2>0, <3>1, <3>2
  <2>3. ASSUME finals[n] > 0
        PROVE  snapshot[n] <= client'.snapshot /\ bytesUpTo'[snapshot[n]] <= client'.uploaded
    <3>1. snapshot[n] <= client.snapshot /\ bytesUpTo[snapshot[n]] <= client.uploaded
      BY <2>3 DEF UploadInv, UploadTargets
    <3>2. bytesUpTo'[snapshot[n]] = bytesUpTo[snapshot[n]]
      BY <2>0, <3>1
    <3> QED
      BY <2>0, <3>1, <3>2
  <2> QED
    BY <2>1, <2>2, <2>3
<1>3. UnusedUntouched'
  BY DEF UploadInv, UnusedUntouched
<1> QED
  BY <1>1, <1>2, <1>3 DEF UploadInv

\* Every step keeps the inductive invariant; types and the client's order are at hand.
LEMMA UploadInvInductive ==
    ASSUME TypeOK, ClientInOrder, TypeOK', UploadInv, [Next]_vars
    PROVE  UploadInv'
<1> USE DEF notifier, asked, network, commits, calls
<1>0. /\ \A v \in 0 .. client.snapshot : bytesUpTo[v] <= client.uploadable
      /\ \A v \in 0 .. current.snapshot : bytesUpTo[v] <= current.uploadable
      /\ current.uploaded <= client.uploaded /\ current.snapshot <= client.snapshot
  BY DEF UploadInv, ProgressGrows
<1>1. ASSUME NEW t \in Threads, NEW n \in Notifiers, RegisterUnknown(t, n) PROVE UploadInv'
  <2>1. ProgressGrows'
    BY <1>1 DEF RegisterUnknown, UploadInv, ProgressGrows
  <2>2. /\ captured[n] = None /\ finals[n] = 0
        /\ \A s \in AllThreads : \A i \in outbox[s] : i.to # n
    BY <1>1 DEF RegisterUnknown, UploadInv, UnusedUntouched
  <2>3. /\ UNCHANGED <<kind, captured, outbox, finals, client, bytesUpTo>>
        /\ \A m \in Notifiers \ {n} : snapshot'[m] = snapshot[m]
    BY <1>1 DEF RegisterUnknown, TypeOK
  <2>4. UploadTargets'
    <3> SUFFICES ASSUME NEW m \in Notifiers, CurrentWork(m), ~kind[m].download
                 PROVE  /\ captured[m] # None =>
                             /\ snapshot'[m] <= client.snapshot
                             /\ bytesUpTo[snapshot'[m]] <= captured[m]
                        /\ \A s \in AllThreads : \A i \in outbox[s] : i.to = m =>
                             captured[m] = i.transferrable /\ i.transferred <= client.uploaded
                        /\ finals[m] > 0 =>
                             /\ snapshot'[m] <= client.snapshot
                             /\ bytesUpTo[snapshot'[m]] <= client.uploaded
      BY <2>3 DEF UploadTargets, CurrentWork
    <3>1. CASE m = n
      BY <2>2, <3>1
    <3>2. CASE m # n
      BY <2>3, <3>2 DEF UploadInv, UploadTargets
    <3> QED
      BY <3>1, <3>2
  <2>5. UnusedUntouched'
    BY <1>1 DEF RegisterUnknown, UploadInv, UnusedUntouched
  <2> QED
    BY <2>1, <2>4, <2>5 DEF UploadInv
<1>2. ASSUME NEW t \in Threads, NEW n \in Notifiers, RegisterKnown(t, n) PROVE UploadInv'
  <2> DEFINE inv == InvocationOf(n, localVersion, current)
             cap == CapturedBy(n, localVersion, current)
  <2>1. ProgressGrows'
    BY <1>2 DEF RegisterKnown, UploadInv, ProgressGrows
  <2>2. /\ captured[n] = None /\ finals[n] = 0
        /\ \A s \in AllThreads : \A i \in outbox[s] : i.to # n
    BY <1>2 DEF RegisterKnown, UploadInv, UnusedUntouched
  <2>3. /\ UNCHANGED <<kind, finals, client, bytesUpTo>>
        /\ snapshot' = [snapshot EXCEPT ![n] = localVersion]
        /\ captured' = [captured EXCEPT ![n] = cap]
        /\ outbox' = [outbox EXCEPT ![t] = inv]
        /\ used' = used \cup {n} /\ packages' \subseteq packages \cup {n}
    BY <1>2 DEF RegisterKnown, TypeOK
  <2>4. \A i \in inv : i.to = n
    BY DEF InvocationOf
  <2>5. ASSUME CurrentWork(n), ~kind[n].download
        PROVE  /\ cap # None => localVersion <= client.snapshot /\ bytesUpTo[localVersion] <= cap
               /\ \A i \in inv : cap = i.transferrable /\ i.transferred <= client.uploaded
    <3>0. localVersion \in 0 .. MaxVersion /\ current.snapshot \in 0 .. MaxVersion
          /\ client.snapshot \in 0 .. MaxVersion
      BY DEF TypeOK, Progress
    <3>1. CASE TooEarly(n, localVersion, current)
      BY <2>2, <3>1 DEF InvocationOf, CapturedBy
    <3>2. CASE ~TooEarly(n, localVersion, current)
      <4>1. localVersion <= current.snapshot
        BY <2>2, <2>5, <3>0, <3>2 DEF TooEarly, CurrentWork
      <4>2. cap = current.uploadable
        BY <2>2, <2>5, <3>2 DEF CapturedBy, Transferrable, Offered, CurrentWork
      <4>3. \A i \in inv : i.transferrable = current.uploadable /\ i.transferred = current.uploaded
        BY <2>2, <2>5, <3>2 DEF InvocationOf, Transferrable, Transferred, Offered, CurrentWork
      <4>4. localVersion <= client.snapshot /\ bytesUpTo[localVersion] <= current.uploadable
        BY <1>0, <3>0, <4>1
      <4> QED
        BY <1>0, <4>2, <4>3, <4>4
    <3> QED
      BY <3>1, <3>2
  <2> HIDE DEF inv, cap
  <2>6. UploadTargets'
    <3> SUFFICES ASSUME NEW m \in Notifiers, CurrentWork(m), ~kind[m].download
                 PROVE  /\ captured'[m] # None =>
                             /\ snapshot'[m] <= client.snapshot
                             /\ bytesUpTo[snapshot'[m]] <= captured'[m]
                        /\ \A s \in AllThreads : \A i \in outbox'[s] : i.to = m =>
                             captured'[m] = i.transferrable /\ i.transferred <= client.uploaded
                        /\ finals[m] > 0 =>
                             /\ snapshot'[m] <= client.snapshot
                             /\ bytesUpTo[snapshot'[m]] <= client.uploaded
      BY <2>3 DEF UploadTargets, CurrentWork
    <3>0. \A s \in AllThreads : outbox'[s] = IF s = t THEN inv ELSE outbox[s]
      BY <2>3 DEF TypeOK
    <3>1. CASE m = n
      <4>1. captured'[n] = cap /\ snapshot'[n] = localVersion
        BY <2>3 DEF TypeOK
      <4>2. \A s \in AllThreads : \A i \in outbox'[s] : i.to = n => i \in inv
        BY <2>2, <3>0
      <4> QED
        BY <2>2, <2>5, <3>1, <4>1, <4>2
    <3>2. CASE m # n
      <4>1. captured'[m] = captured[m] /\ snapshot'[m] = snapshot[m]
        BY <2>3, <3>2 DEF TypeOK
      <4>2. \A s \in AllThreads : \A i \in outbox'[s] : i.to = m => i \in outbox[s]
        BY <2>4, <3>0, <3>2
      <4> QED
        BY <4>1, <4>2 DEF UploadInv, UploadTargets
    <3> QED
      BY <3>1, <3>2
  <2>7. UnusedUntouched'
    <3> SUFFICES ASSUME NEW m \in Notifiers \ used'
                 PROVE  /\ captured'[m] = None /\ finals[m] = 0 /\ m \notin packages'
                        /\ \A s \in AllThreads : \A i \in outbox'[s] : i.to # m
      BY <2>3 DEF UnusedUntouched
    <3>1. m # n /\ m \notin used
      BY <2>3
    <3>2. /\ captured[m] = None /\ finals[m] = 0 /\ m \notin packages
          /\ \A s \in AllThreads : \A i \in outbox[s] : i.to # m
      BY <3>1 DEF UploadInv, UnusedUntouched
    <3>3. captured'[m] = captured[m] /\ m \notin packages'
      BY <2>3, <3>1, <3>2 DEF TypeOK
    <3>4. \A s \in AllThreads : outbox'[s] = IF s = t THEN inv ELSE outbox[s]
      BY <2>3 DEF TypeOK
    <3> QED
      BY <2>4, <3>1, <3>2, <3>3, <3>4
  <2> QED
    BY <2>1, <2>6, <2>7 DEF UploadInv
<1>3. ASSUME NEW n \in Notifiers, Unregister(n) PROVE UploadInv'
  BY <1>0, <1>3, TimePasses, ClientNumbers DEF Unregister
<1>4. ASSUME UpdateIgnored PROVE UploadInv'
  BY <1>0, <1>4, TimePasses, ClientNumbers DEF UpdateIgnored
<1>5. ASSUME Update PROVE UploadInv'
  <2>0. \A n \in Notifiers : captured[n] \in Bytes \cup {None} /\ snapshot[n] \in 0 .. MaxVersion
    BY DEF TypeOK
  <2>1. /\ current' = client /\ UNCHANGED <<kind, snapshot, used, client, bytesUpTo, finals>>
        /\ packages' \subseteq packages
    BY <1>5 DEF Update, Unexpired
  <2>2. ProgressGrows'
    BY <1>0, <2>1, ClientNumbers DEF ProgressGrows
  <2>3. \A n \in Notifiers : captured'[n] =
          IF n \in packages THEN CapturedBy(n, snapshot[n], client) ELSE captured[n]
    BY <1>5 DEF Update
  <2>4. \A s \in AllThreads : \A i \in outbox'[s] :
          \/ i \in outbox[s]
          \/ \E n \in packages : i \in InvocationOf(n, snapshot[n], client)
    <3> DEFINE invs == UNION {InvocationOf(n, snapshot[n], client) : n \in packages}
    <3>1. outbox' = [outbox EXCEPT ![Loop] = invs]
      BY <1>5 DEF Update
    <3>2. \A i \in invs : \E n \in packages : i \in InvocationOf(n, snapshot[n], client)
      OBVIOUS
    <3> HIDE DEF invs
    <3> QED
      BY <3>1, <3>2 DEF TypeOK
  <2>5. \A n \in Notifiers : \A i \in InvocationOf(n, snapshot[n], client) : i.to = n
    BY DEF InvocationOf
  <2>6. ASSUME NEW n \in Notifiers, CurrentWork(n), ~kind[n].download
        PROVE  /\ captured'[n] # None =>
                    snapshot[n] <= client.snapshot /\ bytesUpTo[snapshot[n]] <= captured'[n]
               /\ captured[n] # None => captured'[n] = captured[n]
               /\ n \in packages => \A i \in InvocationOf(n, snapshot[n], client) :
                    captured'[n] = i.transferrable /\ i.transferred <= client.uploaded
    <3>0. captured[n] # None =>
            snapshot[n] <= client.snapshot /\ bytesUpTo[snapshot[n]] <= captured[n]
      BY <2>6 DEF UploadInv, UploadTargets
    <3>1. CASE n \notin packages
      BY <2>3, <3>0, <3>1
    <3>2. CASE n \in packages /\ captured[n] # None
      <4>1. captured'[n] = captured[n]
        BY <2>3, <2>6, <3>2 DEF CapturedBy, Transferrable, CurrentWork
      <4>2. \A i \in InvocationOf(n, snapshot[n], client) :
              i.transferrable = captured[n] /\ i.transferred = client.uploaded
        BY <2>6, <3>2 DEF InvocationOf, Transferrable, Transferred, CurrentWork
      <4> QED
        BY <3>0, <4>1, <4>2, ClientNumbers
    <3>3. CASE n \in packages /\ captured[n] = None /\ TooEarly(n, snapshot[n], client)
      BY <2>3, <3>3 DEF CapturedBy, InvocationOf
    <3>4. CASE n \in packages /\ captured[n] = None /\ ~TooEarly(n, snapshot[n], client)
      <4>1. snapshot[n] <= client.snapshot
        BY <2>0, <2>6, <3>4, ClientNumbers DEF TooEarly, CurrentWork
      <4>2. captured'[n] = client.uploadable
        BY <2>3, <2>6, <3>4 DEF CapturedBy, Transferrable, Offered, CurrentWork
      <4>3. \A i \in InvocationOf(n, snapshot[n], client) :
              i.transferrable = client.uploadable /\ i.transferred = client.uploaded
        BY <2>6, <3>4 DEF InvocationOf, Transferrable, Transferred, Offered, CurrentWork
      <4>4. bytesUpTo[snapshot[n]] <= client.uploadable
        BY <1>0, <2>0, <4>1
      <4> QED
        BY <3>4, <4>1, <4>2, <4>3, <4>4, ClientNumbers
    <3> QED
      BY <3>1, <3>2, <3>3, <3>4
  <2>7. UploadTargets'
    <3> SUFFICES ASSUME NEW n \in Notifiers, CurrentWork(n), ~kind[n].download
                 PROVE  /\ captured'[n] # None =>
                             /\ snapshot[n] <= client.snapshot
                             /\ bytesUpTo[snapshot[n]] <= captured'[n]
                        /\ \A s \in AllThreads : \A i \in outbox'[s] : i.to = n =>
                             captured'[n] = i.transferrable /\ i.transferred <= client.uploaded
                        /\ finals[n] > 0 =>
                             /\ snapshot[n] <= client.snapshot
                             /\ bytesUpTo[snapshot[n]] <= client.uploaded
      BY <2>1 DEF UploadTargets, CurrentWork
    <3>1. ASSUME NEW s \in AllThreads, NEW i \in outbox'[s], i.to = n
          PROVE  captured'[n] = i.transferrable /\ i.transferred <= client.uploaded
      <4>1. CASE i \in outbox[s]
        <5>1. captured[n] = i.transferrable /\ i.transferred <= client.uploaded
          BY <3>1, <4>1 DEF UploadInv, UploadTargets
        <5>2. i.transferrable # None
          <6>1. i \in Invocations
            BY <4>1 DEF TypeOK
          <6>2. i.transferrable \in Bytes
            BY <6>1 DEF Invocations
          <6> QED
            BY <6>2 DEF Bytes, None
        <5> QED
          BY <2>6, <5>1, <5>2
      <4>2. CASE i \notin outbox[s]
        <5>1. n \in packages /\ i \in InvocationOf(n, snapshot[n], client)
          BY <2>4, <2>5, <3>1, <4>2 DEF TypeOK
        <5> QED
          BY <2>6, <5>1
      <4> QED
        BY <4>1, <4>2
    <3>2. finals[n] > 0 =>
            snapshot[n] <= client.snapshot /\ bytesUpTo[snapshot[n]] <= client.uploaded
      BY DEF UploadInv, UploadTargets
    <3> QED
      BY <2>6, <3>1, <3>2
  <2>8. UnusedUntouched'
    <3> SUFFICES ASSUME NEW n \in Notifiers \ used
                 PROVE  /\ captured'[n] = None /\ finals[n] = 0 /\ n \notin packages'
                        /\ \A s \in AllThreads : \A i \in outbox'[s] : i.to # n
      BY <2>1 DEF UnusedUntouched
    <3>1. /\ captured[n] = None /\ finals[n] = 0 /\ n \notin packages
          /\ \A s \in AllThreads : \A i \in outbox[s] : i.to # n
      BY DEF UploadInv, UnusedUntouched
    <3>2. \A s \in AllThreads : \A i \in outbox'[s] : i.to # n
      BY <2>4, <2>5, <3>1 DEF TypeOK
    <3> QED
      BY <2>1, <2>3, <3>1, <3>2
  <2> QED
    BY <2>2, <2>7, <2>8 DEF UploadInv
<1>6. ASSUME NEW t \in AllThreads, Invoke(t) PROVE UploadInv'
  <2> PICK i \in outbox[t] :
        /\ outbox' = [outbox EXCEPT ![t] = @ \ {i}]
        /\ finals' = [finals EXCEPT ![i.to] =
                        IF i.transferred < i.transferrable THEN @
                        ELSE IF @ = 0 THEN 1 ELSE 2]
        /\ UNCHANGED <<notifier, network, commits, current>>
    BY <1>6 DEF Invoke
  <2>0. i.to \in Notifiers /\ i.transferred \in Nat /\ i.transferrable \in Nat
        /\ i.transferrable # None
    BY DEF TypeOK, Invocations, Bytes, None
  <2>1. ProgressGrows'
    BY DEF UploadInv, ProgressGrows
  <2>2. \A s \in AllThreads : outbox'[s] \subseteq outbox[s]
    BY DEF TypeOK
  <2>3. \A n \in Notifiers : n # i.to => finals'[n] = finals[n]
    BY DEF TypeOK
  <2>4. i.transferred < i.transferrable => finals' = finals
    BY <2>0 DEF TypeOK
  <2>5. UploadTargets'
    <3> SUFFICES ASSUME NEW n \in Notifiers, CurrentWork(n), ~kind[n].download
                 PROVE  /\ captured[n] # None =>
                             /\ snapshot[n] <= client.snapshot
                             /\ bytesUpTo[snapshot[n]] <= captured[n]
                        /\ \A s \in AllThreads : \A j \in outbox'[s] : j.to = n =>
                             captured[n] = j.transferrable /\ j.transferred <= client.uploaded
                        /\ finals'[n] > 0 =>
                             /\ snapshot[n] <= client.snapshot
                             /\ bytesUpTo[snapshot[n]] <= client.uploaded
      BY DEF UploadTargets, CurrentWork
    <3>1. /\ captured[n] # None =>
                snapshot[n] <= client.snapshot /\ bytesUpTo[snapshot[n]] <= captured[n]
          /\ \A s \in AllThreads : \A j \in outbox[s] : j.to = n =>
                captured[n] = j.transferrable /\ j.transferred <= client.uploaded
          /\ finals[n] > 0 =>
                snapshot[n] <= client.snapshot /\ bytesUpTo[snapshot[n]] <= client.uploaded
      BY DEF UploadInv, UploadTargets
    <3>2. CASE n = i.to /\ ~(i.transferred < i.transferrable)
      <4>1. captured[n] = i.transferrable /\ i.transferred <= client.uploaded
        BY <3>1, <3>2
      <4>2. snapshot[n] <= client.snapshot /\ bytesUpTo[snapshot[n]] <= i.transferrable
        BY <2>0, <3>1, <4>1
      <4>3. bytesUpTo[snapshot[n]] \in Nat
        <5>1. snapshot[n] \in 0 .. MaxVersion
          BY DEF TypeOK
        <5> QED
          BY <5>1 DEF TypeOK, Bytes
      <4>4. bytesUpTo[snapshot[n]] <= client.uploaded
        BY <2>0, <3>2, <4>1, <4>2, <4>3, ClientNumbers
      <4> QED
        BY <2>2, <3>1, <4>2, <4>4
    <3>3. CASE n # i.to \/ i.transferred < i.transferrable
      BY <2>2, <2>3, <2>4, <3>1, <3>3
    <3> QED
      BY <3>2, <3>3
  <2>6. UnusedUntouched'
    <3>1. i.to \in used
      BY <2>0 DEF UploadInv, UnusedUntouched
    <3> QED
      BY <2>2, <2>3, <3>1 DEF UploadInv, UnusedUntouched
  <2> QED
    BY <2>1, <2>5, <2>6 DEF UploadInv
<1>7. ASSUME NEW t \in Threads, Commit(t) PROVE UploadInv'
  BY <1>0, <1>7, TimePasses, ClientNumbers DEF Commit
<1>8. ASSUME NEW t \in Threads, SetLocalVersion(t) PROVE UploadInv'
  BY <1>0, <1>8, TimePasses, ClientNumbers DEF SetLocalVersion
<1>9. ASSUME NEW bytes \in 0 .. 1, ProcessCommit(bytes) PROVE UploadInv'
  <2>1. client' = [client EXCEPT !.snapshot = @ + 1, !.uploadable = @ + bytes]
    BY <1>9 DEF ProcessCommit
  <2>2. /\ client'.uploaded = client.uploaded /\ client'.snapshot = client.snapshot + 1
        /\ client'.uploadable = client.uploadable + bytes
    BY <2>1, ClientNumbers DEF Progress
  <2>3. /\ UNCHANGED <<kind, snapshot, captured, used, outbox, finals, current, packages>>
        /\ bytesUpTo' = [v \in 0 .. MaxVersion |->
                           IF v > client.snapshot THEN client.uploadable + bytes ELSE bytesUpTo[v]]
    BY <1>9 DEF ProcessCommit
  <2>4. client.snapshot + 1 \in 0 .. MaxVersion
    BY <1>9, ClientNumbers DEF ProcessCommit
  <2>5. \A v \in 0 .. client.snapshot : bytesUpTo'[v] = bytesUpTo[v]
    BY <2>3, <2>4, ClientNumbers
  <2>6. \A v \in 0 .. client'.snapshot : bytesUpTo'[v] <= client'.uploadable
    <3> SUFFICES ASSUME NEW v \in 0 .. client.snapshot + 1
                 PROVE  bytesUpTo'[v] <= client.uploadable + bytes
      BY <2>2
    <3>1. CASE v > client.snapshot
      BY <2>3, <2>4, <3>1, ClientNumbers
    <3>2. CASE ~(v > client.snapshot)
      <4>1. v \in 0 .. client.snapshot /\ v \in 0 .. MaxVersion
        BY <2>4, <3>2, ClientNumbers
      <4>2. bytesUpTo'[v] = bytesUpTo[v] /\ bytesUpTo[v] <= client.uploadable
        BY <1>0, <2>5, <4>1
      <4>3. bytesUpTo[v] \in Nat
        BY <4>1 DEF TypeOK, Bytes
      <4> QED
        BY <4>2, <4>3, ClientNumbers
    <3> QED
      BY <3>1, <3>2
  <2>7. /\ client.uploaded <= client'.uploaded /\ client.uploadable <= client'.uploadable
        /\ client.snapshot <= client'.snapshot
    BY <2>2, ClientNumbers
  <2> QED
    BY <2>3, <2>5, <2>6, <2>7, TimePasses
<1>10. ASSUME Upload PROVE UploadInv'
  <2>1. client' = [client EXCEPT !.uploaded = @ + 1]
    BY <1>10 DEF Upload
  <2>2. /\ client.uploaded <= client'.uploaded /\ client'.uploadable = client.uploadable
        /\ client'.snapshot = client.snapshot
    BY <2>1, ClientNumbers DEF Progress
  <2>3. UNCHANGED <<kind, snapshot, captured, used, outbox, finals, current, packages, bytesUpTo>>
    BY <1>10 DEF Upload
  <2> QED
    BY <1>0, <2>2, <2>3, TimePasses, ClientNumbers
<1>11. ASSUME Offer PROVE UploadInv'
  <2>1. client' = [client EXCEPT !.downloadable = @ + 1]
    BY <1>11 DEF Offer
  <2>2. /\ client.uploaded <= client'.uploaded /\ client'.uploadable = client.uploadable
        /\ client'.snapshot = client.snapshot
    BY <2>1, ClientNumbers DEF Progress
  <2>3. UNCHANGED <<kind, snapshot, captured, used, outbox, finals, current, packages, bytesUpTo>>
    BY <1>11 DEF Offer
  <2> QED
    BY <1>0, <2>2, <2>3, TimePasses, ClientNumbers
<1>12. ASSUME Download PROVE UploadInv'
  <2>1. client' = [client EXCEPT !.downloaded = @ + 1]
    BY <1>12 DEF Download
  <2>2. /\ client.uploaded <= client'.uploaded /\ client'.uploadable = client.uploadable
        /\ client'.snapshot = client.snapshot
    BY <2>1, ClientNumbers DEF Progress
  <2>3. UNCHANGED <<kind, snapshot, captured, used, outbox, finals, current, packages, bytesUpTo>>
    BY <1>12 DEF Download
  <2> QED
    BY <1>0, <2>2, <2>3, TimePasses, ClientNumbers
<1>13. ASSUME FirstDownload PROVE UploadInv'
  <2>1. client' = [client EXCEPT !.downloadVersion = 1]
    BY <1>13 DEF FirstDownload
  <2>2. /\ client.uploaded <= client'.uploaded /\ client'.uploadable = client.uploadable
        /\ client'.snapshot = client.snapshot
    BY <2>1, ClientNumbers DEF Progress
  <2>3. UNCHANGED <<kind, snapshot, captured, used, outbox, finals, current, packages, bytesUpTo>>
    BY <1>13 DEF FirstDownload
  <2> QED
    BY <1>0, <2>2, <2>3, TimePasses, ClientNumbers
<1>14. CASE UNCHANGED vars
  BY <1>0, <1>14, TimePasses, ClientNumbers DEF vars
<1> QED
  BY <1>1, <1>2, <1>3, <1>4, <1>5, <1>6, <1>7, <1>8, <1>9, <1>10, <1>11, <1>12, <1>13, <1>14
  DEF Next, Application, Client

\* The invariant behind UploadsCovered.
THEOREM UploadInvHolds == Spec => []UploadInv
<1>1. Init => UploadInv
  <2> SUFFICES ASSUME Init PROVE UploadInv
    OBVIOUS
  <2>1. ProgressGrows
    BY DEF Init, ProgressGrows, Nothing
  <2>2. UploadTargets
    BY DEF Init, UploadTargets
  <2>3. UnusedUntouched
    BY DEF Init, UnusedUntouched
  <2> QED
    BY <2>1, <2>2, <2>3 DEF UploadInv
<1> QED
  BY <1>1, ProgressTypeCorrect, UploadInvInductive, PTL DEF Spec

\* What the target of a registration is: the newest version announced, unless the
\* announcements of two threads crossed before it.
LEMMA TargetNext ==
    ASSUME TypeOK, TargetIsNewest, [Next]_vars
    PROVE  TargetIsNewest'
<1> USE DEF notifier, asked, network, commits, calls, TargetIsNewest
<1>1. ASSUME NEW n \in Notifiers, Asks(n), used' = used \cup {n},
             snapshot' = [snapshot EXCEPT ![n] = localVersion], UNCHANGED commits
      PROVE  TargetIsNewest'
  <2> SUFFICES ASSUME NEW m \in used' \ overtaken' PROVE snapshot'[m] = expected'[m]
    BY <1>1
  <2>1. CASE m = n
    BY <1>1, <2>1 DEF Asks, TypeOK
  <2>2. CASE m # n
    BY <1>1, <2>2 DEF Asks, TypeOK
  <2> QED
    BY <2>1, <2>2
<1>2. ASSUME NEW t \in Threads, NEW n \in Notifiers, RegisterUnknown(t, n) PROVE TargetIsNewest'
  BY <1>1, <1>2 DEF RegisterUnknown
<1>3. ASSUME NEW t \in Threads, NEW n \in Notifiers, RegisterKnown(t, n) PROVE TargetIsNewest'
  BY <1>1, <1>3 DEF RegisterKnown
<1>4. ASSUME NEW t \in Threads, SetLocalVersion(t) PROVE TargetIsNewest'
  <2>1. PICK v \in announcing[t] .. version :
          /\ localVersion' = v
          /\ announced' = IF v > announced THEN v ELSE announced
          /\ crossed' = (v < announced)
    BY <1>4 DEF SetLocalVersion
  <2>2. UNCHANGED <<used, overtaken, snapshot, expected>>
    BY <1>4 DEF SetLocalVersion
  <2>3. v \in Int /\ announced \in Int
    BY DEF TypeOK
  <2>4. ~(v < announced) => v = announced'
    BY <2>1, <2>3
  <2> QED
    BY <2>1, <2>2, <2>4
<1>5. ASSUME UNCHANGED <<localVersion, announced, crossed, used, overtaken, snapshot, expected>>
      PROVE  TargetIsNewest'
  BY <1>5
<1> QED
  BY <1>2, <1>3, <1>4, <1>5 DEF Next, Application, Client, vars, Unregister, Commit, ProcessCommit,
     Upload, Offer, Download, FirstDownload, UpdateIgnored, Update, Invoke

\* A notifier for outstanding uploads that was told all is uploaded was told the truth about
\* the commits up to the one it took for the last announced, however the client's scan, the
\* announcements, the registrations and the calls interleave; and these are all commits
\* announced before its registration, unless it was registered while the last announcement
\* was that of an older version than one before.
THEOREM UploadsAreCovered == Spec => []UploadsCovered
<1>1. TypeOK /\ UploadInv /\ TargetIsNewest => UploadsCovered
  <2> SUFFICES ASSUME TypeOK, UploadInv, TargetIsNewest,
                      NEW n \in used, CurrentWork(n), ~kind[n].download, finals[n] > 0
               PROVE  /\ Uploaded(snapshot[n])
                      /\ n \notin overtaken => Uploaded(expected[n])
    BY DEF UploadsCovered
  <2>1. n \in Notifiers
    BY DEF TypeOK
  <2>2. snapshot[n] \in 0 .. MaxVersion /\ client \in Progress
    BY <2>1 DEF TypeOK
  <2>3. bytesUpTo[snapshot[n]] \in Bytes
    BY <2>2 DEF TypeOK
  <2>4. snapshot[n] <= client.snapshot /\ bytesUpTo[snapshot[n]] <= client.uploaded
    BY <2>1 DEF UploadInv, UploadTargets
  <2>5. Uploaded(snapshot[n])
    BY <2>2, <2>3, <2>4 DEF Uploaded, Progress, Bytes
  <2> QED
    BY <2>5 DEF TargetIsNewest
<1>2. Init => TargetIsNewest
  BY DEF Init, TargetIsNewest
<1> QED
  BY <1>1, <1>2, ProgressTypeCorrect, UploadInvHolds, TargetNext, PTL DEF Spec

-----------------------------------------------------------------------------
(* The total of a notifier for outstanding work, and its last call.        *)

\* The total that a notifier was told, and those it is about to be told, are the one that
\* was captured for it.
TotalOK(n) ==
    /\ n \notin used => /\ captured[n] = None /\ last[n].transferrable = None
                        /\ \A s \in AllThreads : \A i \in outbox[s] : i.to # n
    /\ CurrentWork(n) =>
         /\ last[n].transferrable # None => captured[n] = last[n].transferrable
         /\ \A s \in AllThreads : \A i \in outbox[s] : i.to = n => captured[n] = i.transferrable

TotalInv == \A n \in Notifiers : TotalOK(n)

\* What update and register_callback make of a notifier for outstanding work.
LEMMA OfCurrentWork ==
    ASSUME TypeOK, NEW n \in Notifiers, CurrentWork(n), NEW since, NEW p \in Progress
    PROVE  /\ \A i \in InvocationOf(n, since, p) :
                i.to = n /\ i.transferrable = CapturedBy(n, since, p)
           /\ captured[n] # None => CapturedBy(n, since, p) = captured[n]
           /\ \A i, j \in InvocationOf(n, since, p) : i = j
           /\ Expired(n, since, p) <=> \E i \in InvocationOf(n, since, p) :
                                          i.transferred >= i.transferrable
<1>1. CASE TooEarly(n, since, p)
  BY <1>1 DEF CurrentWork, InvocationOf, CapturedBy, Expired
<1>2. CASE ~TooEarly(n, since, p)
  <2> DEFINE made == [to |-> n, transferred |-> Transferred(n, p),
                      transferrable |-> Transferrable(n, p)]
  <2>1. InvocationOf(n, since, p) = {made}
    BY <1>2 DEF InvocationOf
  <2>2. /\ made.to = n /\ made.transferred = Transferred(n, p)
        /\ made.transferrable = Transferrable(n, p)
    OBVIOUS
  <2>3. CapturedBy(n, since, p) = Transferrable(n, p)
    BY <1>2 DEF CapturedBy, CurrentWork
  <2>4. captured[n] # None => Transferrable(n, p) = captured[n]
    BY DEF Transferrable, CurrentWork
  <2>5. Expired(n, since, p) <=> Transferred(n, p) >= Transferrable(n, p)
    BY <1>2 DEF Expired, CurrentWork
  <2> HIDE DEF made
  <2> QED
    BY <2>1, <2>2, <2>3, <2>4, <2>5
<1> QED
  BY <1>1, <1>2

LEMMA ToWhom ==
    ASSUME NEW n, NEW since, NEW p
    PROVE  \A i \in InvocationOf(n, since, p) : i.to = n
  BY DEF InvocationOf

LEMMA TotalNext ==
    ASSUME TypeOK, TypeOK', UploadInv, TotalInv, [Next]_vars
    PROVE  TotalInv'
<1> SUFFICES ASSUME NEW n \in Notifiers PROVE TotalOK(n)'
  BY DEF TotalInv
<1> USE DEF notifier, asked, network, commits, calls, TotalOK, CurrentWork
<1>a. TotalOK(n)
  BY DEF TotalInv
<1>1. ASSUME NEW t \in Threads, NEW k \in Notifiers, RegisterUnknown(t, k) PROVE TotalOK(n)'
  BY <1>a, <1>1 DEF RegisterUnknown
<1>2. ASSUME NEW t \in Threads, NEW k \in Notifiers, RegisterKnown(t, k) PROVE TotalOK(n)'
  <2> DEFINE inv == InvocationOf(k, localVersion, current)
             cap == CapturedBy(k, localVersion, current)
  <2>1. /\ captured' = [captured EXCEPT ![k] = cap] /\ outbox' = [outbox EXCEPT ![t] = inv]
        /\ used' = used \cup {k} /\ k \notin used /\ UNCHANGED <<kind, last>>
    BY <1>2 DEF RegisterKnown
  <2>2. \A i \in inv : i.to = k
    BY ToWhom
  <2>3. CurrentWork(k) => \A i \in inv : i.transferrable = cap
    BY OfCurrentWork DEF TypeOK
  <2> HIDE DEF inv, cap
  <2>4. \A s \in AllThreads : outbox'[s] = IF s = t THEN inv ELSE outbox[s]
    BY <2>1 DEF TypeOK
  <2>5. CASE n = k
    <3>1. captured'[n] = cap /\ last[n].transferrable = None
      BY <1>a, <2>1, <2>5 DEF TypeOK
    <3>2. \A s \in AllThreads : \A i \in outbox'[s] : i.to = n => i \in inv
      BY <1>a, <2>1, <2>4, <2>5
    <3> QED
      BY <2>1, <2>3, <2>5, <3>1, <3>2
  <2>6. CASE n # k
    <3>1. captured'[n] = captured[n]
      BY <2>1, <2>6 DEF TypeOK
    <3>2. \A s \in AllThreads : \A i \in outbox'[s] : i.to = n => i \in outbox[s]
      BY <2>2, <2>4, <2>6
    <3> QED
      BY <1>a, <2>1, <2>6, <3>1, <3>2
  <2> QED
    BY <2>5, <2>6
<1>3. ASSUME NEW k \in Notifiers, Unregister(k) PROVE TotalOK(n)'
  BY <1>a, <1>3 DEF Unregister
<1>4. ASSUME Update PROVE TotalOK(n)'
  <2> DEFINE inv(m) == InvocationOf(m, snapshot[m], client)
             cap(m) == CapturedBy(m, snapshot[m], client)
  <2>1. /\ captured' = [m \in Notifiers |-> IF m \in packages THEN cap(m) ELSE captured[m]]
        /\ outbox' = [outbox EXCEPT ![Loop] = UNION {inv(m) : m \in packages}]
        /\ UNCHANGED <<used, kind, last>> /\ outbox[Loop] = {}
    BY <1>4 DEF Update
  <2>2. \A m \in packages : \A i \in inv(m) : i.to = m
    BY ToWhom
  <2>3. CurrentWork(n) => /\ \A i \in inv(n) : i.transferrable = cap(n)
                          /\ captured[n] # None => cap(n) = captured[n]
    BY OfCurrentWork DEF TypeOK
  <2>4. n \in packages => n \in used
    BY DEF UploadInv, UnusedUntouched
  <2> HIDE DEF inv, cap
  <2>5. \A s \in AllThreads : \A i \in outbox'[s] : i.to = n =>
           IF s = Loop THEN n \in packages /\ i \in inv(n) ELSE i \in outbox[s]
    BY <2>1, <2>2 DEF TypeOK
  <2>6. captured'[n] = IF n \in packages THEN cap(n) ELSE captured[n]
    BY <2>1
  <2>7. \A s \in AllThreads : \A i \in outbox[s] : i.transferrable # None
    <3>1. \A s \in AllThreads : outbox[s] \subseteq Invocations
      BY DEF TypeOK
    <3>2. \A i \in Invocations : i.transferrable \in Bytes
      BY DEF Invocations
    <3>3. None \notin Bytes
      BY DEF Bytes, None
    <3> QED
      BY <3>1, <3>2, <3>3
  <2>8. CASE n \notin used
    BY <1>a, <2>1, <2>4, <2>5, <2>6, <2>8
  <2>9. CASE n \in used /\ CurrentWork(n)
    <3>1. last[n].transferrable # None => captured'[n] = last[n].transferrable
      BY <1>a, <2>3, <2>6, <2>9
    <3>2. ASSUME NEW s \in AllThreads, NEW i \in outbox'[s], i.to = n
          PROVE  captured'[n] = i.transferrable
      <4>1. CASE s = Loop
        BY <2>3, <2>5, <2>6, <2>9, <3>2, <4>1
      <4>2. CASE s # Loop
        <5>1. i \in outbox[s] /\ captured[n] = i.transferrable /\ i.transferrable # None
          BY <1>a, <2>5, <2>7, <2>9, <3>2, <4>2
        <5> QED
          BY <2>3, <2>6, <2>9, <5>1
      <4> QED
        BY <4>1, <4>2
    <3> QED
      BY <2>1, <2>9, <3>1, <3>2
  <2> QED
    BY <2>1, <2>8, <2>9
<1>5. ASSUME NEW t \in AllThreads, Invoke(t) PROVE TotalOK(n)'
  <2>1. PICK i \in outbox[t] :
          /\ outbox' = [outbox EXCEPT ![t] = @ \ {i}]
          /\ last' = [last EXCEPT ![i.to] =
                        [transferred |-> i.transferred, transferrable |-> i.transferrable]]
          /\ UNCHANGED <<captured, used, kind>>
    BY <1>5 DEF Invoke
  <2>2. \A s \in AllThreads : outbox'[s] \subseteq outbox[s]
    BY <2>1 DEF TypeOK
  <2>3. i.to # n => last'[n] = last[n]
    BY <2>1 DEF TypeOK
  <2>4. i.to = n => last'[n].transferrable = i.transferrable /\ n \in used
    BY <1>a, <2>1 DEF TypeOK
  <2> QED
    BY <1>a, <2>1, <2>2, <2>3, <2>4
<1>6. ASSUME NEW t \in Threads, Commit(t) PROVE TotalOK(n)'
  BY <1>a, <1>6 DEF Commit
<1>7. ASSUME NEW t \in Threads, SetLocalVersion(t) PROVE TotalOK(n)'
  BY <1>a, <1>7 DEF SetLocalVersion
<1>8. ASSUME NEW bytes \in 0 .. 1, ProcessCommit(bytes) PROVE TotalOK(n)'
  BY <1>a, <1>8 DEF ProcessCommit
<1>9. ASSUME Upload PROVE TotalOK(n)'
  BY <1>a, <1>9 DEF Upload
<1>10. ASSUME Offer PROVE TotalOK(n)'
  BY <1>a, <1>10 DEF Offer
<1>11. ASSUME Download PROVE TotalOK(n)'
  BY <1>a, <1>11 DEF Download
<1>12. ASSUME FirstDownload PROVE TotalOK(n)'
  BY <1>a, <1>12 DEF FirstDownload
<1>13. ASSUME UpdateIgnored PROVE TotalOK(n)'
  BY <1>a, <1>13 DEF UpdateIgnored
<1>14. ASSUME UNCHANGED vars PROVE TotalOK(n)'
  BY <1>a, <1>14 DEF vars
<1> QED
  BY <1>1, <1>2, <1>3, <1>4, <1>5, <1>6, <1>7, <1>8, <1>9, <1>10, <1>11, <1>12, <1>13, <1>14
  DEF Next, Application, Client

LEMMA TotalInvHolds == Spec => []TotalInv
<1>1. Init => TotalInv
  BY DEF Init, TotalInv, TotalOK
<1> QED
  BY <1>1, ProgressTypeCorrect, UploadInvHolds, TotalNext, PTL DEF Spec

\* The total a notifier for outstanding work is told never changes, although the call of the
\* registering thread and those of the event loop may cross.
THEOREM TotalKeptHolds == Spec => TotalKept
<1> DEFINE Step == \A n \in Notifiers : CurrentWork(n) /\ last[n].transferrable # None =>
                     last'[n].transferrable = last[n].transferrable
<1>1. TypeOK /\ TotalInv /\ [Next]_vars => Step
  <2> SUFFICES ASSUME TypeOK, TotalInv, [Next]_vars, NEW n \in Notifiers, CurrentWork(n),
                      last[n].transferrable # None
               PROVE  last'[n].transferrable = last[n].transferrable
    OBVIOUS
  <2>1. CASE last' = last
    BY <2>1
  <2>2. CASE \E t \in AllThreads : Invoke(t)
    <3>0. PICK t \in AllThreads : Invoke(t)
      BY <2>2
    <3>1. PICK i \in outbox[t] :
            last' = [last EXCEPT ![i.to] =
                       [transferred |-> i.transferred, transferrable |-> i.transferrable]]
      BY <3>0 DEF Invoke
    <3>2. i.to = n => i.transferrable = last[n].transferrable
      BY <3>1 DEF TotalInv, TotalOK
    <3>3. last'[n] = last[n] \/ (i.to = n /\ last'[n].transferrable = i.transferrable)
      BY <3>1 DEF TypeOK
    <3> QED
      BY <3>2, <3>3
  <2> QED
    BY <2>1, <2>2 DEF Next, Application, Client, vars, calls, RegisterUnknown, RegisterKnown,
       Unregister, Commit, SetLocalVersion, ProcessCommit, Upload, Offer, Download,
       FirstDownload, UpdateIgnored, Update
<1> HIDE DEF Step
<1>2. Spec => [][Step]_vars
  BY ProgressTypeCorrect, TotalInvHolds, <1>1, PTL DEF Spec
<1> QED
  BY <1>2 DEF Step, TotalKept

\* The invocations prepared by a thread that tell a notifier that all is transferred.
Finals(t, n) == {i \in outbox[t] : i.to = n /\ i.transferred >= i.transferrable}

\* A notifier for outstanding work has had such a call, or one is on its way, or neither,
\* and neither as long as it is in m_packages.
OnceOK(n) ==
    /\ n \in packages => n \in used
    /\ n \notin used => finals[n] = 0 /\ \A t \in AllThreads : \A i \in outbox[t] : i.to # n
    /\ CurrentWork(n) =>
         /\ n \in packages => finals[n] = 0 /\ \A t \in AllThreads : Finals(t, n) = {}
         /\ finals[n] # 0 => finals[n] = 1 /\ \A t \in AllThreads : Finals(t, n) = {}
         /\ \A s, t \in AllThreads : \A i \in Finals(s, n), j \in Finals(t, n) : s = t /\ i = j
         /\ n \in used /\ n \notin packages \cup removed =>
              finals[n] = 1 \/ \E t \in AllThreads : Finals(t, n) # {}

OnceInv == \A n \in Notifiers : OnceOK(n)

LEMMA OnceNext ==
    ASSUME TypeOK, TypeOK', OnceInv, [Next]_vars
    PROVE  OnceInv'
<1> SUFFICES ASSUME NEW n \in Notifiers PROVE OnceOK(n)'
  BY DEF OnceInv
<1> USE DEF notifier, asked, network, commits, calls, OnceOK, CurrentWork, Finals
<1>a. OnceOK(n)
  BY DEF OnceInv
<1>b. finals[n] \in 0 .. 2 /\ Loop \in AllThreads
  BY DEF TypeOK, AllThreads
<1>1. ASSUME NEW t \in Threads, NEW k \in Notifiers, RegisterUnknown(t, k) PROVE OnceOK(n)'
  <2>1. /\ UNCHANGED <<kind, outbox, finals, removed>> /\ k \notin used
        /\ used' = used \cup {k} /\ packages' = packages \cup {k}
    BY <1>1 DEF RegisterUnknown
  <2> QED
    BY <1>a, <2>1
<1>2. ASSUME NEW t \in Threads, NEW k \in Notifiers, RegisterKnown(t, k) PROVE OnceOK(n)'
  <2> DEFINE inv == InvocationOf(k, localVersion, current)
             expired == Expired(k, localVersion, current)
  <2>1. /\ outbox' = [outbox EXCEPT ![t] = inv] /\ used' = used \cup {k} /\ k \notin used
        /\ packages' = IF expired THEN packages ELSE packages \cup {k}
        /\ UNCHANGED <<kind, finals, removed>> /\ outbox[t] = {}
    BY <1>2 DEF RegisterKnown, Free
  <2>2. \A i \in inv : i.to = k
    BY ToWhom
  <2>3. CurrentWork(k) => /\ \A i, j \in inv : i = j
                          /\ expired <=> \E i \in inv : i.transferred >= i.transferrable
    BY SMTT(30), OfCurrentWork DEF TypeOK
  <2> HIDE DEF inv, expired
  <2>4. t \in AllThreads /\ \A s \in AllThreads : outbox'[s] = IF s = t THEN inv ELSE outbox[s]
    BY <2>1 DEF TypeOK, AllThreads
  <2>5. CASE n = k
    <3>1. finals[n] = 0 /\ \A s \in AllThreads : \A i \in outbox[s] : i.to # n
      BY <1>a, <2>1, <2>5
    <3>2. \A s \in AllThreads : \A i \in outbox'[s] : i.to = n => s = t /\ i \in inv
      BY <2>4, <3>1
    <3>3. \A i \in inv : i \in outbox'[t] /\ i.to = n
      BY <2>2, <2>4, <2>5
    <3>4. \A s \in AllThreads : \A i \in Finals(s, n)' :
            s = t /\ i \in inv /\ i.transferred >= i.transferrable
      BY <3>2
    <3>5. CASE CurrentWork(n) /\ expired
      <4>1. PICK i \in inv : i.transferred >= i.transferrable
        BY <2>3, <2>5, <3>5
      <4>2. i \in Finals(t, n)'
        BY <3>3, <4>1
      <4>3. \A s, u \in AllThreads : \A x \in Finals(s, n)', y \in Finals(u, n)' : s = u /\ x = y
        BY <2>3, <2>5, <3>4, <3>5
      <4>4. n \notin packages' /\ n \in used' /\ finals'[n] = 0
        BY <1>a, <2>1, <2>5, <3>1, <3>5
      <4> QED
        BY <2>4, <4>2, <4>3, <4>4
    <3>6. CASE CurrentWork(n) /\ ~expired
      <4>1. \A s \in AllThreads : Finals(s, n)' = {}
        BY <2>3, <2>5, <3>4, <3>6
      <4>2. n \in packages' /\ n \in used' /\ finals'[n] = 0
        BY <2>1, <2>5, <3>1, <3>6
      <4> QED
        BY <4>1, <4>2
    <3>7. CASE ~CurrentWork(n)
      BY <1>a, <2>1, <2>5, <3>7
    <3> QED
      BY <3>5, <3>6, <3>7
  <2>6. CASE n # k
    <3>1. \A s \in AllThreads : \A i : i.to = n => (i \in outbox'[s] <=> i \in outbox[s])
      BY <2>1, <2>2, <2>4, <2>6
    <3>2. \A s \in AllThreads : Finals(s, n)' = Finals(s, n)
      BY <3>1
    <3>3. (n \in packages' <=> n \in packages) /\ (n \in used' <=> n \in used)
      BY <2>1, <2>6
    <3> QED
      BY <1>a, <2>1, <3>1, <3>2, <3>3
  <2> QED
    BY <2>5, <2>6
<1>3. ASSUME NEW k \in Notifiers, Unregister(k) PROVE OnceOK(n)'
  <2>1. /\ UNCHANGED <<kind, outbox, finals, used>>
        /\ removed' = removed \cup {k} /\ packages' = packages \ {k}
    BY <1>3 DEF Unregister
  <2> QED
    BY <1>a, <2>1
<1>4. ASSUME Update PROVE OnceOK(n)'
  <2> DEFINE inv(m) == InvocationOf(m, snapshot[m], client)
             expired(m) == Expired(m, snapshot[m], client)
  <2>1. /\ outbox' = [outbox EXCEPT ![Loop] = UNION {inv(m) : m \in packages}]
        /\ packages' = {m \in packages : ~expired(m)}
        /\ UNCHANGED <<used, kind, finals, removed>> /\ outbox[Loop] = {}
    BY <1>4 DEF Update, Unexpired
  <2>2. \A m \in packages : \A i \in inv(m) : i.to = m
    BY ToWhom
  <2>3. CurrentWork(n) => /\ \A i, j \in inv(n) : i = j
                          /\ expired(n) <=> \E i \in inv(n) : i.transferred >= i.transferrable
    BY OfCurrentWork DEF TypeOK
  <2> HIDE DEF inv, expired
  <2>4. \A s \in AllThreads : \A i : i.to = n =>
           (i \in outbox'[s] <=> IF s = Loop THEN n \in packages /\ i \in inv(n)
                                 ELSE i \in outbox[s])
    BY SMTT(30), <2>1, <2>2 DEF TypeOK
  <2>5. CASE n \notin packages
    <3>1. \A s \in AllThreads : \A i : i.to = n => (i \in outbox'[s] <=> i \in outbox[s])
      BY <2>1, <2>4, <2>5
    <3>2. \A s \in AllThreads : Finals(s, n)' = Finals(s, n)
      BY <3>1
    <3> QED
      BY <1>a, <2>1, <2>5, <3>1, <3>2
  <2>6. CASE n \in packages /\ ~CurrentWork(n)
    BY <1>a, <2>1, <2>6
  <2>7. CASE n \in packages /\ CurrentWork(n)
    <3>1. n \in used /\ finals[n] = 0 /\ \A s \in AllThreads : Finals(s, n) = {}
      BY <1>a, <2>7
    <3>2. \A s \in AllThreads : \A i : i \in Finals(s, n)' <=>
             s = Loop /\ i \in inv(n) /\ i.transferred >= i.transferrable
      <4>1. \A i \in inv(n) : i.to = n
        BY <2>2, <2>7
      <4>2. \A s \in AllThreads : \A i : i \in outbox[s] /\ i.to = n =>
                                           ~(i.transferred >= i.transferrable)
        BY <3>1
      <4>3. ASSUME NEW s \in AllThreads, NEW i
            PROVE  i \in Finals(s, n)' <=>
                     s = Loop /\ i \in inv(n) /\ i.transferred >= i.transferrable
        <5>1. CASE i.to = n
          BY <2>4, <2>7, <4>2, <5>1
        <5>2. CASE i.to # n
          BY <4>1, <5>2
        <5> QED
          BY <5>1, <5>2
      <4> QED
        BY <4>3
    <3>3. \A s, u \in AllThreads : \A x \in Finals(s, n)', y \in Finals(u, n)' : s = u /\ x = y
      BY <2>3, <2>7, <3>2
    <3>4. CASE expired(n)
      <4>1. PICK i \in inv(n) : i.transferred >= i.transferrable
        BY <2>3, <2>7, <3>4
      <4>2. i \in Finals(Loop, n)'
        BY <1>b, <3>2, <4>1
      <4>3. n \notin packages' /\ used' = used /\ finals' = finals /\ kind' = kind
        BY <2>1, <3>4
      <4> QED
        BY <1>b, <3>1, <3>3, <4>2, <4>3
    <3>5. CASE ~expired(n)
      <4>1. \A s \in AllThreads : Finals(s, n)' = {}
        BY <2>3, <2>7, <3>2, <3>5
      <4>2. n \in packages' /\ used' = used /\ finals' = finals /\ kind' = kind
        BY <2>1, <2>7, <3>5
      <4> QED
        BY <3>1, <4>1, <4>2
    <3> QED
      BY <3>4, <3>5
  <2> QED
    BY <2>5, <2>6, <2>7
<1>5. ASSUME NEW t \in AllThreads, Invoke(t) PROVE OnceOK(n)'
  <2>1. PICK i \in outbox[t] :
          /\ outbox' = [outbox EXCEPT ![t] = @ \ {i}]
          /\ finals' = [finals EXCEPT ![i.to] =
                          IF i.transferred < i.transferrable THEN @
                          ELSE IF @ = 0 THEN 1 ELSE 2]
          /\ UNCHANGED <<used, kind, packages, removed>>
    BY <1>5 DEF Invoke
  <2>2. \A s \in AllThreads : outbox'[s] = IF s = t THEN outbox[s] \ {i} ELSE outbox[s]
    BY <2>1 DEF TypeOK
  <2>3. \A s \in AllThreads : Finals(s, n)' = IF s = t THEN Finals(s, n) \ {i} ELSE Finals(s, n)
    BY <2>2
  <2>4. i.transferred \in Nat /\ i.transferrable \in Nat
    <3>1. i \in Invocations
      BY DEF TypeOK
    <3> QED
      BY <3>1 DEF Invocations, Bytes
  <2>5. finals'[n] = IF i.to = n /\ i.transferred >= i.transferrable
                     THEN IF finals[n] = 0 THEN 1 ELSE 2 ELSE finals[n]
    BY SMTT(30), <2>1, <2>4 DEF TypeOK
  <2>6. CASE ~(i.to = n /\ i.transferred >= i.transferrable)
    <3>1. finals'[n] = finals[n] /\ \A s \in AllThreads : Finals(s, n)' = Finals(s, n)
      BY <2>3, <2>5, <2>6
    <3> QED
      BY <1>a, <2>1, <2>2, <3>1
  <2>7. CASE i.to = n /\ i.transferred >= i.transferrable
    <3>1. i \in Finals(t, n) /\ n \in used
      BY <1>a, <2>1, <2>7
    <3>2. CASE CurrentWork(n)
      <4>1. finals[n] = 0 /\ n \notin packages
        BY <1>a, <3>1, <3>2
      <4>2. finals'[n] = 1
        BY <2>5, <2>7, <4>1
      <4>3. \A s \in AllThreads : Finals(s, n)' = {}
        BY <1>a, <2>3, <3>1, <3>2
      <4> QED
        BY <2>1, <3>1, <4>1, <4>2, <4>3
    <3>3. CASE ~CurrentWork(n)
      BY <1>a, <2>1, <3>1, <3>3
    <3> QED
      BY <3>2, <3>3
  <2> QED
    BY <2>6, <2>7
<1>6. ASSUME NEW t \in Threads, Commit(t) PROVE OnceOK(n)'
  BY <1>a, <1>6 DEF Commit
<1>7. ASSUME NEW t \in Threads, SetLocalVersion(t) PROVE OnceOK(n)'
  BY <1>a, <1>7 DEF SetLocalVersion
<1>8. ASSUME NEW bytes \in 0 .. 1, ProcessCommit(bytes) PROVE OnceOK(n)'
  BY <1>a, <1>8 DEF ProcessCommit
<1>9. ASSUME Upload PROVE OnceOK(n)'
  BY <1>a, <1>9 DEF Upload
<1>10. ASSUME Offer PROVE OnceOK(n)'
  BY <1>a, <1>10 DEF Offer
<1>11. ASSUME Download PROVE OnceOK(n)'
  BY <1>a, <1>11 DEF Download
<1>12. ASSUME FirstDownload PROVE OnceOK(n)'
  BY <1>a, <1>12 DEF FirstDownload
<1>13. ASSUME UpdateIgnored PROVE OnceOK(n)'
  BY <1>a, <1>13 DEF UpdateIgnored
<1>14. ASSUME UNCHANGED vars PROVE OnceOK(n)'
  BY <1>a, <1>14 DEF vars
<1> QED
  BY <1>1, <1>2, <1>3, <1>4, <1>5, <1>6, <1>7, <1>8, <1>9, <1>10, <1>11, <1>12, <1>13, <1>14
  DEF Next, Application, Client

\* A notifier for outstanding work leaves by itself only with one last call that says all is
\* transferred, on whichever thread, and there is never a second such call.
THEOREM CompletionReportedOnceHolds == Spec => []CompletionReportedOnce
<1>1. TypeOK /\ OnceInv => CompletionReportedOnce
  <2> SUFFICES ASSUME TypeOK, OnceInv, NEW n \in used, CurrentWork(n)
               PROVE  /\ finals[n] + Cardinality(FinalsPending(n)) <= 1
                      /\ n \notin packages \cup removed =>
                           finals[n] + Cardinality(FinalsPending(n)) = 1
    BY DEF CompletionReportedOnce
  <2>1. n \in Notifiers /\ finals[n] \in 0 .. 2
    BY DEF TypeOK
  <2>2. OnceOK(n)
    BY <2>1 DEF OnceInv
  <2>3. FinalsPending(n) = {t \in AllThreads : Finals(t, n) # {}}
    BY DEF FinalsPending, Finals
  <2>4. CASE FinalsPending(n) = {}
    <3>1. Cardinality(FinalsPending(n)) = 0
      BY <2>4, FS_EmptySet
    <3> QED
      BY <2>1, <2>2, <2>3, <2>4, <3>1 DEF OnceOK
  <2>5. CASE FinalsPending(n) # {}
    <3>1. PICK t : t \in FinalsPending(n)
      BY <2>5
    <3>2. FinalsPending(n) = {t}
      BY <2>2, <2>3, <3>1 DEF OnceOK
    <3>3. Cardinality(FinalsPending(n)) = 1
      BY <3>2, FS_Singleton
    <3>4. finals[n] = 0
      BY <2>2, <2>3, <3>1 DEF OnceOK
    <3> QED
      BY <3>3, <3>4
  <2> QED
    BY <2>4, <2>5
<1>2. Init => OnceInv
  BY DEF Init, OnceInv, OnceOK, Finals
<1> QED
  BY <1>1, <1>2, ProgressTypeCorrect, OnceNext, PTL DEF Spec

=============================================================================
