-------------------------- MODULE SyncManager_proofs --------------------------
(***************************************************************************)
(* Theorems about what SyncManager keeps: the session of each path, in     *)
(* memory (SessionRegistry), and users and file actions, on disk           *)
(* (SyncMetadata).  They hold for any number of threads, sessions, users,  *)
(* Realms, files, errors and crashes.                                      *)
(***************************************************************************)
EXTENDS SessionRegistry, SyncMetadata, TLAPS

(***************************************************************************)
(* The session of a path.                                                  *)
(***************************************************************************)
USE ObjectsAssumption DEF Objects, NoObject, AllThreads

\* Type correctness: the domains and ranges of all maps, stacks and mutexes.
THEOREM RegistryTypeCorrect == RegistrySpec => []RegistryTypeOK
<1>1. RegistryInit => RegistryTypeOK
  <2> SUFFICES ASSUME RegistryInit PROVE RegistryTypeOK
    OBVIOUS
  <2>1. /\ refs \in [Objects -> SUBSET Threads]
        /\ temp \in [Objects -> SUBSET AllThreads]
    BY DEF RegistryInit
  <2>2. /\ pc \in [AllThreads -> Steps]
        /\ local \in [AllThreads -> Objects \cup {NoObject}]
        /\ after \in [AllThreads -> {"idle", "loggedOut"}]
        /\ state \in [Objects -> {"live", "closing", "inactive"}]
    BY DEF RegistryInit, Steps
  <2>3. aborted \in BOOLEAN /\ stray \in BOOLEAN
    BY DEF RegistryInit
  <2>4. /\ registry \in Objects \cup {NoObject}
        /\ managerMutex \in AllThreads \cup {NoThread}
        /\ userMutex \in AllThreads \cup {NoThread}
        /\ userState \in {"active", "loggedOut", "error"}
    BY DEF RegistryInit
  <2>5. /\ userSession \in Objects \cup {NoObject}
        /\ waitingSession \in Objects \cup {NoObject}
        /\ created \in 0 .. MaxObjects /\ stopPolicy \in StopPolicies
    BY DEF RegistryInit
  <2> QED
    BY <2>1, <2>2, <2>3, <2>4, <2>5 DEF RegistryTypeOK
<1>2. RegistryTypeOK /\ [RegistryNext]_registryVars => RegistryTypeOK'
  <2> SUFFICES ASSUME RegistryTypeOK, [RegistryNext]_registryVars PROVE RegistryTypeOK'
    OBVIOUS
  <2> USE DEF locks, userMaps, sessions, stack
  <2>1. ASSUME NEW t \in Threads, GetRegistered(t) PROVE RegistryTypeOK'
    BY <2>1 DEF GetRegistered, RegistryTypeOK, Steps, Goto
  <2>2. ASSUME NEW t \in Threads, GetNew(t) PROVE RegistryTypeOK'
    BY <2>2 DEF GetNew, RegistryTypeOK, Steps, Goto
  <2>3. ASSUME NEW t \in Threads, RegisterSession(t) PROVE RegistryTypeOK'
    BY <2>3 DEF RegisterSession, RegistryTypeOK, Steps, Goto
  <2>4. ASSUME NEW t \in Threads, ReviveRegistered(t) PROVE RegistryTypeOK'
    BY <2>4 DEF ReviveRegistered, RegistryTypeOK, Steps, Goto, Revive
  <2>5. ASSUME NEW t \in Threads, TakeReference(t) PROVE RegistryTypeOK'
    BY <2>5 DEF TakeReference, RegistryTypeOK, Steps, Finish, Goto
  <2>6. ASSUME NEW t \in Threads, NEW o \in Objects, DropReference(t, o) PROVE RegistryTypeOK'
    BY ZenonT(60), <2>6 DEF DropReference, RegistryTypeOK, Steps, Finish, Goto
  <2>7. ASSUME NEW t \in Threads, DidDropReference(t) PROVE RegistryTypeOK'
    BY <2>7 DEF DidDropReference, RegistryTypeOK, Steps, Goto, Close, Deactivate
  <2>8. ASSUME NEW t \in AllThreads, UnregisterMissing(t) PROVE RegistryTypeOK'
    BY <2>8 DEF UnregisterMissing, RegistryTypeOK, Steps
  <2>9. ASSUME NEW t \in AllThreads, UnregisterReferenced(t) PROVE RegistryTypeOK'
    BY <2>9 DEF UnregisterReferenced, RegistryTypeOK, Steps, Goto
  <2>10. ASSUME NEW t \in AllThreads, Unregister(t) PROVE RegistryTypeOK'
    BY <2>10 DEF Unregister, RegistryTypeOK, Steps, Goto, KeepsEntry
  <2>11. ASSUME NEW t \in AllThreads, DropTemporary(t) PROVE RegistryTypeOK'
    BY <2>11 DEF DropTemporary, RegistryTypeOK, Steps, Goto
  <2>12. ASSUME NEW t \in AllThreads, DidDropTemporary(t) PROVE RegistryTypeOK'
    BY SMTT(30), <2>12 DEF DidDropTemporary, RegistryTypeOK, Steps, Goto, Close, Deactivate
  <2>13. ASSUME NEW t \in AllThreads, TailEnd(t) PROVE RegistryTypeOK'
    BY <2>13 DEF TailEnd, RegistryTypeOK, Steps, Finish, Goto
  <2>14. ASSUME NEW t \in Threads, UserLogOut(t) PROVE RegistryTypeOK'
    BY ZenonT(60), <2>14 DEF UserLogOut, RegistryTypeOK, Steps, Goto, Deactivate, StateAfterLogOut, CanDeactivate, Alive
  <2>15. ASSUME NEW t \in Threads, UserLoggedOut(t) PROVE RegistryTypeOK'
    BY <2>15 DEF UserLoggedOut, RegistryTypeOK, Steps, Goto
  <2>16. ASSUME NEW t \in Threads, UserLogIn(t) PROVE RegistryTypeOK'
    BY <2>16 DEF UserLogIn, RegistryTypeOK, Steps, Goto
  <2>17. ASSUME NEW t \in Threads, Reactivate(t) PROVE RegistryTypeOK'
    BY <2>17 DEF Reactivate, RegistryTypeOK, Steps, Finish, Goto, Revive
  <2>18. ASSUME NEW t \in Threads, NEW o \in Objects, Suspend(t, o) PROVE RegistryTypeOK'
    BY <2>18 DEF Suspend, RegistryTypeOK, Steps, Deactivate, Goto, CanDeactivate
  <2>19. ASSUME NEW t \in Threads, NEW o \in Objects, Resume(t, o) PROVE RegistryTypeOK'
    BY <2>19 DEF Resume, RegistryTypeOK, Steps, Revive
  <2>20. ASSUME NEW o \in Objects, EventLoopDeactivates(o) PROVE RegistryTypeOK'
    BY <2>20 DEF EventLoopDeactivates, RegistryTypeOK, Steps, Deactivate, Goto, CanDeactivate
  <2>22. ASSUME NEW o \in Objects, UserInvalidated(o) PROVE RegistryTypeOK'
    BY <2>22 DEF UserInvalidated, RegistryTypeOK
  <2>21. CASE UNCHANGED registryVars
    BY <2>21 DEF registryVars, RegistryTypeOK
  <2> QED
    BY <2>1, <2>2, <2>3, <2>4, <2>5, <2>6, <2>7, <2>8, <2>9, <2>10, <2>11, <2>12, <2>13, <2>14, <2>15, <2>16, <2>17, <2>18, <2>19, <2>20, <2>21, <2>22
    DEF RegistryNext, GetSession, ReleaseReference, UserCall, UnregisterSession, Aborted
<1> QED
  BY <1>1, <1>2, PTL DEF RegistrySpec

-----------------------------------------------------------------------------
\* RegistryInv is inductive: every step that is not a stray revival keeps what is
\* referenced or at work registered, whatever the user, the application and the
\* event loop do.
LEMMA RegistryInvInductive ==
    RegistryTypeOK /\ RegistryInv /\ [RegistryNext]_registryVars => RegistryInv'
<1> SUFFICES ASSUME RegistryTypeOK, RegistryInv, [RegistryNext]_registryVars, ~stray' PROVE RegistryInv'
  BY DEF RegistryInv
<1> USE NoThreadAssumption DEF NoThread, locks, userMaps, sessions, stack, At
<1>1. ASSUME NEW t \in Threads, GetRegistered(t)
      PROVE  RegistryInv'
  <2>0. ~stray /\ ReferencedOrWorking /\ TailsOfRegistered /\ UnderManagerMutex /\ ~aborted
    BY <1>1 DEF GetRegistered, RegistryInv
  <2>1. ReferencedOrWorking'
    BY <1>1, <2>0 DEF GetRegistered, RegistryTypeOK, Expired, ReferencedOrWorking, TailsOfRegistered, UnderManagerMutex, Goto
  <2>2. TailsOfRegistered'
    BY <1>1, <2>0 DEF GetRegistered, RegistryTypeOK, Expired, ReferencedOrWorking, TailsOfRegistered, UnderManagerMutex, Goto
  <2>3. UnderManagerMutex'
    BY <1>1, <2>0 DEF GetRegistered, RegistryTypeOK, ReferencedOrWorking, TailsOfRegistered, UnderManagerMutex, Goto
  <2>4. ~aborted'
    BY <1>1, <2>0 DEF GetRegistered
  <2> QED
    BY <2>1, <2>2, <2>3, <2>4 DEF RegistryInv
<1>2. ASSUME NEW t \in Threads, GetNew(t)
      PROVE  RegistryInv'
  <2>0. ~stray /\ ReferencedOrWorking /\ TailsOfRegistered /\ UnderManagerMutex /\ ~aborted
    BY <1>2 DEF GetNew, RegistryInv
  <2>1. ReferencedOrWorking'
    BY <1>2, <2>0 DEF GetNew, RegistryTypeOK, Expired, ReferencedOrWorking, TailsOfRegistered, UnderManagerMutex, Goto
  <2>2. TailsOfRegistered'
    BY <1>2, <2>0 DEF GetNew, RegistryTypeOK, Expired, ReferencedOrWorking, TailsOfRegistered, UnderManagerMutex, Goto
  <2>3. UnderManagerMutex'
    BY <1>2, <2>0 DEF GetNew, RegistryTypeOK, ReferencedOrWorking, TailsOfRegistered, UnderManagerMutex, Goto
  <2>4. ~aborted'
    BY <1>2, <2>0 DEF GetNew
  <2> QED
    BY <2>1, <2>2, <2>3, <2>4 DEF RegistryInv
<1>3. ASSUME NEW t \in Threads, RegisterSession(t)
      PROVE  RegistryInv'
  <2>0. ~stray /\ ReferencedOrWorking /\ TailsOfRegistered /\ UnderManagerMutex /\ ~aborted
    BY <1>3 DEF RegisterSession, RegistryInv
  <2>1. ReferencedOrWorking'
    BY <1>3, <2>0 DEF RegisterSession, RegistryTypeOK, Expired, ReferencedOrWorking, TailsOfRegistered, UnderManagerMutex, Goto
  <2>2. TailsOfRegistered'
    BY <1>3, <2>0 DEF RegisterSession, RegistryTypeOK, Expired, ReferencedOrWorking, TailsOfRegistered, UnderManagerMutex, Goto
  <2>3. UnderManagerMutex'
    BY <1>3, <2>0 DEF RegisterSession, RegistryTypeOK, ReferencedOrWorking, TailsOfRegistered, UnderManagerMutex, Goto
  <2>4. ~aborted'
    BY <1>3, <2>0 DEF RegisterSession
  <2> QED
    BY <2>1, <2>2, <2>3, <2>4 DEF RegistryInv
<1>4. ASSUME NEW t \in Threads, ReviveRegistered(t)
      PROVE  RegistryInv'
  <2>0. ~stray /\ ReferencedOrWorking /\ TailsOfRegistered /\ UnderManagerMutex /\ ~aborted
    BY <1>4 DEF ReviveRegistered, RegistryInv, Revive
  <2>1. ReferencedOrWorking'
    BY <1>4, <2>0 DEF ReviveRegistered, RegistryTypeOK, Expired, ReferencedOrWorking, TailsOfRegistered, UnderManagerMutex, Goto, Revive
  <2>2. TailsOfRegistered'
    BY <1>4, <2>0 DEF ReviveRegistered, RegistryTypeOK, Expired, ReferencedOrWorking, TailsOfRegistered, UnderManagerMutex, Goto, Revive, InTail
  <2>3. UnderManagerMutex'
    BY <1>4, <2>0 DEF ReviveRegistered, RegistryTypeOK, ReferencedOrWorking, TailsOfRegistered, UnderManagerMutex, Goto, Revive
  <2>4. ~aborted'
    BY <1>4, <2>0 DEF ReviveRegistered
  <2> QED
    BY <2>1, <2>2, <2>3, <2>4 DEF RegistryInv
<1>5. ASSUME NEW t \in Threads, TakeReference(t)
      PROVE  RegistryInv'
  <2>0. ~stray /\ ReferencedOrWorking /\ TailsOfRegistered /\ UnderManagerMutex /\ ~aborted
    BY <1>5 DEF TakeReference, RegistryInv
  <2>1. ReferencedOrWorking'
    BY <1>5, <2>0 DEF TakeReference, RegistryTypeOK, Expired, ReferencedOrWorking, TailsOfRegistered, UnderManagerMutex, Finish, Goto
  <2>2. TailsOfRegistered'
    BY <1>5, <2>0 DEF TakeReference, RegistryTypeOK, Expired, ReferencedOrWorking, TailsOfRegistered, UnderManagerMutex, Finish, Goto
  <2>3. UnderManagerMutex'
    BY <1>5, <2>0 DEF TakeReference, RegistryTypeOK, ReferencedOrWorking, TailsOfRegistered, UnderManagerMutex, Finish, Goto
  <2>4. ~aborted'
    BY <1>5, <2>0 DEF TakeReference
  <2> QED
    BY <2>1, <2>2, <2>3, <2>4 DEF RegistryInv
<1>6. ASSUME NEW t \in Threads, NEW o \in Objects, DropReference(t, o)
      PROVE  RegistryInv'
  <2>0. ~stray /\ ReferencedOrWorking /\ TailsOfRegistered /\ UnderManagerMutex /\ ~aborted
    BY <1>6 DEF DropReference, RegistryInv
  <2>1. ReferencedOrWorking'
    BY <1>6, <2>0 DEF DropReference, RegistryTypeOK, Expired, ReferencedOrWorking, TailsOfRegistered, UnderManagerMutex, Finish, Goto
  <2>a. /\ \E step \in {"dropped", "idle"} : pc' = [pc EXCEPT ![t] = step]
        /\ \E x \in {o, NoObject} : local' = [local EXCEPT ![t] = x]
        /\ pc'[t] = "dropped" => local'[t] = o
        /\ UNCHANGED <<registry, state, managerMutex>> /\ t \in AllThreads
        /\ pc \in [AllThreads -> Steps] /\ local \in [AllThreads -> Objects \cup {NoObject}]
    BY <1>6 DEF DropReference, Finish, Goto, RegistryTypeOK, registryVars, locks
  <2>b. /\ pc'[t] \in {"dropped", "idle"}
        /\ \A s \in AllThreads : s # t => pc'[s] = pc[s] /\ local'[s] = local[s]
    BY <2>a
  <2>2. TailsOfRegistered'
    BY <2>0, <2>a, <2>b DEF TailsOfRegistered
  <2>3. UnderManagerMutex'
    BY <2>0, <2>a, <2>b DEF UnderManagerMutex
  <2>4. ~aborted'
    BY <1>6, <2>0 DEF DropReference
  <2> QED
    BY <2>1, <2>2, <2>3, <2>4 DEF RegistryInv
<1>7. ASSUME NEW t \in Threads, DidDropReference(t)
      PROVE  RegistryInv'
  <2>0. ~stray /\ ReferencedOrWorking /\ TailsOfRegistered /\ UnderManagerMutex /\ ~aborted
    BY <1>7 DEF DidDropReference, RegistryInv
  <2>1. ReferencedOrWorking'
    BY <1>7, <2>0 DEF DidDropReference, RegistryTypeOK, Expired, ReferencedOrWorking, TailsOfRegistered, UnderManagerMutex, Goto, Close, Deactivate
  <2>2. TailsOfRegistered'
    BY <1>7, <2>0 DEF DidDropReference, RegistryTypeOK, Expired, ReferencedOrWorking, TailsOfRegistered, UnderManagerMutex, Goto, Close, Deactivate
  <2>3. UnderManagerMutex'
    BY <1>7, <2>0 DEF DidDropReference, RegistryTypeOK, ReferencedOrWorking, TailsOfRegistered, UnderManagerMutex, Goto, Close, Deactivate
  <2>4. ~aborted'
    BY <1>7, <2>0 DEF DidDropReference
  <2> QED
    BY <2>1, <2>2, <2>3, <2>4 DEF RegistryInv
<1>8. ASSUME NEW t \in AllThreads, UnregisterMissing(t)
      PROVE  RegistryInv'
  <2>0. ~stray /\ ReferencedOrWorking /\ TailsOfRegistered /\ UnderManagerMutex /\ ~aborted
    BY <1>8 DEF UnregisterMissing, RegistryInv
  <2> QED
    BY <1>8, <2>0 DEF UnregisterMissing, TailsOfRegistered, RegistryTypeOK
<1>9. ASSUME NEW t \in AllThreads, UnregisterReferenced(t)
      PROVE  RegistryInv'
  <2>0. ~stray /\ ReferencedOrWorking /\ TailsOfRegistered /\ UnderManagerMutex /\ ~aborted
    BY <1>9 DEF UnregisterReferenced, RegistryInv
  <2>1. ReferencedOrWorking'
    BY <1>9, <2>0 DEF UnregisterReferenced, RegistryTypeOK, Expired, ReferencedOrWorking, TailsOfRegistered, UnderManagerMutex, Goto
  <2>2. TailsOfRegistered'
    BY <1>9, <2>0 DEF UnregisterReferenced, RegistryTypeOK, Expired, ReferencedOrWorking, TailsOfRegistered, UnderManagerMutex, Goto
  <2>3. UnderManagerMutex'
    BY <1>9, <2>0 DEF UnregisterReferenced, RegistryTypeOK, ReferencedOrWorking, TailsOfRegistered, UnderManagerMutex, Goto
  <2>4. ~aborted'
    BY <1>9, <2>0 DEF UnregisterReferenced
  <2> QED
    BY <2>1, <2>2, <2>3, <2>4 DEF RegistryInv
<1>10. ASSUME NEW t \in AllThreads, Unregister(t)
      PROVE  RegistryInv'
  <2>0. ~stray /\ ReferencedOrWorking /\ TailsOfRegistered /\ UnderManagerMutex /\ ~aborted
    BY <1>10 DEF Unregister, RegistryInv
  <2>1. ReferencedOrWorking'
    BY SMTT(30), <1>10, <2>0 DEF Unregister, RegistryTypeOK, Expired, ReferencedOrWorking, TailsOfRegistered, UnderManagerMutex, Goto, KeepsEntry
  <2>2. TailsOfRegistered'
    BY <1>10, <2>0 DEF Unregister, RegistryTypeOK, Expired, ReferencedOrWorking, TailsOfRegistered, UnderManagerMutex, Goto, KeepsEntry
  <2>3. UnderManagerMutex'
    BY <1>10, <2>0 DEF Unregister, RegistryTypeOK, ReferencedOrWorking, TailsOfRegistered, UnderManagerMutex, Goto, KeepsEntry
  <2>4. ~aborted'
    BY <1>10, <2>0 DEF Unregister
  <2> QED
    BY <2>1, <2>2, <2>3, <2>4 DEF RegistryInv
<1>11. ASSUME NEW t \in AllThreads, DropTemporary(t)
      PROVE  RegistryInv'
  <2>0. ~stray /\ ReferencedOrWorking /\ TailsOfRegistered /\ UnderManagerMutex /\ ~aborted
    BY <1>11 DEF DropTemporary, RegistryInv
  <2>1. ReferencedOrWorking'
    BY <1>11, <2>0 DEF DropTemporary, RegistryTypeOK, Expired, ReferencedOrWorking, TailsOfRegistered, UnderManagerMutex, Goto
  <2>2. TailsOfRegistered'
    BY <1>11, <2>0 DEF DropTemporary, RegistryTypeOK, Expired, ReferencedOrWorking, TailsOfRegistered, UnderManagerMutex, Goto
  <2>3. UnderManagerMutex'
    BY <1>11, <2>0 DEF DropTemporary, RegistryTypeOK, ReferencedOrWorking, TailsOfRegistered, UnderManagerMutex, Goto
  <2>4. ~aborted'
    BY <1>11, <2>0 DEF DropTemporary
  <2> QED
    BY <2>1, <2>2, <2>3, <2>4 DEF RegistryInv
<1>12. ASSUME NEW t \in AllThreads, DidDropTemporary(t)
      PROVE  RegistryInv'
  <2>0. ~stray /\ ReferencedOrWorking /\ TailsOfRegistered /\ UnderManagerMutex /\ ~aborted
    BY <1>12 DEF DidDropTemporary, RegistryInv
  <2>1. ReferencedOrWorking'
    BY <1>12, <2>0 DEF DidDropTemporary, RegistryTypeOK, Expired, ReferencedOrWorking, TailsOfRegistered, UnderManagerMutex, Goto, Close, Deactivate
  <2>2. TailsOfRegistered'
    BY <1>12, <2>0 DEF DidDropTemporary, RegistryTypeOK, Expired, ReferencedOrWorking, TailsOfRegistered, UnderManagerMutex, Goto, Close, Deactivate
  <2>3. UnderManagerMutex'
    BY <1>12, <2>0 DEF DidDropTemporary, RegistryTypeOK, ReferencedOrWorking, TailsOfRegistered, UnderManagerMutex, Goto, Close, Deactivate
  <2>4. ~aborted'
    BY <1>12, <2>0 DEF DidDropTemporary
  <2> QED
    BY <2>1, <2>2, <2>3, <2>4 DEF RegistryInv
<1>13. ASSUME NEW t \in AllThreads, TailEnd(t)
      PROVE  RegistryInv'
  <2>0. ~stray /\ ReferencedOrWorking /\ TailsOfRegistered /\ UnderManagerMutex /\ ~aborted
    BY <1>13 DEF TailEnd, RegistryInv
  <2>1. ReferencedOrWorking'
    BY <1>13, <2>0 DEF TailEnd, RegistryTypeOK, Expired, ReferencedOrWorking, TailsOfRegistered, UnderManagerMutex, Finish, Goto
  <2>2. TailsOfRegistered'
    BY <1>13, <2>0 DEF TailEnd, RegistryTypeOK, Expired, ReferencedOrWorking, TailsOfRegistered, UnderManagerMutex, Finish, Goto
  <2>3. UnderManagerMutex'
    BY <1>13, <2>0 DEF TailEnd, RegistryTypeOK, ReferencedOrWorking, TailsOfRegistered, UnderManagerMutex, Finish, Goto
  <2>4. ~aborted'
    BY <1>13, <2>0 DEF TailEnd
  <2> QED
    BY <2>1, <2>2, <2>3, <2>4 DEF RegistryInv
<1>14. ASSUME NEW t \in Threads, UserLogOut(t)
      PROVE  RegistryInv'
  <2>0. ~stray /\ ReferencedOrWorking /\ TailsOfRegistered /\ UnderManagerMutex /\ ~aborted
    BY <1>14 DEF UserLogOut, RegistryInv
  <2>1. CASE Alive(userSession) /\ CanDeactivate(userSession)
    <3>1. userSession \in Objects /\ state[userSession] # "inactive"
      BY <2>1 DEF Alive, CanDeactivate, RegistryTypeOK
    <3>2. Deactivate(t, userSession, "loggedOut")
      BY <1>14, <2>1 DEF UserLogOut
    <3>3. UNCHANGED <<registry, managerMutex, refs, temp, aborted>>
      BY <1>14 DEF UserLogOut
    <3>4. ReferencedOrWorking' /\ UnderManagerMutex' /\ ~aborted'
      BY <1>14, <2>0, <3>1, <3>2, <3>3
      DEF UserLogOut, RegistryTypeOK, Deactivate, Goto, Expired, ReferencedOrWorking, UnderManagerMutex
    <3>5. TailsOfRegistered'
      BY <2>0, <3>1, <3>2, <3>3
      DEF RegistryTypeOK, Deactivate, Goto, ReferencedOrWorking, TailsOfRegistered
    <3> QED
      BY <3>4, <3>5 DEF RegistryInv
  <2>2. CASE ~(Alive(userSession) /\ CanDeactivate(userSession))
    <3>1. /\ pc[t] = "idle" /\ pc' = [pc EXCEPT ![t] = "loggedOut"]
          /\ \E x : local' = [local EXCEPT ![t] = x]
          /\ UNCHANGED <<registry, managerMutex, state, refs, temp, aborted>>
      BY <1>14, <2>2 DEF UserLogOut, Goto
    <3> QED
      BY <2>0, <3>1 DEF RegistryTypeOK, Expired, RegistryInv, ReferencedOrWorking, TailsOfRegistered, UnderManagerMutex
  <2> QED
    BY <2>1, <2>2
<1>15. ASSUME NEW t \in Threads, UserLoggedOut(t)
      PROVE  RegistryInv'
  <2>0. ~stray /\ ReferencedOrWorking /\ TailsOfRegistered /\ UnderManagerMutex /\ ~aborted
    BY <1>15 DEF UserLoggedOut, RegistryInv
  <2>1. ReferencedOrWorking'
    BY <1>15, <2>0 DEF UserLoggedOut, RegistryTypeOK, Expired, ReferencedOrWorking, TailsOfRegistered, UnderManagerMutex, Goto
  <2>2. TailsOfRegistered'
    BY <1>15, <2>0 DEF UserLoggedOut, RegistryTypeOK, Expired, ReferencedOrWorking, TailsOfRegistered, UnderManagerMutex, Goto
  <2>3. UnderManagerMutex'
    BY <1>15, <2>0 DEF UserLoggedOut, RegistryTypeOK, ReferencedOrWorking, TailsOfRegistered, UnderManagerMutex, Goto
  <2>4. ~aborted'
    BY <1>15, <2>0 DEF UserLoggedOut
  <2> QED
    BY <2>1, <2>2, <2>3, <2>4 DEF RegistryInv
<1>16. ASSUME NEW t \in Threads, UserLogIn(t)
      PROVE  RegistryInv'
  <2>0. ~stray /\ ReferencedOrWorking /\ TailsOfRegistered /\ UnderManagerMutex /\ ~aborted
    BY <1>16 DEF UserLogIn, RegistryInv
  <2>1. CASE Alive(waitingSession)
    <3>1. waitingSession \in Objects
      BY <2>1 DEF Alive, RegistryTypeOK
    <3>2. /\ pc[t] = "idle" /\ pc' = [pc EXCEPT ![t] = "reactivate"]
          /\ local' = [local EXCEPT ![t] = waitingSession]
          /\ UNCHANGED <<registry, managerMutex, state, refs, temp, aborted>>
      BY <1>16, <2>1 DEF UserLogIn, Goto
    <3> QED
      BY <2>0, <3>1, <3>2
      DEF RegistryTypeOK, Expired, RegistryInv, ReferencedOrWorking, TailsOfRegistered, UnderManagerMutex
  <2>2. CASE ~Alive(waitingSession)
    <3>1. UNCHANGED <<registry, managerMutex, state, refs, temp, aborted, pc, local>>
      BY <1>16, <2>2 DEF UserLogIn
    <3> QED
      BY <2>0, <3>1
      DEF Expired, RegistryInv, ReferencedOrWorking, TailsOfRegistered, UnderManagerMutex
  <2> QED
    BY <2>1, <2>2
<1>17. ASSUME NEW t \in Threads, Reactivate(t)
      PROVE  RegistryInv'
  <2>0. ~stray /\ ReferencedOrWorking /\ TailsOfRegistered /\ UnderManagerMutex /\ ~aborted
    BY <1>17 DEF Reactivate, RegistryInv, Revive
  <2>1. ReferencedOrWorking'
    BY <1>17, <2>0 DEF Reactivate, RegistryTypeOK, Expired, ReferencedOrWorking, TailsOfRegistered, UnderManagerMutex, Finish, Goto, Revive
  <2>2. TailsOfRegistered'
    BY <1>17, <2>0 DEF Reactivate, RegistryTypeOK, Expired, ReferencedOrWorking, TailsOfRegistered, UnderManagerMutex, Finish, Goto, Revive, InTail
  <2>3. UnderManagerMutex'
    BY <1>17, <2>0 DEF Reactivate, RegistryTypeOK, ReferencedOrWorking, TailsOfRegistered, UnderManagerMutex, Finish, Goto, Revive
  <2>4. ~aborted'
    BY <1>17, <2>0 DEF Reactivate
  <2> QED
    BY <2>1, <2>2, <2>3, <2>4 DEF RegistryInv
<1>18. ASSUME NEW t \in Threads, NEW o \in Objects, Suspend(t, o)
      PROVE  RegistryInv'
  <2>0. ~stray /\ ReferencedOrWorking /\ TailsOfRegistered /\ UnderManagerMutex /\ ~aborted
    BY <1>18 DEF Suspend, RegistryInv
  <2>1. ReferencedOrWorking'
    BY <1>18, <2>0 DEF Suspend, RegistryTypeOK, Expired, ReferencedOrWorking, TailsOfRegistered, UnderManagerMutex, Deactivate, Goto, CanDeactivate
  <2>2. TailsOfRegistered'
    BY <1>18, <2>0 DEF Suspend, RegistryTypeOK, Expired, ReferencedOrWorking, TailsOfRegistered, UnderManagerMutex, Deactivate, Goto, CanDeactivate
  <2>3. UnderManagerMutex'
    BY <1>18, <2>0 DEF Suspend, RegistryTypeOK, ReferencedOrWorking, TailsOfRegistered, UnderManagerMutex, Deactivate, Goto, CanDeactivate
  <2>4. ~aborted'
    BY <1>18, <2>0 DEF Suspend
  <2> QED
    BY <2>1, <2>2, <2>3, <2>4 DEF RegistryInv
<1>19. ASSUME NEW t \in Threads, NEW o \in Objects, Resume(t, o)
      PROVE  RegistryInv'
  <2>0. ~stray /\ ReferencedOrWorking /\ TailsOfRegistered /\ UnderManagerMutex /\ ~aborted
    BY <1>19 DEF Resume, RegistryInv, Revive
  <2>1. ReferencedOrWorking'
    BY <1>19, <2>0 DEF Resume, RegistryTypeOK, Expired, ReferencedOrWorking, TailsOfRegistered, UnderManagerMutex, Revive
  <2>2. TailsOfRegistered'
    BY <1>19, <2>0 DEF Resume, RegistryTypeOK, Expired, ReferencedOrWorking, TailsOfRegistered, UnderManagerMutex, Revive, InTail
  <2>3. UnderManagerMutex'
    BY <1>19, <2>0 DEF Resume, RegistryTypeOK, ReferencedOrWorking, TailsOfRegistered, UnderManagerMutex, Revive
  <2>4. ~aborted'
    BY <1>19, <2>0 DEF Resume
  <2> QED
    BY <2>1, <2>2, <2>3, <2>4 DEF RegistryInv
<1>20. ASSUME NEW o \in Objects, EventLoopDeactivates(o)
      PROVE  RegistryInv'
  <2>0. ~stray /\ ReferencedOrWorking /\ TailsOfRegistered /\ UnderManagerMutex /\ ~aborted
    BY <1>20 DEF EventLoopDeactivates, RegistryInv
  <2>1. ReferencedOrWorking'
    BY <1>20, <2>0 DEF EventLoopDeactivates, RegistryTypeOK, Expired, ReferencedOrWorking, TailsOfRegistered, UnderManagerMutex, Deactivate, Goto, CanDeactivate
  <2>2. TailsOfRegistered'
    BY <1>20, <2>0 DEF EventLoopDeactivates, RegistryTypeOK, Expired, ReferencedOrWorking, TailsOfRegistered, UnderManagerMutex, Deactivate, Goto, CanDeactivate
  <2>3. UnderManagerMutex'
    BY <1>20, <2>0 DEF EventLoopDeactivates, RegistryTypeOK, ReferencedOrWorking, TailsOfRegistered, UnderManagerMutex, Deactivate, Goto, CanDeactivate
  <2>4. ~aborted'
    BY <1>20, <2>0 DEF EventLoopDeactivates
  <2> QED
    BY <2>1, <2>2, <2>3, <2>4 DEF RegistryInv
<1>22. ASSUME NEW o \in Objects, UserInvalidated(o)
      PROVE  RegistryInv'
  BY <1>22 DEF UserInvalidated, sessions, stack, locks, RegistryInv, ReferencedOrWorking, TailsOfRegistered, UnderManagerMutex, Expired
<1>21. CASE UNCHANGED registryVars
  BY <1>21 DEF registryVars, RegistryInv, ReferencedOrWorking, TailsOfRegistered, UnderManagerMutex, Expired
<1> QED
  BY <1>1, <1>2, <1>3, <1>4, <1>5, <1>6, <1>7, <1>8, <1>9, <1>10, <1>11, <1>12, <1>13, <1>14, <1>15, <1>16, <1>17, <1>18, <1>19, <1>20, <1>21, <1>22
  DEF RegistryNext, GetSession, ReleaseReference, UserCall, UnregisterSession, Aborted

\* The invariant holds in every reachable state.
LEMMA RegistryInvHolds == RegistrySpec => []RegistryInv
<1>1. RegistryInit => RegistryInv
  BY DEF RegistryInit, RegistryInv, ReferencedOrWorking, TailsOfRegistered, UnderManagerMutex, Expired
<1> QED
  BY <1>1, RegistryInvInductive, RegistryTypeCorrect, PTL DEF RegistrySpec

\* At most one SyncSession of a path is at work, and it is the one SyncManager
\* hands out.
THEOREM OneSession == RegistrySpec => []OneSessionPerPath
<1>1. RegistryInv => OneSessionPerPath
  BY DEF RegistryInv, ReferencedOrWorking, OneSessionPerPath
<1> QED
  BY <1>1, RegistryInvHolds, PTL

\* A SyncSession somebody holds an external reference to stays registered.
THEOREM ReferencedStayRegistered == RegistrySpec => []ReferencedIsRegistered
<1>1. RegistryInv => ReferencedIsRegistered
  BY DEF RegistryInv, ReferencedOrWorking, ReferencedIsRegistered, Expired
<1> QED
  BY <1>1, RegistryInvHolds, PTL

\* unregister_session finds an entry for its path.
THEOREM EntryFound == RegistrySpec => []UnregisterFindsEntry
<1>1. RegistryInv => UnregisterFindsEntry
  BY DEF RegistryInv, UnregisterFindsEntry
<1> QED
  BY <1>1, RegistryInvHolds, PTL

HIDE ObjectsAssumption DEF Objects, NoObject, AllThreads

-----------------------------------------------------------------------------
(***************************************************************************)
(* Users and file actions on disk.                                         *)
(***************************************************************************)
USE OwnerAssumption, BoundsAssumption

-----------------------------------------------------------------------------
(* Types, in four parts: numbers of files, actions, runs of actions, users. *)

FilesType ==
    /\ files \in 0 .. MaxFiles /\ errors \in 0 .. MaxErrors /\ crashes \in 0 .. MaxCrashes
    /\ file \in [Paths -> 0 .. files] /\ copy \in [Names -> 0 .. files]
    /\ failed \subseteq 1 .. files /\ wanted \subseteq Paths \X (1 .. files)
    /\ reopened \subseteq 1 .. files /\ crossed \subseteq 1 .. files

ActionsType ==
    /\ action \in [Paths -> Actions] /\ whole \subseteq Names /\ spent \subseteq Paths
    /\ phase \in {"down", "actions", "erase", "remove", "up"}
    /\ todo \subseteq Paths /\ done \subseteq Paths

\* A thread has one run, and whoever copies a file runs a back up.
RunType(r) ==
    /\ r \in Runs /\ r.action.kind # "none"
    /\ r.stage \notin {"read", "ran"} => r.action.kind = "backup"

RunsType ==
    /\ \A r \in runs : RunType(r)
    /\ \A r, s \in runs : r.by = s.by => r = s

UsersType ==
    /\ row \in [Users -> {"absent", "blank", "live", "marked"}]
    /\ user \in [Users -> {"none", "active", "out"}]
    /\ inside \in [Users -> {"nobody", "login", "logout"}]
    /\ last \in [Users -> {"none", "login", "logout"}]
    /\ admin \subseteq Users /\ dead \subseteq Users /\ revived \subseteq Users

TypeInv == FilesType /\ ActionsType /\ RunsType /\ UsersType

LEMMA TypeParts == TypeInv => TypeOK
  BY DEF TypeInv, TypeOK, FilesType, ActionsType, RunsType, RunType, UsersType

\* What the fields of an action can be.
LEMMA ActionFields ==
  ASSUME NEW a \in Actions
  PROVE  /\ a.kind \in {"none", "delete", "backup"}
         /\ a.kind = "none" <=> a = NoAction
         /\ a.kind = "backup" => a.name \in Names
  BY DEF Actions, NoAction, Names

LEMMA NoActionType == NoAction \in Actions
  BY DEF Actions

\* What the fields of a run can be.
LEMMA RunFields ==
  ASSUME NEW r, RunType(r)
  PROVE  /\ r.by \in Runners /\ r.path \in Paths /\ r.action \in Actions
         /\ r.attached \in BOOLEAN /\ r.origin \in 0 .. files
         /\ r.stage \in {"read", "checked", "opened", "copying", "copied", "ran"}
         /\ r.action.kind = "backup" => r.action.name \in Names
<1>1. /\ r.by \in Runners /\ r.path \in Paths /\ r.action \in Actions
      /\ r.attached \in BOOLEAN /\ r.origin \in 0 .. files
      /\ r.stage \in {"read", "checked", "opened", "copying", "copied", "ran"}
  BY DEF RunType, Runs
<1> QED
  BY <1>1, ActionFields

\* n is the run r, further on.
Follows(n, r) ==
    /\ RunType(n) /\ n.by = r.by /\ n.path = r.path /\ n.action = r.action

LEMMA StageSet ==
  ASSUME NEW r, RunType(r),
         NEW stage \in {"read", "checked", "opened", "copying", "copied", "ran"},
         stage \notin {"read", "ran"} => r.action.kind = "backup"
  PROVE  LET n == [r EXCEPT !.stage = stage] IN
           Follows(n, r) /\ n.origin = r.origin /\ n.stage = stage
  BY DEF Follows, RunType, Runs

LEMMA OriginSet ==
  ASSUME NEW r, RunType(r), r.action.kind = "backup", NEW f \in 0 .. files
  PROVE  LET n == [r EXCEPT !.stage = "opened", !.origin = f] IN
           Follows(n, r) /\ n.origin = f /\ n.stage = "opened"
  BY DEF Follows, RunType, Runs

\* A run that lost its row, or kept it.
LEMMA DetachedRun ==
  ASSUME NEW r, RunType(r), NEW p
  PROVE  LET n == [r EXCEPT !.attached = r.attached /\ r.path # p] IN
           Follows(n, r) /\ n.origin = r.origin /\ n.stage = r.stage
<1>1. (r.attached /\ r.path # p) \in BOOLEAN
  OBVIOUS
<1> QED
  BY <1>1 DEF Follows, RunType, Runs

\* The run goes on as n, or is over.
MovesTo(r, n) == Follows(n, r) /\ runs' \subseteq (runs \ {r}) \cup {n}

LEMMA OverEffect ==
  ASSUME RunsType, NEW r \in runs, NEW success \in BOOLEAN, Over(r, success)
  PROVE  /\ phase' = phase /\ dead' = dead /\ todo' \subseteq todo
         /\ done' \subseteq done \cup {r.path}
         /\ done' \subseteq done \/ (success /\ phase = "actions")
         /\ \E n : MovesTo(r, n) /\ n.stage = "ran" /\ (success \/ runs' = runs \ {r})
<1>1. LET n == [r EXCEPT !.stage = "ran"] IN Follows(n, r) /\ n.stage = "ran"
  BY StageSet DEF RunsType
<1>2. \/ runs' = (runs \ {r}) \cup {[r EXCEPT !.stage = "ran"]} /\ success
      \/ runs' = runs \ {r}
  BY DEF Over, Becomes, Ends
<1>3. \E n : MovesTo(r, n) /\ n.stage = "ran" /\ (success \/ runs' = runs \ {r})
  BY <1>1, <1>2 DEF MovesTo
<1> QED
  BY <1>3 DEF Over

LEMMA GoesOnEffect ==
  ASSUME RunsType, NEW r \in runs, r.action.kind = "backup",
         NEW stage \in {"checked", "copying", "copied"}, GoesOn(r, stage)
  PROVE  UNCHANGED pass /\ \E n : MovesTo(r, n) /\ n.origin = r.origin /\ n.stage = stage
<1>1. LET n == [r EXCEPT !.stage = stage] IN
        Follows(n, r) /\ n.origin = r.origin /\ n.stage = stage
  <2>1. /\ RunType(r)
        /\ stage \in {"read", "checked", "opened", "copying", "copied", "ran"}
    BY DEF RunsType
  <2> QED
    BY <2>1, StageSet
<1> QED
  BY <1>1 DEF GoesOn, Becomes, MovesTo

\* Where the row of p is removed.
LEMMA DetachedEffect ==
  ASSUME RunsType, NEW r \in runs, NEW p, runs' = Detached(runs \ {r}, p)
  PROVE  \A s \in runs' : \E t \in runs \ {r} :
           Follows(s, t) /\ s.origin = t.origin /\ s.stage = t.stage
<1> SUFFICES ASSUME NEW s \in runs'
             PROVE  \E t \in runs \ {r} : Follows(s, t) /\ s.origin = t.origin /\ s.stage = t.stage
  OBVIOUS
<1>1. PICK t \in runs \ {r} : s = [t EXCEPT !.attached = t.attached /\ t.path # p]
  BY DEF Detached
<1> QED
  BY <1>1, DetachedRun DEF RunsType

LEMMA TypeInit == Init => TypeInv
<1> SUFFICES ASSUME Init PROVE TypeInv
  OBVIOUS
<1>1. FilesType
  BY DEF Init, FilesType
<1>2. ActionsType
  BY NoActionType DEF Init, ActionsType
<1>3. UsersType
  BY DEF Init, UsersType
<1>4. RunsType
  BY DEF Init, RunsType
<1> QED
  BY <1>1, <1>2, <1>3, <1>4 DEF TypeInv

\* The Realm of a run is deleted, or a part of it was and an error is thrown.
LEMMA RemoveTypes ==
  ASSUME FilesType, ActionsType, NEW r, RunType(r), Remove(r)
  PROVE  /\ file' = [file EXCEPT ![r.path] = 0] /\ file' \in [Paths -> 0 .. files]
         /\ spent \subseteq spent' /\ spent' \subseteq spent \cup {r.path}
         /\ crossed \subseteq crossed' /\ crossed' \subseteq 1 .. files
<1>1. file[r.path] \in 0 .. files /\ 0 \in 0 .. files /\ r.path \in Paths
  BY RunFields DEF FilesType
<1>2. file' = [file EXCEPT ![r.path] = 0] /\ file' \in [Paths -> 0 .. files]
  BY <1>1 DEF Remove, FilesType
<1>3. spent \subseteq spent' /\ spent' \subseteq spent \cup {r.path}
  BY DEF Remove
<1>4. crossed \subseteq crossed' /\ crossed' \subseteq crossed \cup ({file[r.path]} \ {0})
  BY DEF Remove
<1>5. {file[r.path]} \ {0} \subseteq 1 .. files /\ crossed \subseteq 1 .. files
  BY <1>1 DEF FilesType
<1> QED
  BY <1>2, <1>3, <1>4, <1>5

LEMMA FilesNext == FilesType /\ ActionsType /\ RunsType /\ [Next]_vars => FilesType'
<1> SUFFICES ASSUME FilesType, ActionsType, RunsType, [Next]_vars PROVE FilesType'
  OBVIOUS
<1> USE DEF disk, pass, users, errs, history
<1>1. ASSUME Crash PROVE FilesType'
  BY <1>1 DEF Crash, FilesType
<1>2. ASSUME Configure PROVE FilesType'
  BY <1>2 DEF Configure, Pending, FilesType
<1>3. ASSUME ActionsOver PROVE FilesType'
  BY <1>3 DEF ActionsOver, FilesType
<1>4. ASSUME Erased PROVE FilesType'
  BY <1>4 DEF Erased, FilesType
<1>5. ASSUME AddUsers PROVE FilesType'
  BY <1>5 DEF AddUsers, FilesType
<1>6. ASSUME NEW r \in runs, RunDelete(r) PROVE FilesType'
  BY <1>6, RemoveTypes DEF RunDelete, Delete, FilesType, RunsType
<1>7. ASSUME NEW r \in runs, RunBackUp(r) PROVE FilesType'
  BY <1>7 DEF RunBackUp, GoesOn, Over, Becomes, Ends, FilesType
<1>8. ASSUME NEW r \in runs, OpenOriginal(r) PROVE FilesType'
  BY <1>8 DEF OpenOriginal, GivesUp, Over, Becomes, Ends, FilesType
<1>9. ASSUME NEW r \in runs, CreateCopy(r) PROVE FilesType'
  <2>1. r.origin \in 0 .. files /\ r.action.name \in Names
    BY <1>9, RunFields DEF CreateCopy, RunsType, RunType
  <2>2. copy[r.action.name] \in 0 .. files
    BY <2>1 DEF FilesType
  <2>3. /\ copy' = copy \/ copy' = [copy EXCEPT ![r.action.name] = r.origin]
        /\ crossed' = crossed \/ crossed' = crossed \cup ({copy[r.action.name]} \ {0})
        /\ UNCHANGED <<files, errors, crashes, file, failed, wanted, reopened>>
    BY <1>9 DEF CreateCopy
  <2>4. copy' \in [Names -> 0 .. files]
    BY <2>1, <2>3 DEF FilesType
  <2>5. {copy[r.action.name]} \ {0} \subseteq 1 .. files /\ crossed \subseteq 1 .. files
    BY <2>2 DEF FilesType
  <2> QED
    BY <2>3, <2>4, <2>5 DEF FilesType
<1>10. ASSUME NEW r \in runs, Copied(r) PROVE FilesType'
  BY <1>10 DEF Copied, GoesOn, GivesUp, Over, Becomes, Ends, FilesType
<1>11. ASSUME NEW r \in runs, DeleteOriginal(r) PROVE FilesType'
  BY <1>11, RemoveTypes DEF DeleteOriginal, Delete, FilesType, RunsType
<1>12. ASSUME NEW r \in runs, ForgetNow(r) PROVE FilesType'
  BY <1>12 DEF ForgetNow, Forget, Pending, Ends, FilesType
<1>13. ASSUME NEW t \in Runners, NEW p \in Paths, ReadAction(t, p) PROVE FilesType'
  BY <1>13 DEF ReadAction, FilesType
<1>14. ASSUME NEW p \in Paths, ForgetOne(p) PROVE FilesType'
  BY <1>14 DEF ForgetOne, Forget, FilesType
<1>15. ASSUME NEW p \in Paths, OpenRealm(p) PROVE FilesType'
  <2>1. /\ files \in Nat /\ file \in [Paths -> 0 .. files] /\ copy \in [Names -> 0 .. files]
        /\ failed \subseteq 1 .. files /\ wanted \subseteq Paths \X (1 .. files)
        /\ reopened \subseteq 1 .. files /\ crossed \subseteq 1 .. files
    BY DEF FilesType
  <2>2. files' = files + 1 /\ files' \in 0 .. MaxFiles
    BY <1>15, <2>1 DEF OpenRealm, FilesType
  <2>3. /\ 0 .. files \subseteq 0 .. files' /\ 1 .. files \subseteq 1 .. files'
        /\ files' \in 0 .. files' /\ files' \in 1 .. files'
    BY <2>1, <2>2
  <2>4. /\ file' = [file EXCEPT ![p] = files'] /\ copy' = copy /\ failed' = failed
        /\ wanted' = wanted /\ errors' = errors /\ crashes' = crashes /\ crossed' = crossed
        /\ reopened' \subseteq reopened \cup {files'}
    BY <1>15 DEF OpenRealm
  <2>5. file' \in [Paths -> 0 .. files'] /\ copy' \in [Names -> 0 .. files']
    BY <2>1, <2>3, <2>4
  <2>6. failed' \subseteq 1 .. files' /\ wanted' \subseteq Paths \X (1 .. files')
    BY <2>1, <2>3, <2>4
  <2>7. reopened' \subseteq 1 .. files' /\ crossed' \subseteq 1 .. files'
    BY <2>1, <2>3, <2>4
  <2> QED
    BY <2>2, <2>4, <2>5, <2>6, <2>7 DEF FilesType
<1>16. ASSUME NEW p \in Paths, NEW kind \in {"delete", "backup"}, MarkFile(p, kind) PROVE FilesType'
  <2>1. /\ errors' = errors + 1 /\ errors < MaxErrors /\ file[p] # 0
        /\ failed' = failed \cup {file[p]}
        /\ UNCHANGED <<file, copy, files, crashes, reopened, crossed>>
        /\ wanted' \subseteq wanted \cup {<<p, file[p]>>}
    BY <1>16 DEF MarkFile
  <2>2. file[p] \in 1 .. files /\ errors' \in 0 .. MaxErrors
    BY <2>1 DEF FilesType
  <2>3. failed' \subseteq 1 .. files
    BY <2>1, <2>2 DEF FilesType
  <2>4. wanted' \subseteq Paths \X (1 .. files)
    BY <2>1, <2>2 DEF FilesType
  <2> QED
    BY <2>1, <2>2, <2>3, <2>4 DEF FilesType
<1>17. ASSUME NEW u \in Users, EraseUser(u) PROVE FilesType'
  BY <1>17 DEF EraseUser, ToErase, Pending, FilesType
<1>18. ASSUME NEW u \in Users, RemoveUser(u) PROVE FilesType'
  BY <1>18 DEF RemoveUser, FilesType
<1>19. ASSUME NEW u \in Users, LogIn(u) PROVE FilesType'
  BY <1>19 DEF LogIn, Made, FilesType
<1>20. ASSUME NEW u \in Users, LoggedIn(u) PROVE FilesType'
  BY <1>20 DEF LoggedIn, TokenSet, FilesType
<1>21. ASSUME NEW u \in Users, SetIsAdmin(u) PROVE FilesType'
  BY <1>21 DEF SetIsAdmin, Made, FilesType
<1>22. ASSUME NEW u \in Users, LogOut(u) PROVE FilesType'
  BY <1>22 DEF LogOut, FilesType
<1>23. ASSUME NEW u \in Users, LoggedOut(u) PROVE FilesType'
  BY <1>23 DEF LoggedOut, Mark, FilesType
<1>24. ASSUME UNCHANGED vars PROVE FilesType'
  BY <1>24 DEF vars, FilesType
<1> QED
  BY <1>1, <1>2, <1>3, <1>4, <1>5, <1>6, <1>7, <1>8, <1>9, <1>10, <1>11, <1>12, <1>13, <1>14, <1>15, <1>16, <1>17, <1>18, <1>19, <1>20, <1>21, <1>22, <1>23, <1>24 DEF Next, RunAction, UserStep

LEMMA ActionsNext == FilesType /\ ActionsType /\ RunsType /\ [Next]_vars => ActionsType'
<1> SUFFICES ASSUME FilesType, ActionsType, RunsType, [Next]_vars PROVE ActionsType'
  OBVIOUS
<1>a. \A r \in runs : r.path \in Paths /\ (r.action.kind = "backup" => r.action.name \in Names)
  BY RunFields DEF RunsType
<1> USE DEF disk, pass, users, errs, history
<1>1. ASSUME Crash PROVE ActionsType'
  BY NoActionType, <1>a, <1>1 DEF Crash, ActionsType
<1>2. ASSUME Configure PROVE ActionsType'
  BY NoActionType, <1>a, <1>2 DEF Configure, Pending, ActionsType
<1>3. ASSUME ActionsOver PROVE ActionsType'
  BY NoActionType, <1>a, <1>3 DEF ActionsOver, ActionsType
<1>4. ASSUME Erased PROVE ActionsType'
  BY NoActionType, <1>a, <1>4 DEF Erased, ActionsType
<1>5. ASSUME AddUsers PROVE ActionsType'
  BY NoActionType, <1>a, <1>5 DEF AddUsers, ActionsType
<1>6. ASSUME NEW r \in runs, RunDelete(r) PROVE ActionsType'
  BY NoActionType, <1>a, <1>6 DEF RunDelete, Delete, Remove, Over, Thrown, Becomes, Ends, ActionsType
<1>7. ASSUME NEW r \in runs, RunBackUp(r) PROVE ActionsType'
  BY NoActionType, <1>a, <1>7 DEF RunBackUp, GoesOn, Over, Becomes, Ends, ActionsType
<1>8. ASSUME NEW r \in runs, OpenOriginal(r) PROVE ActionsType'
  BY NoActionType, <1>a, <1>8 DEF OpenOriginal, GivesUp, Over, Becomes, Ends, ActionsType
<1>9. ASSUME NEW r \in runs, CreateCopy(r) PROVE ActionsType'
  BY NoActionType, <1>a, <1>9 DEF CreateCopy, GoesOn, GivesUp, Over, Becomes, Ends, ActionsType
<1>10. ASSUME NEW r \in runs, Copied(r) PROVE ActionsType'
  <2>1. r.action.name \in Names
    BY <1>10, <1>a DEF Copied, RunsType, RunType
  <2> QED
    BY <1>10, <1>a, <2>1 DEF Copied, GoesOn, GivesUp, Over, ActionsType
<1>11. ASSUME NEW r \in runs, DeleteOriginal(r) PROVE ActionsType'
  BY NoActionType, <1>a, <1>11 DEF DeleteOriginal, Delete, Remove, Over, Thrown, Becomes, Ends, ActionsType
<1>12. ASSUME NEW r \in runs, ForgetNow(r) PROVE ActionsType'
  BY NoActionType, <1>a, <1>12 DEF ForgetNow, Forget, Pending, Ends, ActionsType
<1>13. ASSUME NEW t \in Runners, NEW p \in Paths, ReadAction(t, p) PROVE ActionsType'
  BY NoActionType, <1>a, <1>13 DEF ReadAction, ActionsType
<1>14. ASSUME NEW p \in Paths, ForgetOne(p) PROVE ActionsType'
  BY NoActionType, <1>a, <1>14 DEF ForgetOne, Forget, ActionsType
<1>15. ASSUME NEW p \in Paths, OpenRealm(p) PROVE ActionsType'
  BY NoActionType, <1>a, <1>15 DEF OpenRealm, ActionsType
<1>16. ASSUME NEW p \in Paths, NEW kind \in {"delete", "backup"}, MarkFile(p, kind) PROVE ActionsType'
  <2>1. errors' \in Names /\ [kind |-> kind, name |-> NameFor(kind, errors')] \in Actions
    BY <1>16 DEF MarkFile, FilesType, Names, NameFor, Actions
  <2> QED
    BY <1>16, <2>1 DEF MarkFile, ActionsType
<1>17. ASSUME NEW u \in Users, EraseUser(u) PROVE ActionsType'
  BY NoActionType, <1>a, <1>17 DEF EraseUser, ToErase, Pending, ActionsType
<1>18. ASSUME NEW u \in Users, RemoveUser(u) PROVE ActionsType'
  BY NoActionType, <1>a, <1>18 DEF RemoveUser, ActionsType
<1>19. ASSUME NEW u \in Users, LogIn(u) PROVE ActionsType'
  BY NoActionType, <1>a, <1>19 DEF LogIn, Made, ActionsType
<1>20. ASSUME NEW u \in Users, LoggedIn(u) PROVE ActionsType'
  BY NoActionType, <1>a, <1>20 DEF LoggedIn, TokenSet, ActionsType
<1>21. ASSUME NEW u \in Users, SetIsAdmin(u) PROVE ActionsType'
  BY NoActionType, <1>a, <1>21 DEF SetIsAdmin, Made, ActionsType
<1>22. ASSUME NEW u \in Users, LogOut(u) PROVE ActionsType'
  BY NoActionType, <1>a, <1>22 DEF LogOut, ActionsType
<1>23. ASSUME NEW u \in Users, LoggedOut(u) PROVE ActionsType'
  BY NoActionType, <1>a, <1>23 DEF LoggedOut, Mark, ActionsType
<1>24. ASSUME UNCHANGED vars PROVE ActionsType'
  BY NoActionType, <1>a, <1>24 DEF vars, ActionsType
<1> QED
  BY <1>1, <1>2, <1>3, <1>4, <1>5, <1>6, <1>7, <1>8, <1>9, <1>10, <1>11, <1>12, <1>13, <1>14, <1>15, <1>16, <1>17, <1>18, <1>19, <1>20, <1>21, <1>22, <1>23, <1>24 DEF Next, RunAction, UserStep

\* A step of a run but the last leaves the other runs alone.
LEMMA RunMoves ==
  ASSUME RunsType, FilesType, NEW r \in runs,
         \/ RunDelete(r) \/ RunBackUp(r) \/ OpenOriginal(r) \/ CreateCopy(r) \/ Copied(r)
         \/ DeleteOriginal(r)
  PROVE  files' = files /\ \E n : MovesTo(r, n)
<1>1. RunType(r) /\ r.path \in Paths
  BY RunFields DEF RunsType
<1>2. ASSUME Over(r, TRUE) \/ Over(r, FALSE) PROVE \E n : MovesTo(r, n)
  BY <1>2, OverEffect
<1>3. ASSUME Thrown(r) PROVE \E n : MovesTo(r, n)
  BY <1>3, <1>1 DEF Thrown, Ends, MovesTo, Follows
<1>4. CASE RunDelete(r) \/ DeleteOriginal(r)
  BY <1>2, <1>3, <1>4 DEF RunDelete, DeleteOriginal, Delete
<1>5. CASE RunBackUp(r)
  <2>1. GoesOn(r, "checked") \/ Over(r, TRUE) \/ Over(r, FALSE)
    BY <1>5 DEF RunBackUp
  <2> QED
    BY <1>2, <1>5, <2>1, GoesOnEffect DEF RunBackUp
<1>6. CASE OpenOriginal(r)
  <2>1. r.action.kind = "backup" /\ file[r.path] \in 0 .. files /\ files' = files
    BY <1>1, <1>6 DEF OpenOriginal, RunType, FilesType
  <2>2. CASE Becomes(r, [r EXCEPT !.stage = "opened", !.origin = file[r.path]])
    BY <1>1, <2>1, <2>2, OriginSet DEF Becomes, MovesTo
  <2> QED
    BY <1>2, <1>6, <2>1, <2>2 DEF OpenOriginal, GivesUp
<1>7. CASE CreateCopy(r)
  <2>1. r.action.kind = "backup"
    BY <1>1, <1>7 DEF CreateCopy, RunType
  <2> QED
    BY <1>2, <1>7, <2>1, GoesOnEffect DEF CreateCopy, GivesUp
<1>8. CASE Copied(r)
  <2>1. r.action.kind = "backup"
    BY <1>1, <1>8 DEF Copied, RunType
  <2> QED
    BY <1>2, <1>8, <2>1, GoesOnEffect DEF Copied, GivesUp
<1> QED
  BY <1>4, <1>5, <1>6, <1>7, <1>8

LEMMA RunsNext == FilesType /\ ActionsType /\ RunsType /\ [Next]_vars => RunsType'
<1> SUFFICES ASSUME FilesType, ActionsType, RunsType, [Next]_vars PROVE RunsType'
  OBVIOUS
<1>a. ASSUME NEW r \in runs, files' = files, \E n : MovesTo(r, n) PROVE RunsType'
  <2>1. PICK n : MovesTo(r, n)
    BY <1>a
  <2>2. \A s \in runs' : RunType(s)
    BY <2>1 DEF MovesTo, Follows, RunsType
  <2>3. \A s \in runs' : RunType(s)'
    BY <2>2, <1>a DEF RunType, Runs
  <2>4. \A s, t \in runs' : s.by = t.by => s = t
    BY <2>1 DEF MovesTo, Follows, RunsType
  <2> QED
    BY <2>3, <2>4 DEF RunsType
<1>b. ASSUME runs' \subseteq runs, files' \in Nat, files <= files' PROVE RunsType'
  <2>1. 0 .. files \subseteq 0 .. files'
    BY <1>b DEF FilesType
  <2>2. ASSUME NEW r, RunType(r) PROVE RunType(r)'
    BY <2>1, <2>2 DEF RunType, Runs
  <2> QED
    BY <1>b, <2>2 DEF RunsType
<1>c. files \in Nat
  BY DEF FilesType
<1> USE DEF disk, pass, users, errs, history
<1>1. ASSUME Crash PROVE RunsType'
  BY <1>b, <1>c, <1>1 DEF Crash, FilesType
<1>2. ASSUME Configure PROVE RunsType'
  BY <1>b, <1>c, <1>2 DEF Configure, Pending, FilesType
<1>3. ASSUME ActionsOver PROVE RunsType'
  BY <1>b, <1>c, <1>3 DEF ActionsOver, FilesType
<1>4. ASSUME Erased PROVE RunsType'
  BY <1>b, <1>c, <1>4 DEF Erased, FilesType
<1>5. ASSUME AddUsers PROVE RunsType'
  BY <1>b, <1>c, <1>5 DEF AddUsers, FilesType
<1>6. ASSUME NEW r \in runs, RunDelete(r) PROVE RunsType'
  BY <1>6, <1>a, RunMoves
<1>7. ASSUME NEW r \in runs, RunBackUp(r) PROVE RunsType'
  BY <1>7, <1>a, RunMoves
<1>8. ASSUME NEW r \in runs, OpenOriginal(r) PROVE RunsType'
  BY <1>8, <1>a, RunMoves
<1>9. ASSUME NEW r \in runs, CreateCopy(r) PROVE RunsType'
  BY <1>9, <1>a, RunMoves
<1>10. ASSUME NEW r \in runs, Copied(r) PROVE RunsType'
  BY <1>10, <1>a, RunMoves
<1>11. ASSUME NEW r \in runs, DeleteOriginal(r) PROVE RunsType'
  BY <1>11, <1>a, RunMoves
<1>12. ASSUME NEW r \in runs, ForgetNow(r) PROVE RunsType'
  <2>1. CASE runs' \subseteq runs
    BY <1>12, <2>1, <1>b, <1>c DEF ForgetNow
  <2>2. ASSUME NEW p \in Paths, runs' = Detached(runs \ {r}, p) PROVE RunsType'
    <3>1. files' = files
      BY <1>12 DEF ForgetNow
    <3>2. \A s \in runs' : RunType(s)
      BY <2>2, DetachedEffect DEF Follows
    <3>3. \A s \in runs' : RunType(s)'
      BY <3>1, <3>2 DEF RunType, Runs
    <3>4. ASSUME NEW s \in runs', NEW t \in runs', s.by = t.by PROVE s = t
      <4>1. PICK v \in runs : s = [v EXCEPT !.attached = v.attached /\ v.path # p]
        BY <2>2 DEF Detached
      <4>2. PICK w \in runs : t = [w EXCEPT !.attached = w.attached /\ w.path # p]
        BY <2>2 DEF Detached
      <4>3. s.by = v.by /\ t.by = w.by
        BY <4>1, <4>2, DetachedRun DEF RunsType, Follows
      <4> QED
        BY <3>4, <4>1, <4>2, <4>3 DEF RunsType
    <3> QED
      BY <3>3, <3>4 DEF RunsType
  <2> QED
    BY <1>12, <2>1, <2>2 DEF ForgetNow, Ends, Pending
<1>13. ASSUME NEW t \in Runners, NEW p \in Paths, ReadAction(t, p) PROVE RunsType'
  <2> DEFINE n == [by |-> t, path |-> p, action |-> action[p], attached |-> TRUE,
                   origin |-> 0, stage |-> "read"]
  <2>1. runs' = runs \cup {n} /\ files' = files /\ \A r \in runs : r.by # n.by
    BY <1>13 DEF ReadAction
  <2>2. action[p] \in Actions /\ action[p].kind # "none"
    BY <1>13, ActionFields DEF ReadAction, ActionsType
  <2>3. RunType(n) /\ n \in Runs
    BY <1>c, <2>2 DEF RunType, Runs
  <2> HIDE DEF n
  <2>4. \A r \in runs' : RunType(r)
    BY <2>1, <2>3 DEF RunsType
  <2>5. \A r \in runs' : RunType(r)'
    BY <2>1, <2>4 DEF RunType, Runs
  <2>6. \A r, s \in runs' : r.by = s.by => r = s
    BY <2>1 DEF RunsType
  <2> QED
    BY <2>5, <2>6 DEF RunsType
<1>14. ASSUME NEW p \in Paths, ForgetOne(p) PROVE RunsType'
  BY <1>b, <1>c, <1>14 DEF ForgetOne, Forget, FilesType
<1>15. ASSUME NEW p \in Paths, OpenRealm(p) PROVE RunsType'
  BY <1>b, <1>c, <1>15 DEF OpenRealm, FilesType
<1>16. ASSUME NEW p \in Paths, NEW kind \in {"delete", "backup"}, MarkFile(p, kind) PROVE RunsType'
  BY <1>b, <1>c, <1>16 DEF MarkFile, FilesType
<1>17. ASSUME NEW u \in Users, EraseUser(u) PROVE RunsType'
  BY <1>b, <1>c, <1>17 DEF EraseUser, ToErase, Pending, FilesType
<1>18. ASSUME NEW u \in Users, RemoveUser(u) PROVE RunsType'
  BY <1>b, <1>c, <1>18 DEF RemoveUser, FilesType
<1>19. ASSUME NEW u \in Users, LogIn(u) PROVE RunsType'
  BY <1>b, <1>c, <1>19 DEF LogIn, Made, FilesType
<1>20. ASSUME NEW u \in Users, LoggedIn(u) PROVE RunsType'
  BY <1>b, <1>c, <1>20 DEF LoggedIn, TokenSet, FilesType
<1>21. ASSUME NEW u \in Users, SetIsAdmin(u) PROVE RunsType'
  BY <1>b, <1>c, <1>21 DEF SetIsAdmin, Made, FilesType
<1>22. ASSUME NEW u \in Users, LogOut(u) PROVE RunsType'
  BY <1>b, <1>c, <1>22 DEF LogOut, FilesType
<1>23. ASSUME NEW u \in Users, LoggedOut(u) PROVE RunsType'
  BY <1>b, <1>c, <1>23 DEF LoggedOut, Mark, FilesType
<1>24. ASSUME UNCHANGED vars PROVE RunsType'
  BY <1>b, <1>c, <1>24 DEF vars, FilesType
<1> QED
  BY <1>1, <1>2, <1>3, <1>4, <1>5, <1>6, <1>7, <1>8, <1>9, <1>10, <1>11, <1>12, <1>13, <1>14, <1>15, <1>16, <1>17, <1>18, <1>19, <1>20, <1>21, <1>22, <1>23, <1>24 DEF Next, RunAction, UserStep

LEMMA UsersNext == UsersType /\ [Next]_vars => UsersType'
<1> SUFFICES ASSUME UsersType, [Next]_vars PROVE UsersType'
  OBVIOUS
<1> USE DEF disk, pass, users, errs, history
<1>1. ASSUME Crash PROVE UsersType'
  BY <1>1 DEF Crash, UsersType
<1>2. ASSUME Configure PROVE UsersType'
  BY <1>2 DEF Configure, Pending, UsersType
<1>3. ASSUME ActionsOver PROVE UsersType'
  BY <1>3 DEF ActionsOver, UsersType
<1>4. ASSUME Erased PROVE UsersType'
  BY <1>4 DEF Erased, UsersType
<1>5. ASSUME AddUsers PROVE UsersType'
  BY <1>5 DEF AddUsers, UsersType
<1>6. ASSUME NEW r \in runs, RunDelete(r) PROVE UsersType'
  BY <1>6 DEF RunDelete, Delete, Remove, Over, Thrown, Becomes, Ends, UsersType
<1>7. ASSUME NEW r \in runs, RunBackUp(r) PROVE UsersType'
  BY <1>7 DEF RunBackUp, GoesOn, Over, Becomes, Ends, UsersType
<1>8. ASSUME NEW r \in runs, OpenOriginal(r) PROVE UsersType'
  BY <1>8 DEF OpenOriginal, GivesUp, Over, Becomes, Ends, UsersType
<1>9. ASSUME NEW r \in runs, CreateCopy(r) PROVE UsersType'
  BY <1>9 DEF CreateCopy, GoesOn, GivesUp, Over, Becomes, Ends, UsersType
<1>10. ASSUME NEW r \in runs, Copied(r) PROVE UsersType'
  BY <1>10 DEF Copied, GoesOn, GivesUp, Over, Becomes, Ends, UsersType
<1>11. ASSUME NEW r \in runs, DeleteOriginal(r) PROVE UsersType'
  BY <1>11 DEF DeleteOriginal, Delete, Remove, Over, Thrown, Becomes, Ends, UsersType
<1>12. ASSUME NEW r \in runs, ForgetNow(r) PROVE UsersType'
  BY <1>12 DEF ForgetNow, Forget, Pending, Ends, UsersType
<1>13. ASSUME NEW t \in Runners, NEW p \in Paths, ReadAction(t, p) PROVE UsersType'
  BY <1>13 DEF ReadAction, UsersType
<1>14. ASSUME NEW p \in Paths, ForgetOne(p) PROVE UsersType'
  BY <1>14 DEF ForgetOne, Forget, UsersType
<1>15. ASSUME NEW p \in Paths, OpenRealm(p) PROVE UsersType'
  BY <1>15 DEF OpenRealm, UsersType
<1>16. ASSUME NEW p \in Paths, NEW kind \in {"delete", "backup"}, MarkFile(p, kind) PROVE UsersType'
  BY <1>16 DEF MarkFile, UsersType
<1>17. ASSUME NEW u \in Users, EraseUser(u) PROVE UsersType'
  BY <1>17 DEF EraseUser, ToErase, Pending, UsersType
<1>18. ASSUME NEW u \in Users, RemoveUser(u) PROVE UsersType'
  BY <1>18 DEF RemoveUser, UsersType
<1>19. ASSUME NEW u \in Users, LogIn(u) PROVE UsersType'
  BY <1>19 DEF LogIn, Made, UsersType
<1>20. ASSUME NEW u \in Users, LoggedIn(u) PROVE UsersType'
  BY <1>20 DEF LoggedIn, TokenSet, UsersType
<1>21. ASSUME NEW u \in Users, SetIsAdmin(u) PROVE UsersType'
  BY <1>21 DEF SetIsAdmin, Made, UsersType
<1>22. ASSUME NEW u \in Users, LogOut(u) PROVE UsersType'
  BY <1>22 DEF LogOut, UsersType
<1>23. ASSUME NEW u \in Users, LoggedOut(u) PROVE UsersType'
  BY <1>23 DEF LoggedOut, Mark, UsersType
<1>24. ASSUME UNCHANGED vars PROVE UsersType'
  BY <1>24 DEF vars, UsersType
<1> QED
  BY <1>1, <1>2, <1>3, <1>4, <1>5, <1>6, <1>7, <1>8, <1>9, <1>10, <1>11, <1>12, <1>13, <1>14, <1>15, <1>16, <1>17, <1>18, <1>19, <1>20, <1>21, <1>22, <1>23, <1>24 DEF Next, RunAction, UserStep

LEMMA TypeHolds == Spec => []TypeInv
<1>1. TypeInv /\ [Next]_vars => TypeInv'
  BY FilesNext, ActionsNext, RunsNext, UsersNext DEF TypeInv
<1> QED
  BY TypeInit, <1>1, PTL DEF Spec

\* Type correctness: the rows and files on disk, the state of the launch, of the runs of actions
\* and of the users keep their types in every interleaving of crashes, launches, errors and
\* log ins.
THEOREM TypeCorrect == Spec => []TypeOK
  BY TypeHolds, TypeParts, PTL

-----------------------------------------------------------------------------
(* Users: what the rows say of them.                                       *)

\* What holds the mutex of a user, or is still to be done for him, tells what his row is;
\* and his row tells how he left.
UserInv ==
    \A u \in Users :
      /\ phase # "up" => user[u] = "none" /\ inside[u] = "nobody" /\ u \notin admin
      /\ inside[u] = "login" =>
           user[u] = "active" /\ row[u] \in {"blank", "live"} /\ last[u] = "login"
      /\ inside[u] = "logout" => user[u] = "out"
      /\ user[u] = "active" /\ inside[u] = "nobody" => row[u] = "live"
      /\ u \in admin => row[u] # "absent"
      /\ row[u] = "marked" => last[u] = "logout"
      /\ last[u] = "logout" /\ u \notin revived => row[u] \in {"marked", "absent"}

LEMMA UserInit == Init => UserInv
  BY DEF Init, UserInv

LEMMA UserNext == TypeInv /\ UserInv /\ [Next]_vars => UserInv'
<1> SUFFICES ASSUME UsersType, UserInv, [Next]_vars PROVE UserInv'
  BY DEF TypeInv
<1> USE DEF disk, pass, users, errs, history
<1>1. ASSUME Crash PROVE UserInv'
  BY <1>1 DEF Crash, UserInv, UsersType
<1>2. ASSUME Configure PROVE UserInv'
  BY <1>2 DEF Configure, Pending, UserInv, UsersType
<1>3. ASSUME ActionsOver PROVE UserInv'
  BY <1>3 DEF ActionsOver, UserInv, UsersType
<1>4. ASSUME Erased PROVE UserInv'
  BY <1>4 DEF Erased, UserInv, UsersType
<1>5. ASSUME AddUsers PROVE UserInv'
  BY <1>5 DEF AddUsers, UserInv, UsersType
<1>6. ASSUME NEW r \in runs, RunDelete(r) PROVE UserInv'
  BY <1>6 DEF RunDelete, Delete, Remove, Over, Thrown, Becomes, Ends, UserInv, UsersType
<1>7. ASSUME NEW r \in runs, RunBackUp(r) PROVE UserInv'
  BY <1>7 DEF RunBackUp, GoesOn, Over, Becomes, Ends, UserInv, UsersType
<1>8. ASSUME NEW r \in runs, OpenOriginal(r) PROVE UserInv'
  BY <1>8 DEF OpenOriginal, GivesUp, Over, Becomes, Ends, UserInv, UsersType
<1>9. ASSUME NEW r \in runs, CreateCopy(r) PROVE UserInv'
  BY <1>9 DEF CreateCopy, GoesOn, GivesUp, Over, Becomes, Ends, UserInv, UsersType
<1>10. ASSUME NEW r \in runs, Copied(r) PROVE UserInv'
  BY <1>10 DEF Copied, GoesOn, GivesUp, Over, Becomes, Ends, UserInv, UsersType
<1>11. ASSUME NEW r \in runs, DeleteOriginal(r) PROVE UserInv'
  BY <1>11 DEF DeleteOriginal, Delete, Remove, Over, Thrown, Becomes, Ends, UserInv, UsersType
<1>12. ASSUME NEW r \in runs, ForgetNow(r) PROVE UserInv'
  BY <1>12 DEF ForgetNow, Forget, Pending, Ends, UserInv, UsersType
<1>13. ASSUME NEW t \in Runners, NEW p \in Paths, ReadAction(t, p) PROVE UserInv'
  BY <1>13 DEF ReadAction, UserInv, UsersType
<1>14. ASSUME NEW p \in Paths, ForgetOne(p) PROVE UserInv'
  BY <1>14 DEF ForgetOne, Forget, UserInv, UsersType
<1>15. ASSUME NEW p \in Paths, OpenRealm(p) PROVE UserInv'
  BY <1>15 DEF OpenRealm, UserInv, UsersType
<1>16. ASSUME NEW p \in Paths, NEW kind \in {"delete", "backup"}, MarkFile(p, kind) PROVE UserInv'
  BY <1>16 DEF MarkFile, UserInv, UsersType
<1>17. ASSUME NEW u \in Users, EraseUser(u) PROVE UserInv'
  BY <1>17 DEF EraseUser, ToErase, Pending, UserInv, UsersType
<1>18. ASSUME NEW u \in Users, RemoveUser(u) PROVE UserInv'
  BY <1>18 DEF RemoveUser, UserInv, UsersType
<1>19. ASSUME NEW u \in Users, LogIn(u) PROVE UserInv'
  <2>1. /\ row' = [row EXCEPT ![u] = Made(row[u])] /\ user' = [user EXCEPT ![u] = "active"]
        /\ inside' = [inside EXCEPT ![u] = "login"] /\ last' = [last EXCEPT ![u] = "login"]
        /\ revived' = revived \ {u} /\ admin' = admin /\ phase' = "up"
    BY <1>19 DEF LogIn, Running
  <2>2. Made(row[u]) \in {"blank", "live"}
    BY <1>19 DEF LogIn, Made, UserInv, UsersType
  <2> QED
    BY <2>1, <2>2 DEF UserInv, UsersType
<1>20. ASSUME NEW u \in Users, LoggedIn(u) PROVE UserInv'
  BY <1>20 DEF LoggedIn, TokenSet, UserInv, UsersType
<1>21. ASSUME NEW u \in Users, SetIsAdmin(u) PROVE UserInv'
  BY <1>21 DEF SetIsAdmin, Made, UserInv, UsersType
<1>22. ASSUME NEW u \in Users, LogOut(u) PROVE UserInv'
  BY <1>22 DEF LogOut, UserInv, UsersType
<1>23. ASSUME NEW u \in Users, LoggedOut(u) PROVE UserInv'
  BY <1>23 DEF LoggedOut, Mark, UserInv, UsersType
<1>24. ASSUME UNCHANGED vars PROVE UserInv'
  BY <1>24 DEF vars, UserInv, UsersType
<1> QED
  BY <1>1, <1>2, <1>3, <1>4, <1>5, <1>6, <1>7, <1>8, <1>9, <1>10, <1>11, <1>12, <1>13, <1>14, <1>15, <1>16, <1>17, <1>18, <1>19, <1>20, <1>21, <1>22, <1>23, <1>24 DEF Next, RunAction, UserStep


LEMMA UserHolds == Spec => []UserInv
  BY TypeHolds, UserInit, UserNext, PTL DEF Spec

\* SyncUser's constructor, update_refresh_token and log_out: outside of them an active user
\* has a live row, so that the next launch restores him.
THEOREM ActiveRememberedCorrect == Spec => []ActiveRemembered
<1>1. UserInv => ActiveRemembered
  BY DEF UserInv, ActiveRemembered
<1> QED
  BY UserHolds, <1>1, PTL

\* mark_for_removal in log_out: once it has returned the user is not restored by any launch,
\* unless set_is_admin revives his row.
THEOREM LoggedOutCorrect == Spec => []LoggedOutForgotten
<1>1. UserInv => LoggedOutForgotten
  BY DEF UserInv, LoggedOutForgotten
<1> QED
  BY UserHolds, <1>1, PTL

-----------------------------------------------------------------------------
(* Files: what the recorded actions and the runs of them say.              *)

\* Only configure's first part and the application run actions, and configure keeps those
\* that left no file.
PassInv ==
    /\ runs # {} => phase \in {"actions", "up"}
    /\ \A p \in done : phase = "actions" /\ file[p] = 0

\* A run is about a failed file, one opened since, or none, and about none or one opened since
\* when it has run. The copy it made is one of the file it opened; if there is another by then
\* that is wanted, the action it read is recorded no more.
RunOK(r) ==
    /\ r.action.kind = "backup" => r.action.name <= errors
    /\ file[r.path] \in failed \cup reopened \cup {0}
    /\ r.stage = "ran" => file[r.path] \in reopened \cup {0}
    /\ r.stage \in {"opened", "copying", "copied"} =>
         /\ r.origin # 0
         /\ \/ file[r.path] = r.origin
            \/ <<r.path, file[r.path]>> \notin wanted
            \/ action[r.path] # r.action
    /\ r.stage = "copying" => copy[r.action.name] = r.origin \/ r.origin \in crossed
    /\ r.stage = "copied" => Saved(r.origin) \/ r.origin \in crossed

RunInv == \A r \in runs : RunOK(r)

\* A recorded action is about a failed file, about one opened after it was spent, or about none.
PathOK(p) ==
    /\ <<p, file[p]>> \in wanted => action[p].kind # "delete"
    /\ action[p].kind = "backup" => action[p].name <= errors
    /\ action[p].kind # "none" => file[p] \in failed \cup reopened \cup {0}
    /\ action[p].kind # "none" /\ file[p] = 0 => p \in spent

PathInv == \A p \in Paths : PathOK(p)

FileInv == PassInv /\ RunInv /\ PathInv /\ NeverLost

LEMMA FileInit == Init => FileInv
  BY DEF Init, FileInv, PassInv, RunInv, PathInv, PathOK, NeverLost, NoAction

\* Steps that leave the files and what is recorded of them alone.
Still ==
    /\ UNCHANGED <<file, copy, whole, action, errors, failed, wanted, files, history>>
    /\ UNCHANGED <<phase, runs, done>> \/ (runs' = {} /\ done' = {})

\* The steps there are, for what follows.
StepKind ==
    \/ Still
    \/ \E r \in runs : RunAction(r)
    \/ \E p \in Paths : (\E t \in Runners : ReadAction(t, p)) \/ ForgetOne(p) \/ OpenRealm(p)
    \/ \E p \in Paths, kind \in {"delete", "backup"} : MarkFile(p, kind)
    \/ \E u \in Users : EraseUser(u)

LEMMA StepKinds == PassInv /\ [Next]_vars => StepKind
<1> SUFFICES ASSUME PassInv, [Next]_vars PROVE StepKind
  OBVIOUS
<1> USE DEF disk, pass, users, errs
<1>1. ASSUME Crash PROVE Still
  BY <1>1 DEF Crash, Still
<1>2. ASSUME Configure PROVE Still
  BY <1>2 DEF Configure, PassInv, Still
<1>3. ASSUME ActionsOver PROVE Still
  BY <1>3 DEF ActionsOver, Still
<1>4. ASSUME Erased PROVE Still
  BY <1>4 DEF Erased, PassInv, Still
<1>5. ASSUME AddUsers PROVE Still
  BY <1>5 DEF AddUsers, PassInv, Still
<1>6. ASSUME NEW u \in Users, RemoveUser(u) PROVE Still
  BY <1>6 DEF RemoveUser, Still
<1>7. ASSUME NEW u \in Users, UserStep(u) PROVE Still
  BY <1>7 DEF UserStep, LogIn, LoggedIn, SetIsAdmin, LogOut, LoggedOut, Still
<1>8. ASSUME UNCHANGED vars PROVE Still
  BY <1>8 DEF vars, Still
<1> QED
  BY <1>1, <1>2, <1>3, <1>4, <1>5, <1>6, <1>7, <1>8 DEF Next, StepKind

\* What is under no file is not wanted.
LEMMA NothingWanted == ASSUME FilesType, NEW p PROVE <<p, 0>> \notin wanted
  BY DEF FilesType

\* run_file_action's removal of the Realm: it is carried out, or fails before or after the file
\* is gone.
LEMMA DeleteEffect ==
  ASSUME FilesType, ActionsType, RunsType, FileInv, NEW r \in runs,
         RunDelete(r) \/ DeleteOriginal(r)
  PROVE  /\ RunType(r) /\ RunOK(r)
         /\ UNCHANGED <<copy, whole, action, errors, failed, wanted, files, reopened>>
         /\ Remove(r) \/ UNCHANGED <<file, spent, crossed>>
         /\ \E n : MovesTo(r, n) /\ n.stage = "ran" /\ (runs' = runs \ {r} \/ Remove(r))
         /\ \/ done' = {}
            \/ /\ phase' = phase /\ Remove(r) /\ done' \subseteq done \cup {r.path}
               /\ done' \subseteq done \/ phase = "actions"
         /\ runs' \subseteq runs \/ phase' = phase
         /\ phase' \in {phase, "up"}
<1>1. RunType(r) /\ RunOK(r)
  BY DEF RunsType, FileInv, RunInv
<1>2. /\ UNCHANGED <<copy, whole, action, errors, failed, wanted, files, reopened>>
      /\ Delete(r)
  BY DEF RunDelete, DeleteOriginal, errs
<1>3. CASE Remove(r) /\ Over(r, TRUE)
  <2>1. PICK n : MovesTo(r, n) /\ n.stage = "ran"
    BY <1>3, OverEffect
  <2>2. /\ phase' = phase /\ done' \subseteq done \cup {r.path}
        /\ done' \subseteq done \/ phase = "actions"
    BY <1>3, OverEffect
  <2> QED
    BY <1>1, <1>2, <1>3, <2>1, <2>2
<1>4. CASE Thrown(r)
  <2>1. LET n == [r EXCEPT !.stage = "ran"] IN Follows(n, r) /\ n.stage = "ran"
    BY <1>1, StageSet
  <2>2. runs' = runs \ {r} /\ done' = {} /\ phase' = "up"
    BY <1>4 DEF Thrown, Ends
  <2>3. \E n : MovesTo(r, n) /\ n.stage = "ran"
    BY <2>1, <2>2 DEF MovesTo
  <2>4. Remove(r) \/ UNCHANGED <<file, spent, crossed>>
    BY <1>2 DEF Delete
  <2> QED
    BY <1>1, <1>2, <2>2, <2>3, <2>4
<1> QED
  BY <1>2, <1>3, <1>4 DEF Delete

LEMMA PassNext == FilesType /\ ActionsType /\ RunsType /\ FileInv /\ [Next]_vars => PassInv'
<1> SUFFICES ASSUME FilesType, ActionsType, RunsType, FileInv, PassInv, [Next]_vars PROVE PassInv'
  BY DEF FileInv
<1>a. /\ file \in [Paths -> 0 .. files] /\ files \in Nat /\ done \subseteq Paths
      /\ \A r \in runs : r.path \in Paths
  BY RunFields DEF FilesType, ActionsType, RunsType
<1> USE DEF disk, pass, users, errs, history
<1>1. CASE Still
  BY <1>1 DEF Still, PassInv
<1>2. ASSUME NEW r \in runs, RunDelete(r) \/ DeleteOriginal(r) PROVE PassInv'
  <2>1. Remove(r) => file' = [file EXCEPT ![r.path] = 0]
    BY DEF Remove
  <2>2. phase \in {"actions", "up"} /\ phase' \in {"actions", "up"}
    BY <1>2, DeleteEffect DEF PassInv
  <2>3. CASE done' = {}
    BY <2>2, <2>3 DEF PassInv
  <2>4. CASE /\ phase' = phase /\ Remove(r) /\ done' \subseteq done \cup {r.path}
             /\ done' \subseteq done \/ phase = "actions"
    BY <1>a, <2>1, <2>2, <2>4 DEF PassInv
  <2> QED
    BY <1>2, <2>3, <2>4, DeleteEffect
<1>3. ASSUME NEW r \in runs, RunBackUp(r) \/ OpenOriginal(r) \/ CreateCopy(r) \/ Copied(r)
      PROVE  PassInv'
  <2>1. \/ UNCHANGED pass
        \/ Over(r, FALSE)
        \/ Over(r, TRUE) /\ file[r.path] = 0
    BY <1>3 DEF RunBackUp, OpenOriginal, CreateCopy, Copied, GoesOn, GivesUp
  <2>2. phase \in {"actions", "up"} /\ file' = file
    BY <1>3 DEF PassInv, RunBackUp, OpenOriginal, CreateCopy, Copied
  <2>3. CASE UNCHANGED pass
    BY <2>2, <2>3 DEF PassInv
  <2>4. ASSUME Over(r, FALSE) PROVE PassInv'
    BY <2>2, <2>4, OverEffect DEF PassInv
  <2>5. ASSUME Over(r, TRUE), file[r.path] = 0 PROVE PassInv'
    BY <2>2, <2>5, OverEffect DEF PassInv
  <2> QED
    BY <2>1, <2>3, <2>4, <2>5
<1>4. ASSUME NEW r \in runs, ForgetNow(r) PROVE PassInv'
  BY <1>4 DEF ForgetNow, PassInv
<1>5. ASSUME NEW t \in Runners, NEW p \in Paths, ReadAction(t, p) PROVE PassInv'
  BY <1>5 DEF ReadAction, MayRun, PassInv
<1>6. ASSUME NEW p \in Paths, ForgetOne(p) PROVE PassInv'
  BY <1>6 DEF ForgetOne, PassInv
<1>7. ASSUME NEW p \in Paths, OpenRealm(p) PROVE PassInv'
  BY <1>7 DEF OpenRealm, Running, PassInv
<1>8. ASSUME NEW p \in Paths, NEW kind \in {"delete", "backup"}, MarkFile(p, kind) PROVE PassInv'
  BY <1>8 DEF MarkFile, PassInv
<1>9. ASSUME NEW u \in Users, EraseUser(u) PROVE PassInv'
  BY <1>9 DEF EraseUser, PassInv
<1> QED
  BY StepKinds, <1>1, <1>2, <1>3, <1>4, <1>5, <1>6, <1>7, <1>8, <1>9 DEF RunAction, StepKind

LEMMA PathNext == FilesType /\ ActionsType /\ RunsType /\ FileInv /\ [Next]_vars => PathInv'
<1> SUFFICES ASSUME FilesType, ActionsType, RunsType, FileInv, PassInv, [Next]_vars,
                    NEW q \in Paths
             PROVE  PathOK(q)'
  BY DEF FileInv, PathInv
<1>a. PathOK(q)
  BY DEF FileInv, PathInv
<1>b. /\ file \in [Paths -> 0 .. files] /\ files \in Nat /\ action \in [Paths -> Actions]
      /\ failed \subseteq 1 .. files /\ wanted \subseteq Paths \X (1 .. files) /\ errors \in Nat
      /\ action[q].kind = "backup" => action[q].name \in Nat
      /\ spent \subseteq Paths
  BY ActionFields DEF FilesType, ActionsType, Names
<1>c. \A r \in runs : r.path \in Paths
  BY RunFields DEF RunsType
<1>d. NoAction.kind = "none" /\ \A p : action[p] # NoAction <=> action[p] # NoAction
  BY DEF NoAction
<1>e. action[q].kind # "none" <=> action[q] # NoAction
  BY <1>b, ActionFields
<1> USE DEF disk, pass, users, errs, history
<1>1. CASE Still
  BY <1>1, <1>a DEF Still, PathOK
<1>2. ASSUME NEW r \in runs, RunDelete(r) \/ DeleteOriginal(r) PROVE PathOK(q)'
  <2>1. UNCHANGED <<copy, whole, action, errors, failed, wanted, files, reopened>>
    BY <1>2, DeleteEffect
  <2>2. CASE UNCHANGED <<file, spent, crossed>>
    BY <1>a, <2>1, <2>2 DEF PathOK
  <2>3. CASE Remove(r)
    <3>1. /\ file' = [file EXCEPT ![r.path] = 0] /\ spent \subseteq spent'
          /\ action[r.path] # NoAction => r.path \in spent'
      BY <2>3 DEF Remove
    <3>2. CASE q = r.path
      <4>1. file'[q] = 0
        BY <1>b, <3>1, <3>2
      <4>2. <<q, 0>> \notin wanted
        BY NothingWanted
      <4> QED
        BY <1>a, <1>b, <1>e, <2>1, <3>1, <3>2, <4>1, <4>2 DEF PathOK
    <3>3. CASE q # r.path
      <4>1. file'[q] = file[q]
        BY <1>b, <3>1, <3>3
      <4> QED
        BY <1>a, <2>1, <3>1, <4>1 DEF PathOK
    <3> QED
      BY <3>2, <3>3
  <2> QED
    BY <1>2, <2>2, <2>3, DeleteEffect
<1>3. ASSUME NEW r \in runs, RunBackUp(r) \/ OpenOriginal(r) \/ CreateCopy(r) \/ Copied(r)
      PROVE  PathOK(q)'
  BY <1>3, <1>a DEF RunBackUp, OpenOriginal, CreateCopy, Copied, PathOK
<1>f. ASSUME NEW p \in Paths, Forget(p), UNCHANGED <<file, errs, reopened>> PROVE PathOK(q)'
  <2>1. CASE q = p
    <3>1. action'[q] = NoAction
      BY <1>b, <1>f, <2>1 DEF Forget
    <3> QED
      BY <1>d, <3>1 DEF PathOK
  <2>2. CASE q # p
    <3>1. action'[q] = action[q] /\ (q \in spent' <=> q \in spent)
      BY <1>b, <1>f, <2>2 DEF Forget
    <3> QED
      BY <1>a, <1>f, <3>1 DEF PathOK
  <2> QED
    BY <2>1, <2>2
<1>4. ASSUME NEW r \in runs, ForgetNow(r) PROVE PathOK(q)'
  <2>1. CASE UNCHANGED <<action, spent>>
    BY <1>4, <1>a, <2>1 DEF ForgetNow, PathOK
  <2> QED
    BY <1>4, <1>f, <2>1 DEF ForgetNow, Pending
<1>5. ASSUME NEW t \in Runners, NEW p \in Paths, ReadAction(t, p) PROVE PathOK(q)'
  BY <1>5, <1>a DEF ReadAction, PathOK
<1>6. ASSUME NEW p \in Paths, ForgetOne(p) PROVE PathOK(q)'
  BY <1>6, <1>f DEF ForgetOne
<1>7. ASSUME NEW p \in Paths, OpenRealm(p) PROVE PathOK(q)'
  <2>1. /\ file' = [file EXCEPT ![p] = files + 1] /\ file[p] = 0
        /\ reopened \subseteq reopened' /\ (p \in spent => files + 1 \in reopened')
        /\ UNCHANGED <<action, spent, failed, wanted, errors>>
    BY <1>7 DEF OpenRealm
  <2>2. CASE q = p
    <3>1. file'[q] = files + 1
      BY <1>b, <2>1, <2>2
    <3>2. <<q, files + 1>> \notin wanted
      BY <1>b
    <3> QED
      BY <1>a, <1>b, <2>1, <2>2, <3>1, <3>2 DEF PathOK
  <2>3. CASE q # p
    <3>1. file'[q] = file[q]
      BY <1>b, <2>1, <2>3
    <3> QED
      BY <1>a, <2>1, <3>1 DEF PathOK
  <2> QED
    BY <2>2, <2>3
<1>8. ASSUME NEW p \in Paths, NEW kind \in {"delete", "backup"}, MarkFile(p, kind)
      PROVE  PathOK(q)'
  <2>1. /\ errors' = errors + 1 /\ file' = file /\ file[p] # 0 /\ reopened' = reopened
        /\ action' = [action EXCEPT ![p] = [kind |-> kind, name |-> NameFor(kind, errors')]]
        /\ failed' = failed \cup {file[p]}
        /\ wanted' = IF kind = "backup" THEN wanted \cup {<<p, file[p]>>}
                                        ELSE wanted \ {<<p, file[p]>>}
        /\ spent' = spent \ {p}
    BY <1>8 DEF MarkFile
  <2>2. CASE q = p
    <3>1. action'[q].kind = kind /\ (kind = "backup" => action'[q].name = errors')
      BY <1>b, <2>1, <2>2 DEF NameFor
    <3>2. kind = "delete" => <<q, file'[q]>> \notin wanted'
      BY <2>1, <2>2
    <3> QED
      BY <1>b, <2>1, <2>2, <3>1, <3>2 DEF PathOK
  <2>3. CASE q # p
    <3>1. action'[q] = action[q] /\ (<<q, file[q]>> \in wanted' <=> <<q, file[q]>> \in wanted)
      BY <1>b, <2>1, <2>3
    <3>2. file[q] \in failed => file[q] \in failed'
      BY <2>1
    <3>3. q \in spent => q \in spent'
      BY <2>1, <2>3
    <3>4. action[q].kind = "backup" => action[q].name <= errors'
      BY <1>a, <1>b, <2>1 DEF PathOK
    <3> QED
      BY <1>a, <2>1, <3>1, <3>2, <3>3, <3>4 DEF PathOK
  <2> QED
    BY <2>2, <2>3
<1>9. ASSUME NEW u \in Users, EraseUser(u) PROVE PathOK(q)'
  <2>1. /\ file' = [p \in Paths |-> IF OwnerOf[p] = u THEN 0 ELSE file[p]]
        /\ wanted' \subseteq wanted /\ spent' = spent \cup {p \in Pending : OwnerOf[p] = u}
        /\ UNCHANGED <<action, errors, failed, reopened>>
    BY <1>9 DEF EraseUser
  <2>2. CASE OwnerOf[q] = u
    <3>1. file'[q] = 0 /\ (action[q] # NoAction => q \in spent')
      BY <2>1, <2>2 DEF Pending
    <3>2. <<q, 0>> \notin wanted'
      BY <2>1, NothingWanted
    <3> QED
      BY <1>a, <1>e, <2>1, <3>1, <3>2 DEF PathOK
  <2>3. CASE OwnerOf[q] # u
    BY <1>a, <2>1, <2>3 DEF PathOK
  <2> QED
    BY <2>2, <2>3
<1> QED
  BY StepKinds, <1>1, <1>2, <1>3, <1>4, <1>5, <1>6, <1>7, <1>8, <1>9 DEF RunAction, StepKind

\* A complete copy stays, or its name is written over by another run.
LEMMA SavedStays ==
  ASSUME FilesType, ActionsType, RunsType, NEW r \in runs, CreateCopy(r) \/ Copied(r),
         NEW f, f # 0, Saved(f)
  PROVE  Saved(f)' \/ f \in crossed'
<1>1. PICK n \in whole : copy[n] = f /\ n \in Names
  BY DEF Saved, ActionsType
<1>2. copy \in [Names -> 0 .. files] /\ r.action.name \in Names
  BY RunFields DEF FilesType, RunsType, RunType, CreateCopy, Copied
<1>3. CASE Copied(r)
  <2>1. copy' = copy /\ whole \subseteq whole'
    BY <1>3 DEF Copied
  <2> QED
    BY <1>1, <2>1 DEF Saved
<1>4. CASE CreateCopy(r)
  <2>1. CASE n = r.action.name
    BY <1>1, <1>4, <2>1 DEF CreateCopy, Saved
  <2>2. CASE n # r.action.name
    <3>1. /\ copy' = copy \/ copy' = [copy EXCEPT ![r.action.name] = r.origin]
          /\ whole' = whole \/ whole' = whole \ {r.action.name}
      BY <1>4 DEF CreateCopy
    <3>2. n \in whole' /\ copy'[n] = f
      BY <1>1, <1>2, <2>2, <3>1
    <3> QED
      BY <3>2 DEF Saved
  <2> QED
    BY <2>1, <2>2
<1> QED
  BY <1>3, <1>4

\* What keeps a run that has not had its step as it should be.
Keeps(s) ==
    /\ errors \in Nat /\ errors' \in Nat /\ errors <= errors'
    /\ failed \subseteq failed' /\ reopened \subseteq reopened' /\ crossed \subseteq crossed'
    /\ \/ file'[s.path] = file[s.path]
       \/ file'[s.path] \in reopened' \cup {0} /\ <<s.path, file'[s.path]>> \notin wanted'
    /\ <<s.path, file[s.path]>> \in wanted' \ wanted => action'[s.path] # s.action
    /\ action'[s.path] = action[s.path] \/ action'[s.path] # s.action
    /\ s.action.kind = "backup" => \/ copy'[s.action.name] = copy[s.action.name]
                                  \/ copy[s.action.name] \in crossed' \cup {0}
    /\ \A f : f # 0 /\ Saved(f) => Saved(f)' \/ f \in crossed'

LEMMA RunStays ==
  ASSUME NEW s, RunType(s), RunOK(s), Keeps(s)
  PROVE  RunOK(s)'
<1> USE DEF Keeps
<1>1. s.action.kind = "backup" => s.action.name \in Nat
  BY RunFields DEF Names
<1>2. s.action.kind = "backup" => s.action.name <= errors'
  BY <1>1 DEF RunOK
<1>3. /\ file'[s.path] \in failed' \cup reopened' \cup {0}
      /\ s.stage = "ran" => file'[s.path] \in reopened' \cup {0}
  BY DEF RunOK
<1>4. s.stage \in {"opened", "copying", "copied"} =>
        /\ s.origin # 0
        /\ \/ file'[s.path] = s.origin
           \/ <<s.path, file'[s.path]>> \notin wanted'
           \/ action'[s.path] # s.action
  BY DEF RunOK
<1>5. s.stage = "copying" => copy'[s.action.name] = s.origin \/ s.origin \in crossed'
  BY DEF RunOK, RunType
<1>6. s.stage = "copied" => Saved(s.origin)' \/ s.origin \in crossed'
  BY DEF RunOK
<1> QED
  BY <1>2, <1>3, <1>4, <1>5, <1>6 DEF RunOK

LEMMA RunsOKNext ==
  FilesType /\ ActionsType /\ RunsType /\ FileInv /\ [Next]_vars => RunInv'
<1> SUFFICES ASSUME FilesType, ActionsType, RunsType, FileInv, PassInv, RunInv, PathInv,
                    [Next]_vars, NEW s \in runs'
             PROVE  RunOK(s)'
  BY DEF FileInv, RunInv
<1>a. /\ file \in [Paths -> 0 .. files] /\ files \in Nat /\ action \in [Paths -> Actions]
      /\ copy \in [Names -> 0 .. files] /\ errors \in Nat
      /\ failed \subseteq 1 .. files /\ wanted \subseteq Paths \X (1 .. files)
  BY DEF FilesType, ActionsType
<1>b. \A r \in runs : RunType(r) /\ RunOK(r) /\ r.path \in Paths /\ r.action \in Actions
                      /\ r.action.kind # "none" /\ r.action # NoAction
  BY RunFields DEF RunsType, RunInv, RunType, NoAction
<1> USE DEF disk, pass, users, errs, history
<1>1. CASE Still
  <2>1. s \in runs /\ UNCHANGED <<file, copy, whole, action, errors, failed, wanted, history>>
    BY <1>1 DEF Still
  <2> QED
    BY <1>b, <2>1 DEF RunOK, Saved
<1>2. ASSUME NEW r \in runs, RunDelete(r) \/ DeleteOriginal(r) PROVE RunOK(s)'
  <2>1. UNCHANGED <<copy, whole, action, errors, failed, wanted, files, reopened>>
    BY <1>2, DeleteEffect
  <2>2. \/ UNCHANGED <<file, spent, crossed>>
        \/ file' = [file EXCEPT ![r.path] = 0] /\ crossed \subseteq crossed'
    BY <1>2, DeleteEffect DEF Remove
  <2>3. \A q \in Paths : file'[q] = file[q] \/ (file'[q] = 0 /\ <<q, file'[q]>> \notin wanted')
    BY <1>a, <2>1, <2>2
  <2>4. \A f : Saved(f) => Saved(f)'
    BY <2>1 DEF Saved
  <2>5. PICK n : MovesTo(r, n) /\ n.stage = "ran" /\ (runs' = runs \ {r} \/ Remove(r))
    BY <1>2, DeleteEffect
  <2>6. CASE s \in runs
    <3>1. Keeps(s)
      BY <1>a, <1>b, <2>1, <2>2, <2>3, <2>4, <2>6 DEF Keeps
    <3> QED
      BY <1>b, <2>6, <3>1, RunStays
  <2>7. CASE s \notin runs
    <3>1. s = n /\ Remove(r) /\ Follows(n, r)
      BY <2>5, <2>7 DEF MovesTo
    <3>2. s.path = r.path /\ s.action = r.action /\ s.stage = "ran" /\ file'[s.path] = 0
      BY <1>a, <1>b, <2>5, <3>1 DEF Follows, Remove
    <3> QED
      BY <1>b, <2>1, <3>2 DEF RunOK
  <2> QED
    BY <2>6, <2>7
<1>3. ASSUME NEW r \in runs, RunBackUp(r) PROVE RunOK(s)'
  <2>1. UNCHANGED <<disk, errs, history>> /\ r.action.kind = "backup"
    BY <1>3 DEF RunBackUp
  <2>2. \A t \in runs : RunOK(t)'
    BY <1>b, <2>1 DEF RunOK, Saved
  <2>3. \/ GoesOn(r, "checked")
        \/ Over(r, FALSE)
        \/ Over(r, TRUE) /\ file[r.path] = 0
    BY <1>3 DEF RunBackUp
  <2>4. CASE s \notin runs
    <3>1. \E n : MovesTo(r, n) /\ (n.stage = "checked" \/ (n.stage = "ran" /\ file[r.path] = 0))
      BY <2>1, <2>3, <2>4, OverEffect, GoesOnEffect
    <3>2. /\ s.path = r.path /\ s.action = r.action
          /\ s.stage = "checked" \/ (s.stage = "ran" /\ file[r.path] = 0)
      BY <2>4, <3>1 DEF MovesTo, Follows
    <3> QED
      BY <1>b, <2>1, <3>2 DEF RunOK
  <2> QED
    BY <2>2, <2>4
<1>4. ASSUME NEW r \in runs, OpenOriginal(r) PROVE RunOK(s)'
  <2>1. UNCHANGED <<disk, errs, history>> /\ r.action.kind = "backup"
    BY <1>4, <1>b DEF OpenOriginal, RunType
  <2>2. \A t \in runs : RunOK(t)'
    BY <1>b, <2>1 DEF RunOK, Saved
  <2>3. CASE Over(r, FALSE)
    <3>1. s \in runs
      BY <2>3, OverEffect
    <3> QED
      BY <2>2, <3>1
  <2>4. CASE /\ file[r.path] # 0
             /\ Becomes(r, [r EXCEPT !.stage = "opened", !.origin = file[r.path]])
    <3>1. file[r.path] \in 0 .. files /\ RunType(r)
      BY <1>a, <1>b
    <3>2. \E n : MovesTo(r, n) /\ n.origin = file[r.path] /\ n.stage = "opened"
      <4>1. LET n == [r EXCEPT !.stage = "opened", !.origin = file[r.path]] IN
              Follows(n, r) /\ n.origin = file[r.path] /\ n.stage = "opened"
        BY <2>1, <3>1, OriginSet
      <4> QED
        BY <2>4, <4>1 DEF Becomes, MovesTo
    <3>3. CASE s \notin runs
      <4>1. /\ s.path = r.path /\ s.action = r.action /\ s.stage = "opened"
            /\ s.origin = file[r.path]
        BY <3>2, <3>3 DEF MovesTo, Follows
      <4> QED
        BY <1>b, <2>1, <2>4, <4>1 DEF RunOK
    <3> QED
      BY <2>2, <3>3
  <2> QED
    BY <1>4, <2>3, <2>4 DEF OpenOriginal, GivesUp
<1>5. ASSUME NEW r \in runs, CreateCopy(r) PROVE RunOK(s)'
  <2>1. /\ UNCHANGED <<file, action, errs, files, reopened>> /\ r.action.kind = "backup"
        /\ r.stage = "opened" /\ r.action.name \in Names /\ r.origin \in 0 .. files
    BY <1>5, <1>b, RunFields DEF CreateCopy, RunType
  <2>2. \A f : f # 0 /\ Saved(f) => Saved(f)' \/ f \in crossed'
    BY <1>5, SavedStays
  <2>3. \/ UNCHANGED <<copy, crossed>> /\ Over(r, FALSE)
        \/ /\ copy' = [copy EXCEPT ![r.action.name] = r.origin] /\ GoesOn(r, "copying")
           /\ crossed' = crossed \cup ({copy[r.action.name]} \ {0})
    BY <1>5 DEF CreateCopy, GivesUp
  <2>4. \A n \in Names : copy'[n] = copy[n] \/ copy[n] \in crossed' \cup {0}
    BY <1>a, <2>3
  <2>5. CASE s \in runs
    <3>1. s.action.kind = "backup" => s.action.name \in Names
      BY <1>b, <2>5, RunFields
    <3>2. crossed \subseteq crossed'
      BY <2>3
    <3>3. Keeps(s)
      BY <1>a, <2>1, <2>2, <2>4, <3>1, <3>2 DEF Keeps
    <3> QED
      BY <1>b, <2>5, <3>3, RunStays
  <2>6. CASE s \notin runs
    <3>1. GoesOn(r, "copying") /\ copy'[r.action.name] = r.origin
      <4>1. Over(r, FALSE) => s \in runs
        BY OverEffect
      <4> QED
        BY <1>a, <2>1, <2>3, <2>6, <4>1
    <3>2. PICK n : MovesTo(r, n) /\ n.origin = r.origin /\ n.stage = "copying"
      BY <2>1, <3>1, GoesOnEffect
    <3>3. /\ s.path = r.path /\ s.action = r.action /\ s.origin = r.origin
          /\ s.stage = "copying"
      BY <2>6, <3>2 DEF MovesTo, Follows
    <3> QED
      BY <1>b, <2>1, <3>1, <3>3 DEF RunOK
  <2> QED
    BY <2>5, <2>6
<1>6. ASSUME NEW r \in runs, Copied(r) PROVE RunOK(s)'
  <2>1. /\ UNCHANGED <<file, copy, action, errs, files, history>> /\ r.action.kind = "backup"
        /\ r.stage = "copying"
    BY <1>6, <1>b DEF Copied, RunType
  <2>2. \A f : f # 0 /\ Saved(f) => Saved(f)' \/ f \in crossed'
    BY <1>6, SavedStays
  <2>3. \/ Over(r, FALSE)
        \/ whole' = whole \cup {r.action.name} /\ GoesOn(r, "copied")
    BY <1>6 DEF Copied, GivesUp
  <2>4. CASE s \in runs
    <3>1. Keeps(s)
      BY <1>a, <1>b, <2>1, <2>2, <2>4 DEF Keeps
    <3> QED
      BY <1>b, <2>4, <3>1, RunStays
  <2>5. CASE s \notin runs
    <3>1. GoesOn(r, "copied") /\ r.action.name \in whole'
      <4>1. Over(r, FALSE) => s \in runs
        BY OverEffect
      <4> QED
        BY <2>3, <2>5, <4>1
    <3>2. PICK n : MovesTo(r, n) /\ n.origin = r.origin /\ n.stage = "copied"
      BY <2>1, <3>1, GoesOnEffect
    <3>3. /\ s.path = r.path /\ s.action = r.action /\ s.origin = r.origin
          /\ s.stage = "copied"
      BY <2>5, <3>2 DEF MovesTo, Follows
    <3>4. Saved(s.origin)' \/ s.origin \in crossed'
      BY <1>b, <2>1, <3>1, <3>3 DEF RunOK, Saved
    <3> QED
      BY <1>b, <2>1, <3>3, <3>4 DEF RunOK
  <2> QED
    BY <2>4, <2>5
<1>c. ASSUME NEW p \in Paths, NEW t \in runs, Forget(p),
             UNCHANGED <<file, copy, whole, errs, reopened, crossed>>
      PROVE  RunOK(t)'
  <2>1. action'[t.path] = action[t.path] \/ action'[t.path] # t.action
    BY <1>a, <1>b, <1>c DEF Forget
  <2>2. \A f : Saved(f) => Saved(f)'
    BY <1>c DEF Saved
  <2>3. Keeps(t)
    BY <1>a, <1>c, <2>1, <2>2 DEF Keeps
  <2> QED
    BY <1>b, <2>3, RunStays
<1>7. ASSUME NEW r \in runs, ForgetNow(r) PROVE RunOK(s)'
  <2>1. CASE runs' \subseteq runs /\ UNCHANGED <<action, spent>>
    BY <1>7, <1>b, <2>1 DEF ForgetNow, RunOK, Saved
  <2>2. ASSUME NEW p \in Paths, Forget(p), runs' = Detached(runs \ {r}, p) PROVE RunOK(s)'
    <3>1. PICK t \in runs \ {r} : Follows(s, t) /\ s.origin = t.origin /\ s.stage = t.stage
      BY <2>2, DetachedEffect
    <3>2. RunOK(t)'
      BY <1>7, <1>c, <2>2 DEF ForgetNow
    <3> QED
      BY <3>1, <3>2 DEF Follows, RunOK
  <2> QED
    BY <1>7, <2>1, <2>2 DEF ForgetNow, Ends, Pending
<1>8. ASSUME NEW t \in Runners, NEW p \in Paths, ReadAction(t, p) PROVE RunOK(s)'
  <2>1. UNCHANGED <<disk, errs, history>>
    BY <1>8 DEF ReadAction
  <2>2. CASE s \in runs
    BY <1>b, <2>1, <2>2 DEF RunOK, Saved
  <2>3. CASE s \notin runs
    <3>1. s.path = p /\ s.action = action[p] /\ s.stage = "read"
      BY <1>8, <2>3 DEF ReadAction
    <3>2. PathOK(p) /\ action[p].kind # "none"
      BY <1>8, <1>a, ActionFields DEF ReadAction, PathInv
    <3> QED
      BY <2>1, <3>1, <3>2 DEF RunOK, PathOK
  <2> QED
    BY <2>2, <2>3
<1>9. ASSUME NEW p \in Paths, ForgetOne(p) PROVE RunOK(s)'
  BY <1>9, <1>c DEF ForgetOne
<1>10. ASSUME NEW p \in Paths, OpenRealm(p) PROVE RunOK(s)'
  <2>1. /\ file' = [file EXCEPT ![p] = files + 1] /\ reopened \subseteq reopened'
        /\ \A r \in runs : r.path = p => files + 1 \in reopened'
        /\ UNCHANGED <<copy, whole, action, runs, failed, wanted, errors, crossed>>
    BY <1>10 DEF OpenRealm
  <2>2. \/ file'[s.path] = file[s.path]
        \/ file'[s.path] \in reopened' \cup {0} /\ <<s.path, file'[s.path]>> \notin wanted'
    <3>1. CASE s.path = p
      <4>1. file'[s.path] = files + 1 /\ <<s.path, files + 1>> \notin wanted
        BY <1>a, <2>1, <3>1
      <4> QED
        BY <2>1, <3>1, <4>1
    <3>2. CASE s.path # p
      BY <1>a, <1>b, <2>1, <3>2
    <3> QED
      BY <3>1, <3>2
  <2>3. \A f : Saved(f) => Saved(f)'
    BY <2>1 DEF Saved
  <2>4. Keeps(s)
    BY <1>a, <2>1, <2>2, <2>3 DEF Keeps
  <2> QED
    BY <1>b, <2>1, <2>4, RunStays
<1>11. ASSUME NEW p \in Paths, NEW kind \in {"delete", "backup"}, MarkFile(p, kind)
       PROVE  RunOK(s)'
  <2>1. /\ errors' = errors + 1 /\ failed' = failed \cup {file[p]}
        /\ action' = [action EXCEPT ![p] = [kind |-> kind, name |-> NameFor(kind, errors')]]
        /\ wanted' \subseteq wanted \cup {<<p, file[p]>>}
        /\ UNCHANGED <<file, copy, whole, runs, reopened, crossed>>
    BY <1>11 DEF MarkFile
  <2>2. s \in runs /\ s.path \in Paths /\ RunType(s) /\ RunOK(s)
    BY <1>b, <2>1
  <2>3. \A f : Saved(f) => Saved(f)'
    BY <2>1 DEF Saved
  <2>4. CASE s.path # p
    <3>1. action'[s.path] = action[s.path] /\ <<s.path, file[s.path]>> \notin wanted' \ wanted
      BY <1>a, <2>1, <2>2, <2>4
    <3>2. Keeps(s)
      BY <1>a, <2>1, <2>3, <3>1 DEF Keeps
    <3> QED
      BY <2>2, <3>2, RunStays
  <2>5. CASE s.path = p /\ s.action.kind = "backup"
    <3>1. action'[p].kind = kind /\ (kind = "backup" => action'[p].name = errors + 1)
      BY <1>a, <2>1 DEF NameFor
    <3>2. s.action.name \in Nat /\ s.action.name <= errors
      BY <2>2, <2>5, RunFields DEF RunOK, Names
    <3>3. action'[s.path] # s.action
      BY <1>a, <2>5, <3>1, <3>2
    <3>4. Keeps(s)
      BY <1>a, <2>1, <2>3, <3>3 DEF Keeps
    <3> QED
      BY <2>2, <3>4, RunStays
  <2>6. CASE s.path = p /\ s.action.kind # "backup"
    BY <2>1, <2>2, <2>6 DEF RunOK, RunType
  <2> QED
    BY <2>4, <2>5, <2>6
<1>12. ASSUME NEW u \in Users, EraseUser(u) PROVE RunOK(s)'
  BY <1>12 DEF EraseUser, PassInv
<1> QED
  BY StepKinds, <1>1, <1>2, <1>3, <1>4, <1>5, <1>6, <1>7, <1>8, <1>9, <1>10, <1>11, <1>12 DEF RunAction, StepKind

\* A file a copy was asked for goes only when it is saved, or by a run whose action is recorded
\* no more.
LEMMA DeletedIsSaved ==
  ASSUME FilesType, ActionsType, RunsType, FileInv, NEW r \in runs,
         RunDelete(r) \/ DeleteOriginal(r), Remove(r), <<r.path, file[r.path]>> \in wanted
  PROVE  Saved(file[r.path]) \/ file[r.path] \in crossed'
<1>1. /\ RunType(r) /\ RunOK(r) /\ r.path \in Paths /\ PathOK(r.path)
  BY RunFields DEF RunsType, FileInv, RunInv, PathInv
<1>2. file[r.path] # 0
  BY NothingWanted
<1>3. CASE action[r.path] # r.action
  BY <1>2, <1>3 DEF Remove
<1>4. CASE action[r.path] = r.action
  <2>1. r.stage = "copied"
    BY <1>1, <1>4 DEF RunDelete, DeleteOriginal, PathOK
  <2>2. file[r.path] = r.origin
    BY <1>1, <1>4, <2>1 DEF RunOK
  <2> QED
    BY <1>1, <2>1, <2>2 DEF RunOK, Remove
<1> QED
  BY <1>3, <1>4

LEMMA NeverLostNext ==
  FilesType /\ ActionsType /\ RunsType /\ FileInv /\ [Next]_vars => NeverLost'
<1> SUFFICES ASSUME FilesType, ActionsType, RunsType, FileInv, [Next]_vars,
                    NEW w \in wanted'
             PROVE  file'[w[1]] = w[2] \/ Saved(w[2])' \/ w[2] \in crossed'
  BY DEF NeverLost
<1> DEFINE Kept == file'[w[1]] = w[2] \/ Saved(w[2])' \/ w[2] \in crossed'
<1>a. w \in wanted => file[w[1]] = w[2] \/ Saved(w[2]) \/ w[2] \in crossed
  BY DEF FileInv, NeverLost
<1>b. /\ file \in [Paths -> 0 .. files] /\ files \in Nat
      /\ wanted \subseteq Paths \X (1 .. files) /\ copy \in [Names -> 0 .. files]
      /\ w \in wanted => w[1] \in Paths /\ w[2] # 0 /\ w = <<w[1], w[2]>>
  BY DEF FilesType
<1>c. PassInv
  BY DEF FileInv
<1>d. ASSUME w \in wanted, file'[w[1]] = file[w[1]], copy' = copy, whole' = whole,
             crossed \subseteq crossed'
      PROVE  Kept
  BY <1>a, <1>d DEF Saved
<1> USE DEF disk, pass, users, errs, history
<1>1. CASE Still
  BY <1>1, <1>d DEF Still
<1>2. ASSUME NEW r \in runs, RunDelete(r) \/ DeleteOriginal(r) PROVE Kept
  <2>1. UNCHANGED <<copy, whole, wanted>> /\ (Remove(r) \/ UNCHANGED <<file, spent, crossed>>)
    BY <1>2, DeleteEffect
  <2>2. CASE UNCHANGED <<file, spent, crossed>>
    BY <1>d, <2>1, <2>2
  <2>3. CASE Remove(r)
    <3>1. file' = [file EXCEPT ![r.path] = 0] /\ crossed \subseteq crossed'
      BY <2>3 DEF Remove
    <3>2. CASE w[1] # r.path \/ file[w[1]] # w[2]
      BY <1>a, <1>b, <2>1, <3>1, <3>2 DEF Saved
    <3>3. CASE w[1] = r.path /\ file[w[1]] = w[2]
      <4>1. <<r.path, file[r.path]>> \in wanted
        BY <1>b, <2>1, <3>3
      <4>2. Saved(file[r.path]) \/ file[r.path] \in crossed'
        BY <1>2, <2>3, <4>1, DeletedIsSaved
      <4> QED
        BY <2>1, <3>3, <4>2 DEF Saved
    <3> QED
      BY <3>2, <3>3
  <2> QED
    BY <2>1, <2>2, <2>3
<1>3. ASSUME NEW r \in runs, CreateCopy(r) \/ Copied(r) PROVE Kept
  <2>1. file' = file /\ wanted' = wanted /\ crossed \subseteq crossed'
    BY <1>3 DEF CreateCopy, Copied
  <2>2. Saved(w[2]) => Saved(w[2])' \/ w[2] \in crossed'
    BY <1>3, <1>b, <2>1, SavedStays
  <2> QED
    BY <1>a, <2>1, <2>2
<1>4. ASSUME NEW r \in runs, RunBackUp(r) \/ OpenOriginal(r) \/ ForgetNow(r) PROVE Kept
  BY <1>4, <1>d DEF RunBackUp, OpenOriginal, ForgetNow
<1>5. ASSUME NEW t \in Runners, NEW p \in Paths, ReadAction(t, p) PROVE Kept
  BY <1>5, <1>d DEF ReadAction
<1>6. ASSUME NEW p \in Paths, ForgetOne(p) PROVE Kept
  BY <1>6, <1>d DEF ForgetOne
<1>7. ASSUME NEW p \in Paths, OpenRealm(p) PROVE Kept
  <2>1. /\ file' = [file EXCEPT ![p] = files'] /\ file[p] = 0
        /\ UNCHANGED <<copy, whole, wanted, crossed>>
    BY <1>7 DEF OpenRealm
  <2>2. CASE w[1] = p
    BY <1>a, <1>b, <2>1, <2>2 DEF Saved
  <2>3. CASE w[1] # p
    BY <1>b, <1>d, <2>1, <2>3
  <2> QED
    BY <2>2, <2>3
<1>8. ASSUME NEW p \in Paths, NEW kind \in {"delete", "backup"}, MarkFile(p, kind) PROVE Kept
  <2>1. /\ wanted' \subseteq wanted \cup {<<p, file[p]>>}
        /\ UNCHANGED <<file, copy, whole, crossed>>
    BY <1>8 DEF MarkFile
  <2>2. CASE w \in wanted
    BY <1>d, <2>1, <2>2
  <2>3. CASE w = <<p, file[p]>>
    BY <2>1, <2>3
  <2> QED
    BY <2>1, <2>2, <2>3
<1>9. ASSUME NEW u \in Users, EraseUser(u) PROVE Kept
  <2>1. /\ file' = [p \in Paths |-> IF OwnerOf[p] = u THEN 0 ELSE file[p]]
        /\ w \in wanted /\ OwnerOf[w[1]] # u /\ UNCHANGED <<copy, whole, crossed>>
    BY <1>9 DEF EraseUser
  <2> QED
    BY <1>b, <1>d, <2>1
<1> QED
  BY StepKinds, <1>c, <1>1, <1>2, <1>3, <1>4, <1>5, <1>6, <1>7, <1>8, <1>9 DEF RunAction, StepKind

LEMMA FilesHold == Spec => []FileInv
<1>1. TypeInv /\ FileInv /\ [Next]_vars => FileInv'
  BY PassNext, RunsOKNext, PathNext, NeverLostNext DEF TypeInv, FileInv
<1> QED
  BY TypeHolds, FileInit, <1>1, PTL DEF Spec

\* run_file_action and copy_realm_file, with the crashes between their steps and the runs of
\* other threads between them: a Realm of which a copy is wanted is there, or saved, unless a run
\* deleted it whose action was recorded no more, or a second run wrote over the copy.
THEOREM NeverLostCorrect == Spec => []NeverLost
<1>1. FileInv => NeverLost
  BY DEF FileInv
<1> QED
  BY FilesHold, <1>1, PTL

\* What a step removes, it removes in a run, or with its user.
LEMMA Removes ==
  ASSUME FilesType, ActionsType, RunsType, FileInv, [Next]_vars, NEW p \in Paths,
         file[p] # 0, file'[p] = 0
  PROVE  \/ \E r \in runs : r.path = p
         \/ phase = "erase" /\ EraseUser(OwnerOf[p])
<1> DEFINE Goal == (\E r \in runs : r.path = p) \/ (phase = "erase" /\ EraseUser(OwnerOf[p]))
<1>a. /\ file \in [Paths -> 0 .. files] /\ files \in Nat /\ PassInv
  BY DEF FilesType, FileInv
<1> USE DEF disk, pass, users, errs, history
<1>1. CASE Still
  BY <1>1 DEF Still
<1>2. ASSUME NEW r \in runs, RunAction(r) PROVE Goal
  <2>1. file' = file \/ file' = [file EXCEPT ![r.path] = 0]
    BY <1>2 DEF RunAction, RunDelete, RunBackUp, OpenOriginal, CreateCopy, Copied,
                DeleteOriginal, ForgetNow, Delete, Remove
  <2>2. r.path = p
    BY <1>a, <2>1
  <2> QED
    BY <2>2
<1>3. ASSUME NEW q \in Paths,
             (\E t \in Runners : ReadAction(t, q)) \/ ForgetOne(q) \/ OpenRealm(q)
      PROVE  Goal
  <2>1. file' = file \/ file' = [file EXCEPT ![q] = files + 1]
    BY <1>3 DEF ReadAction, ForgetOne, OpenRealm
  <2> QED
    BY <1>a, <2>1
<1>4. ASSUME NEW q \in Paths, NEW kind \in {"delete", "backup"}, MarkFile(q, kind) PROVE Goal
  BY <1>4 DEF MarkFile
<1>5. ASSUME NEW u \in Users, EraseUser(u) PROVE Goal
  <2>1. OwnerOf[p] = u
    BY <1>5 DEF EraseUser
  <2> QED
    BY <1>5, <2>1 DEF EraseUser
<1> QED
  BY StepKinds, <1>a, <1>1, <1>2, <1>3, <1>4, <1>5 DEF StepKind

\* SyncManager::configure and immediately_run_file_actions delete only files an error was
\* reported for, or Realms opened while their action was spent or a run of it under way.
THEOREM DeletesCorrect == Spec => DeletesOnlyFailed
<1> DEFINE Step == \A p \in Paths :
                     file[p] # 0 /\ file'[p] = 0 /\ phase # "erase"
                       => file[p] \in failed \cup reopened
<1>1. TypeInv /\ FileInv /\ [Next]_vars => Step
  <2> SUFFICES ASSUME FilesType, ActionsType, RunsType, FileInv, [Next]_vars, NEW p \in Paths,
                      file[p] # 0, file'[p] = 0, phase # "erase"
               PROVE  file[p] \in failed \cup reopened
    BY DEF TypeInv
  <2>1. PICK r \in runs : r.path = p
    BY Removes
  <2> QED
    BY <2>1 DEF FileInv, RunInv, RunOK
<1> HIDE DEF Step
<1>2. Spec => [][Step]_vars
  BY TypeHolds, FilesHold, <1>1, PTL DEF Spec
<1> QED
  BY <1>2 DEF Step, DeletesOnlyFailed

\* A row is removed at the end of the run of its action, or at the index of one another run had
\* removed.
LEMMA Forgets ==
  ASSUME FilesType, ActionsType, RunsType, FileInv, [Next]_vars, NEW p \in Paths,
         action[p] # NoAction, action'[p] = NoAction
  PROVE  file[p] \notin failed \ reopened \/ \E r \in runs \ runs' : ~r.attached
<1> DEFINE Goal == file[p] \notin failed \ reopened \/ \E r \in runs \ runs' : ~r.attached
<1>a. /\ action \in [Paths -> Actions] /\ PassInv /\ failed \subseteq 1 .. files /\ files \in Nat
  BY DEF FilesType, ActionsType, FileInv
<1> USE DEF disk, pass, users, errs, history
<1>1. CASE Still
  BY <1>1 DEF Still
<1>2. ASSUME NEW r \in runs, ForgetNow(r) PROVE Goal
  <2>1. r.stage = "ran" /\ RunOK(r) /\ RunType(r)
    BY <1>2 DEF ForgetNow, FileInv, RunInv, RunsType
  <2>2. PICK q \in Pending :
          (r.attached => q = r.path) /\ Forget(q) /\ runs' = Detached(runs \ {r}, q)
    BY <1>2 DEF ForgetNow
  <2>3. q = p
    BY <1>a, <2>2 DEF Forget, Pending
  <2>4. CASE r.attached
    BY <1>a, <2>1, <2>2, <2>3, <2>4 DEF RunOK
  <2>5. CASE ~r.attached
    <3>1. r \notin runs'
      <4> SUFFICES ASSUME r \in runs' PROVE FALSE
        OBVIOUS
      <4>1. PICK t \in runs \ {r} : Follows(r, t)
        BY <2>2, DetachedEffect
      <4> QED
        BY <4>1 DEF Follows, RunsType
    <3> QED
      BY <2>5, <3>1
  <2> QED
    BY <2>4, <2>5
<1>3. ASSUME NEW q \in Paths, ForgetOne(q) PROVE Goal
  <2>1. q \in done /\ Forget(q)
    BY <1>3 DEF ForgetOne
  <2>2. q = p
    BY <1>a, <2>1 DEF Forget
  <2> QED
    BY <1>a, <2>1, <2>2 DEF PassInv
<1>4. ASSUME NEW q \in Paths, (\E t \in Runners : ReadAction(t, q)) \/ OpenRealm(q) PROVE Goal
  BY <1>4 DEF ReadAction, OpenRealm
<1>5. ASSUME NEW q \in Paths, NEW kind \in {"delete", "backup"}, MarkFile(q, kind) PROVE Goal
  <2>1. action' = [action EXCEPT ![q] = [kind |-> kind, name |-> NameFor(kind, errors')]]
    BY <1>5 DEF MarkFile
  <2> QED
    BY <1>a, <1>5, <2>1 DEF NoAction
<1>6. ASSUME NEW u \in Users, EraseUser(u) PROVE Goal
  BY <1>6 DEF EraseUser
<1>7. ASSUME NEW r \in runs,
             \/ RunDelete(r) \/ RunBackUp(r) \/ OpenOriginal(r) \/ CreateCopy(r) \/ Copied(r)
             \/ DeleteOriginal(r)
      PROVE  Goal
  BY <1>7 DEF RunDelete, RunBackUp, OpenOriginal, CreateCopy, Copied, DeleteOriginal
<1> QED
  BY StepKinds, <1>a, <1>1, <1>2, <1>3, <1>4, <1>5, <1>6, <1>7 DEF StepKind, RunAction

\* SyncFileActionMetadata::remove is called for actions that were carried out only, but where
\* the row that has the index of a removed one goes instead.
THEOREM ForgottenCorrect == Spec => ForgottenOnlyWhenDone
<1> DEFINE Step == \A p \in Paths :
                     action[p] # NoAction /\ action'[p] = NoAction
                       => \/ file[p] \notin failed \ reopened
                          \/ \E r \in runs \ runs' : ~r.attached
<1>1. TypeInv /\ FileInv /\ [Next]_vars => Step
  BY Forgets DEF TypeInv
<1> HIDE DEF Step
<1>2. Spec => [][Step]_vars
  BY TypeHolds, FilesHold, <1>1, PTL DEF Spec
<1> QED
  BY <1>2 DEF Step, ForgottenOnlyWhenDone

\* configure's removal of users: the directory of a user is erased only if the last thing he
\* did, in whatever process, was to log out.
THEOREM ErasedCorrect == Spec => ErasedOnlyLoggedOut
<1> DEFINE Step == \A p \in Paths :
                     file[p] # 0 /\ file'[p] = 0 /\ phase = "erase" => last[OwnerOf[p]] = "logout"
<1>1. TypeInv /\ FileInv /\ UserInv /\ [Next]_vars => Step
  <2> SUFFICES ASSUME FilesType, ActionsType, RunsType, FileInv, UserInv, [Next]_vars,
                      NEW p \in Paths, file[p] # 0, file'[p] = 0, phase = "erase"
               PROVE  last[OwnerOf[p]] = "logout"
    BY DEF TypeInv
  <2>1. runs = {}
    BY DEF FileInv, PassInv
  <2>2. EraseUser(OwnerOf[p])
    BY <2>1, Removes
  <2>3. row[OwnerOf[p]] = "marked" /\ OwnerOf[p] \in Users
    BY <2>2 DEF EraseUser, ToErase
  <2> QED
    BY <2>3 DEF UserInv
<1> HIDE DEF Step
<1>2. Spec => [][Step]_vars
  BY TypeHolds, FilesHold, UserHolds, <1>1, PTL DEF Spec
<1> QED
  BY <1>2 DEF Step, ErasedOnlyLoggedOut

=============================================================================
