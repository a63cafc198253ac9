---------------------- MODULE NotifierHandover_proofs ----------------------
(***************************************************************************)
(* Theorems about NotifierHandover, for any Realms, notifiers and number   *)
(* of versions.                                                            *)
(***************************************************************************)
EXTENDS NotifierHandover, TLAPS

USE RealmOfAssumption, VersionAssumption, NoRealmAssumption

-----------------------------------------------------------------------------
(* Types, in four parts.                                                   *)

NumbersType ==
    /\ latest \in Versions
    /\ pin \in 0 .. latest /\ sg \in 0 .. latest /\ skipVersion \in 0 .. latest
    /\ target \in 0 .. latest /\ skip \in 0 .. latest
    /\ version \in [Notifiers -> 0 .. latest]
    /\ read \in [Realms -> 1 .. latest] /\ upTo \in [Realms -> 0 .. latest]

ListsType ==
    /\ writer \in Realms \cup {NoRealm}
    /\ old \subseteq Notifiers /\ new \subseteq Notifiers
    /\ olds \subseteq Notifiers /\ news \subseteq Notifiers
    /\ woken \in BOOLEAN /\ stage \in {"idle", "skip", "rest", "failed"}
    /\ alive \in [Notifiers -> BOOLEAN] /\ hasRun \in [Notifiers -> BOOLEAN]
    /\ callback \in [Notifiers -> BOOLEAN] /\ skipNext \in [Notifiers -> BOOLEAN]
    /\ excused \in BOOLEAN /\ muted \subseteq Notifiers /\ raced \in BOOLEAN

ChangesType ==
    /\ change \in [Notifiers -> SUBSET Versions] /\ acc \in [Notifiers -> SUBSET Versions]
    /\ due \in [Notifiers -> SUBSET Versions] /\ told \in [Notifiers -> SUBSET Versions]

RealmsType ==
    /\ pc \in [Realms -> {"idle", "wait", "packaged", "notifying", "write"}]
    /\ goal \in [Realms -> {"refresh", "ready", "here", "write"}]
    /\ package \in [Realms -> SUBSET Notifiers]
    /\ notified \in [Realms -> BOOLEAN]

TypeInv == NumbersType /\ ListsType /\ ChangesType /\ RealmsType

LEMMA TypeParts == TypeInv => TypeOK
  BY DEF TypeInv, TypeOK, NumbersType, ListsType, ChangesType, RealmsType

LEMMA TypeInit == Init => TypeInv
<1> SUFFICES ASSUME Init PROVE TypeInv
  OBVIOUS
<1>1. NumbersType
  BY DEF Init, NumbersType, Versions
<1>2. ListsType
  BY DEF Init, ListsType
<1>3. ChangesType
  BY DEF Init, ChangesType
<1>4. RealmsType
  BY DEF Init, RealmsType
<1> QED
  BY <1>1, <1>2, <1>3, <1>4 DEF TypeInv

LEMMA NumbersNext == NumbersType /\ RealmsType /\ [Next]_vars => NumbersType'
<1> SUFFICES ASSUME NumbersType, RealmsType, [Next]_vars PROVE NumbersType'
  OBVIOUS
<1> USE DEF file, lists, run, notifier, cbs, threads, history
<1>1. ASSUME NEW n \in Notifiers, Register(n) PROVE NumbersType'
  BY <1>1 DEF Register, InUse, Pinned, NumbersType, Versions
<1>2. ASSUME NEW n \in Notifiers, AddCallback(n) PROVE NumbersType'
  BY <1>2 DEF AddCallback, WakeUp, InUse, NumbersType, Versions
<1>3. ASSUME NEW n \in Notifiers, RemoveCallback(n) PROVE NumbersType'
  BY <1>3 DEF RemoveCallback, NumbersType, Versions
<1>4. ASSUME NEW n \in Notifiers, Unregister(n) PROVE NumbersType'
  BY <1>4 DEF Unregister, NumbersType, Versions
<1>5. ASSUME StartRun PROVE NumbersType'
  BY <1>5 DEF StartRun, SkipKept, Living, NumbersType, Versions
<1>6. ASSUME FinishSkip PROVE NumbersType'
  BY <1>6 DEF FinishSkip, HandOver, NumbersType, Versions
<1>7. ASSUME FinishRun PROVE NumbersType'
  BY <1>7 DEF FinishRun, HandOver, SkipKept, Living, NumbersType, Versions
<1>8. ASSUME NEW r \in Realms, StartWait(r) PROVE NumbersType'
  BY <1>8 DEF StartWait, Refresh, BeginTransaction, ForRealm, NumbersType, Versions
<1>9. ASSUME NEW r \in Realms, PackageAndWait(r) PROVE NumbersType'
  BY <1>9 DEF PackageAndWait, Take, Runnable, VersionOf, NumbersType, Versions
<1>10. ASSUME NEW r \in Realms, Notify(r) PROVE NumbersType'
  BY <1>10 DEF Notify, Take, Runnable, VersionOf, ForRealm, Late, NumbersType, Versions
<1>11. ASSUME NEW r \in Realms, NotifyIgnored(r) PROVE NumbersType'
  BY <1>11 DEF NotifyIgnored, NumbersType, Versions
<1>12. ASSUME NEW r \in Realms, Deliver(r) PROVE NumbersType'
  BY <1>12 DEF Deliver, AdvancesTo, NumbersType, Versions
<1>13. ASSUME NEW r \in Realms, EndNotifying(r) PROVE NumbersType'
  BY <1>13 DEF EndNotifying, Forget, NumbersType, Versions
<1>14. ASSUME NEW r \in Realms, BeginInside(r) PROVE NumbersType'
  BY <1>14 DEF BeginInside, Forget, NumbersType, Versions
<1>15. ASSUME NEW r \in Realms, Cancel(r) PROVE NumbersType'
  BY <1>15 DEF Cancel, NumbersType, Versions
<1>16. ASSUME NEW r \in Realms, Commit(r) PROVE NumbersType'
  <2>1. /\ latest \in Nat /\ latest' = latest + 1 /\ latest' \in Versions
    BY <1>16 DEF Commit, CommitElsewhere, NumbersType, Versions
  <2>2. 0 .. latest \subseteq 0 .. latest' /\ 1 .. latest \subseteq 1 .. latest' /\ latest' \in 1 .. latest'
    BY <2>1
  <2>3. /\ UNCHANGED <<pin, sg, target, skip, version, upTo>>
        /\ skipVersion' = skipVersion \/ skipVersion' = latest'
        /\ read' = read \/ \E q \in Realms : read' = [read EXCEPT ![q] = latest']
    BY <1>16 DEF Commit, CommitElsewhere
  <2>4. /\ pin' \in 0 .. latest' /\ sg' \in 0 .. latest' /\ skipVersion' \in 0 .. latest'
        /\ target' \in 0 .. latest' /\ skip' \in 0 .. latest'
    BY <2>1, <2>2, <2>3 DEF NumbersType
  <2>5. version' \in [Notifiers -> 0 .. latest'] /\ upTo' \in [Realms -> 0 .. latest']
    BY <2>2, <2>3 DEF NumbersType
  <2>6. read' \in [Realms -> 1 .. latest']
    BY <2>2, <2>3 DEF NumbersType
  <2> QED
    BY <2>1, <2>4, <2>5, <2>6 DEF NumbersType
<1>17. ASSUME CommitElsewhere PROVE NumbersType'
  <2>1. /\ latest \in Nat /\ latest' = latest + 1 /\ latest' \in Versions
    BY <1>17 DEF Commit, CommitElsewhere, NumbersType, Versions
  <2>2. 0 .. latest \subseteq 0 .. latest' /\ 1 .. latest \subseteq 1 .. latest' /\ latest' \in 1 .. latest'
    BY <2>1
  <2>3. /\ UNCHANGED <<pin, sg, target, skip, version, upTo>>
        /\ skipVersion' = skipVersion \/ skipVersion' = latest'
        /\ read' = read \/ \E q \in Realms : read' = [read EXCEPT ![q] = latest']
    BY <1>17 DEF Commit, CommitElsewhere
  <2>4. /\ pin' \in 0 .. latest' /\ sg' \in 0 .. latest' /\ skipVersion' \in 0 .. latest'
        /\ target' \in 0 .. latest' /\ skip' \in 0 .. latest'
    BY <2>1, <2>2, <2>3 DEF NumbersType
  <2>5. version' \in [Notifiers -> 0 .. latest'] /\ upTo' \in [Realms -> 0 .. latest']
    BY <2>2, <2>3 DEF NumbersType
  <2>6. read' \in [Realms -> 1 .. latest']
    BY <2>2, <2>3 DEF NumbersType
  <2> QED
    BY <2>1, <2>4, <2>5, <2>6 DEF NumbersType
<1>19. ASSUME NEW r \in Realms, NEW n \in Notifiers, Suppress(r, n) PROVE NumbersType'
  BY <1>19 DEF Suppress, NumbersType, Versions
<1>18. ASSUME UNCHANGED vars PROVE NumbersType'
  BY <1>18 DEF vars, NumbersType, Versions
<1> QED
  BY <1>1, <1>2, <1>3, <1>4, <1>5, <1>6, <1>7, <1>8, <1>9, <1>10, <1>11, <1>12, <1>13, <1>14,
     <1>15, <1>16, <1>17, <1>18, <1>19 DEF Next, User, Worker, RealmStep

LEMMA ListsNext == ListsType /\ [Next]_vars => ListsType'
<1> SUFFICES ASSUME ListsType, [Next]_vars PROVE ListsType'
  OBVIOUS
<1> USE DEF file, lists, run, notifier, cbs, threads, history
<1>1. ASSUME NEW n \in Notifiers, Register(n) PROVE ListsType'
  BY <1>1 DEF Register, InUse, Pinned, ListsType
<1>2. ASSUME NEW n \in Notifiers, AddCallback(n) PROVE ListsType'
  BY <1>2 DEF AddCallback, WakeUp, InUse, ListsType
<1>3. ASSUME NEW n \in Notifiers, RemoveCallback(n) PROVE ListsType'
  BY <1>3 DEF RemoveCallback, ListsType
<1>4. ASSUME NEW n \in Notifiers, Unregister(n) PROVE ListsType'
  BY <1>4 DEF Unregister, ListsType
<1>5. ASSUME StartRun PROVE ListsType'
  BY <1>5 DEF StartRun, SkipKept, Living, ListsType
<1>6. ASSUME FinishSkip PROVE ListsType'
  BY <1>6 DEF FinishSkip, HandOver, ListsType
<1>7. ASSUME FinishRun PROVE ListsType'
  BY <1>7 DEF FinishRun, HandOver, SkipKept, Living, ListsType
<1>8. ASSUME NEW r \in Realms, StartWait(r) PROVE ListsType'
  BY <1>8 DEF StartWait, Refresh, BeginTransaction, ForRealm, ListsType
<1>9. ASSUME NEW r \in Realms, PackageAndWait(r) PROVE ListsType'
  BY <1>9 DEF PackageAndWait, Take, Runnable, VersionOf, ListsType
<1>10. ASSUME NEW r \in Realms, Notify(r) PROVE ListsType'
  BY <1>10 DEF Notify, Take, Runnable, VersionOf, ForRealm, Late, ListsType
<1>11. ASSUME NEW r \in Realms, NotifyIgnored(r) PROVE ListsType'
  BY <1>11 DEF NotifyIgnored, ListsType
<1>12. ASSUME NEW r \in Realms, Deliver(r) PROVE ListsType'
  BY <1>12 DEF Deliver, AdvancesTo, ListsType
<1>13. ASSUME NEW r \in Realms, EndNotifying(r) PROVE ListsType'
  BY <1>13 DEF EndNotifying, Forget, ListsType
<1>14. ASSUME NEW r \in Realms, BeginInside(r) PROVE ListsType'
  BY <1>14 DEF BeginInside, Forget, ListsType
<1>15. ASSUME NEW r \in Realms, Cancel(r) PROVE ListsType'
  BY <1>15 DEF Cancel, ListsType
<1>16. ASSUME NEW r \in Realms, Commit(r) PROVE ListsType'
  BY <1>16 DEF Commit, WakeUp, ListsType
<1>17. ASSUME CommitElsewhere PROVE ListsType'
  BY <1>17 DEF CommitElsewhere, WakeUp, ListsType
<1>19. ASSUME NEW r \in Realms, NEW n \in Notifiers, Suppress(r, n) PROVE ListsType'
  BY <1>19 DEF Suppress, ListsType
<1>18. ASSUME UNCHANGED vars PROVE ListsType'
  BY <1>18 DEF vars, ListsType
<1> QED
  BY <1>1, <1>2, <1>3, <1>4, <1>5, <1>6, <1>7, <1>8, <1>9, <1>10, <1>11, <1>12, <1>13, <1>14,
     <1>15, <1>16, <1>17, <1>18, <1>19 DEF Next, User, Worker, RealmStep

LEMMA RealmsNext == ListsType /\ RealmsType /\ [Next]_vars => RealmsType'
<1> SUFFICES ASSUME ListsType, RealmsType, [Next]_vars PROVE RealmsType'
  OBVIOUS
<1> USE DEF file, lists, run, notifier, cbs, threads, history
<1>1. ASSUME NEW n \in Notifiers, Register(n) PROVE RealmsType'
  BY <1>1 DEF Register, InUse, Pinned, RealmsType, ListsType
<1>2. ASSUME NEW n \in Notifiers, AddCallback(n) PROVE RealmsType'
  BY <1>2 DEF AddCallback, WakeUp, InUse, RealmsType, ListsType
<1>3. ASSUME NEW n \in Notifiers, RemoveCallback(n) PROVE RealmsType'
  BY <1>3 DEF RemoveCallback, RealmsType, ListsType
<1>4. ASSUME NEW n \in Notifiers, Unregister(n) PROVE RealmsType'
  BY <1>4 DEF Unregister, RealmsType, ListsType
<1>5. ASSUME StartRun PROVE RealmsType'
  BY <1>5 DEF StartRun, SkipKept, Living, RealmsType, ListsType
<1>6. ASSUME FinishSkip PROVE RealmsType'
  BY <1>6 DEF FinishSkip, HandOver, RealmsType, ListsType
<1>7. ASSUME FinishRun PROVE RealmsType'
  BY <1>7 DEF FinishRun, HandOver, SkipKept, Living, RealmsType, ListsType
<1>8. ASSUME NEW r \in Realms, StartWait(r) PROVE RealmsType'
  BY <1>8 DEF StartWait, Refresh, BeginTransaction, ForRealm, RealmsType, ListsType
<1>9. ASSUME NEW r \in Realms, PackageAndWait(r) PROVE RealmsType'
  BY <1>9 DEF PackageAndWait, Take, Runnable, VersionOf, RealmsType, ListsType
<1>10. ASSUME NEW r \in Realms, Notify(r) PROVE RealmsType'
  BY <1>10 DEF Notify, Take, Runnable, VersionOf, ForRealm, Late, RealmsType, ListsType
<1>11. ASSUME NEW r \in Realms, NotifyIgnored(r) PROVE RealmsType'
  BY <1>11 DEF NotifyIgnored, RealmsType, ListsType
<1>12. ASSUME NEW r \in Realms, Deliver(r) PROVE RealmsType'
  BY <1>12 DEF Deliver, AdvancesTo, RealmsType, ListsType
<1>13. ASSUME NEW r \in Realms, EndNotifying(r) PROVE RealmsType'
  BY <1>13 DEF EndNotifying, Forget, RealmsType, ListsType
<1>14. ASSUME NEW r \in Realms, BeginInside(r) PROVE RealmsType'
  BY <1>14 DEF BeginInside, Forget, RealmsType, ListsType
<1>15. ASSUME NEW r \in Realms, Cancel(r) PROVE RealmsType'
  BY <1>15 DEF Cancel, RealmsType, ListsType
<1>16. ASSUME NEW r \in Realms, Commit(r) PROVE RealmsType'
  BY <1>16 DEF Commit, WakeUp, RealmsType, ListsType
<1>17. ASSUME CommitElsewhere PROVE RealmsType'
  BY <1>17 DEF CommitElsewhere, WakeUp, RealmsType, ListsType
<1>19. ASSUME NEW r \in Realms, NEW n \in Notifiers, Suppress(r, n) PROVE RealmsType'
  BY <1>19 DEF Suppress, RealmsType, ListsType
<1>18. ASSUME UNCHANGED vars PROVE RealmsType'
  BY <1>18 DEF vars, RealmsType, ListsType
<1> QED
  BY <1>1, <1>2, <1>3, <1>4, <1>5, <1>6, <1>7, <1>8, <1>9, <1>10, <1>11, <1>12, <1>13, <1>14,
     <1>15, <1>16, <1>17, <1>18, <1>19 DEF Next, User, Worker, RealmStep

LEMMA UptoType ==
  ASSUME NumbersType, NEW a \in 0 .. latest, NEW b \in 0 .. latest
  PROVE  Upto(a, b) \subseteq Versions
  BY DEF NumbersType, Upto, Versions

LEMMA ChangesNext == NumbersType /\ ChangesType /\ [Next]_vars => ChangesType'
<1> SUFFICES ASSUME NumbersType, ChangesType, [Next]_vars PROVE ChangesType'
  OBVIOUS
<1> USE DEF file, lists, run, notifier, cbs, threads, history
<1>1. ASSUME NEW n \in Notifiers, Register(n) PROVE ChangesType'
  BY <1>1 DEF Register, InUse, Pinned, ChangesType
<1>2. ASSUME NEW n \in Notifiers, AddCallback(n) PROVE ChangesType'
  BY <1>2 DEF AddCallback, WakeUp, InUse, ChangesType
<1>3. ASSUME NEW n \in Notifiers, RemoveCallback(n) PROVE ChangesType'
  BY <1>3 DEF RemoveCallback, ChangesType
<1>4. ASSUME NEW n \in Notifiers, Unregister(n) PROVE ChangesType'
  BY <1>4 DEF Unregister, ChangesType
<1>5. ASSUME StartRun PROVE ChangesType'
  <2>1. /\ sg \in 0 .. latest /\ latest \in 0 .. latest /\ \A m \in Notifiers : version[m] \in 0 .. latest
    BY DEF NumbersType, Versions
  <2>2. SkipKept \in 0 .. latest
    BY DEF SkipKept, NumbersType, Versions
  <2>3. \A m \in Notifiers : Upto(version[m], latest) \subseteq Versions
    BY <2>1, UptoType
  <2>4. Upto(sg, IF SkipKept = 0 THEN latest ELSE SkipKept) \subseteq Versions
    BY <2>1, <2>2, UptoType
  <2>5. change' \in [Notifiers -> SUBSET Versions]
    <3> DEFINE o == Living(old)
               n == Living(new)
    <3>1. CASE o \cup n = {}
      BY <1>5, <3>1 DEF StartRun, ChangesType
    <3>2. CASE o \cup n # {}
      <4>1. change' = [m \in Notifiers |->
                         CASE m \in n -> Upto(version[m], latest)
                           [] m \in o -> Upto(sg, IF SkipKept = 0 THEN latest ELSE SkipKept)
                           [] OTHER   -> {}]
        BY <1>5, <3>2 DEF StartRun
      <4> HIDE DEF o, n
      <4> QED
        BY <4>1, <2>3, <2>4
    <3> QED
      BY <3>1, <3>2
  <2> QED
    BY <1>5, <2>5 DEF StartRun, ChangesType
<1>6. ASSUME FinishSkip PROVE ChangesType'
  <2>1. Upto(skip, target) \subseteq Versions
    BY UptoType DEF NumbersType
  <2>2. change' \in [Notifiers -> SUBSET Versions]
    BY <1>6, <2>1 DEF FinishSkip, ChangesType
  <2>3. acc' \in [Notifiers -> SUBSET Versions]
    BY <1>6 DEF FinishSkip, HandOver, ChangesType
  <2> QED
    BY <1>6, <2>2, <2>3 DEF FinishSkip, ChangesType
<1>7. ASSUME FinishRun PROVE ChangesType'
  BY <1>7 DEF FinishRun, HandOver, SkipKept, Living, ChangesType
<1>8. ASSUME NEW r \in Realms, StartWait(r) PROVE ChangesType'
  BY <1>8 DEF StartWait, Refresh, BeginTransaction, ForRealm, ChangesType
<1>9. ASSUME NEW r \in Realms, PackageAndWait(r) PROVE ChangesType'
  BY <1>9 DEF PackageAndWait, Take, Runnable, VersionOf, ChangesType
<1>10. ASSUME NEW r \in Realms, Notify(r) PROVE ChangesType'
  BY <1>10 DEF Notify, Take, Runnable, VersionOf, ForRealm, Late, ChangesType
<1>11. ASSUME NEW r \in Realms, NotifyIgnored(r) PROVE ChangesType'
  BY <1>11 DEF NotifyIgnored, ChangesType
<1>12. ASSUME NEW r \in Realms, Deliver(r) PROVE ChangesType'
  <2>1. 1 .. read'[r] \subseteq Versions
    <3>1. AdvancesTo(r) \in 0 .. latest
      BY DEF AdvancesTo, NumbersType, Versions
    <3>2. read'[r] = AdvancesTo(r)
      BY <1>12 DEF Deliver, NumbersType
    <3> QED
      BY <3>1, <3>2 DEF NumbersType, Versions
  <2>2. told' \in [Notifiers -> SUBSET Versions]
    BY <1>12, <2>1 DEF Deliver, ChangesType
  <2> QED
    BY <1>12, <2>2 DEF Deliver, ChangesType
<1>13. ASSUME NEW r \in Realms, EndNotifying(r) PROVE ChangesType'
  BY <1>13 DEF EndNotifying, Forget, ChangesType
<1>14. ASSUME NEW r \in Realms, BeginInside(r) PROVE ChangesType'
  BY <1>14 DEF BeginInside, Forget, ChangesType
<1>15. ASSUME NEW r \in Realms, Cancel(r) PROVE ChangesType'
  BY <1>15 DEF Cancel, ChangesType
<1>16. ASSUME NEW r \in Realms, Commit(r) PROVE ChangesType'
  <2>1. latest' \in Versions
    BY <1>16 DEF Commit, NumbersType, Versions
  <2>2. told' \in [Notifiers -> SUBSET Versions]
    BY <1>16, <2>1 DEF Commit, ChangesType
  <2> QED
    BY <1>16, <2>2 DEF Commit, ChangesType
<1>17. ASSUME CommitElsewhere PROVE ChangesType'
  BY <1>17 DEF CommitElsewhere, WakeUp, ChangesType
<1>19. ASSUME NEW r \in Realms, NEW n \in Notifiers, Suppress(r, n) PROVE ChangesType'
  BY <1>19 DEF Suppress, ChangesType
<1>18. ASSUME UNCHANGED vars PROVE ChangesType'
  BY <1>18 DEF vars, ChangesType
<1> QED
  BY <1>1, <1>2, <1>3, <1>4, <1>5, <1>6, <1>7, <1>8, <1>9, <1>10, <1>11, <1>12, <1>13, <1>14,
     <1>15, <1>16, <1>17, <1>18, <1>19 DEF Next, User, Worker, RealmStep

LEMMA TypeHolds == Spec => []TypeInv
<1>1. TypeInv /\ [Next]_vars => TypeInv'
  BY NumbersNext, ListsNext, ChangesNext, RealmsNext DEF TypeInv
<1> QED
  BY TypeInit, <1>1, PTL DEF Spec

\* Type correctness: no version of the coordinator, of a notifier or of a Realm is ever
\* newer than the file, whatever is pinned, skipped or packaged.
THEOREM TypeCorrect == Spec => []TypeOK
  BY TypeHolds, TypeParts, PTL

-----------------------------------------------------------------------------
(* The coordinator's lists.                                                *)

\* A run owns the main list; its version to skip is one of a commit that found a living
\* notifier there, and no run ever goes back.
ListsInv ==
    /\ stage # "failed" /\ (skipVersion # 0 => old # {})
    /\ stage # "idle" => old = olds \cup news /\ skip <= target /\ sg <= target /\ target # 0
    /\ stage = "skip" => skip # 0
    /\ new \cap old = {}

\* The notifiers in the main list are at the version of m_notifier_sg, except those that a
\* run has just taken over from the list of the new ones.
NotifierOK(n) ==
    /\ alive[n] => n \in old \cup new
    /\ callback[n] => alive[n]
    /\ n \in old \cup new \/ hasRun[n] => version[n] # 0
    /\ n \in new => ~hasRun[n]
    /\ n \in old => IF stage = "idle" \/ n \in olds THEN hasRun[n] /\ version[n] = sg
                                                    ELSE ~hasRun[n]

NotifiersInv == \A n \in Notifiers : NotifierOK(n)

LEMMA ListsInit == Init => ListsInv /\ NotifiersInv
  BY DEF Init, ListsInv, NotifiersInv, NotifierOK

\* What a hand over does to each notifier.
LEMMA HandedOver ==
  ASSUME NEW S, NEW v, HandOver(S, v), NEW m \in Notifiers
  PROVE  /\ version'[m] = IF m \in S THEN v ELSE version[m]
         /\ hasRun'[m] <=> (hasRun[m] \/ m \in S)
  BY DEF HandOver

LEMMA ListsInvNext == TypeInv /\ ListsInv /\ NotifiersInv /\ [Next]_vars => ListsInv'
<1> SUFFICES ASSUME NumbersType, ListsType, ListsInv, NotifiersInv, [Next]_vars PROVE ListsInv'
  BY DEF TypeInv
<1> USE DEF file, lists, run, notifier, cbs, threads, history
<1>1. ASSUME NEW n \in Notifiers, Register(n) PROVE ListsInv'
  <2>1. n \notin old
    BY <1>1 DEF Register, NotifiersInv, NotifierOK
  <2> QED
    BY <1>1, <2>1 DEF Register, ListsInv
<1>2. ASSUME NEW n \in Notifiers, AddCallback(n) PROVE ListsInv'
  BY <1>2 DEF AddCallback, WakeUp, InUse, ListsInv
<1>3. ASSUME NEW n \in Notifiers, RemoveCallback(n) PROVE ListsInv'
  BY <1>3 DEF RemoveCallback, ListsInv
<1>4. ASSUME NEW n \in Notifiers, Unregister(n) PROVE ListsInv'
  BY <1>4 DEF Unregister, ListsInv
<1>5. ASSUME StartRun PROVE ListsInv'
  <2>1. CASE Living(old) \cup Living(new) = {}
    BY <1>5, <2>1 DEF StartRun, ListsInv
  <2>2. CASE Living(old) \cup Living(new) # {}
    <3>1. /\ old' = Living(old) \cup Living(new) /\ olds' = Living(old) /\ news' = Living(new)
          /\ new' = {} /\ skip' = SkipKept /\ skipVersion' = 0 /\ target' = latest
          /\ sg' = sg \/ sg' = latest
          /\ stage' = IF SkipKept = 0 THEN "rest"
                      ELSE IF Living(old) = {} THEN "failed" ELSE "skip"
      BY <1>5, <2>2 DEF StartRun
    <3>2. SkipKept # 0 => Living(old) # {}
      BY DEF SkipKept, ListsInv
    <3>3. SkipKept <= latest /\ sg' <= latest /\ latest # 0
      BY <3>1 DEF SkipKept, NumbersType, Versions
    <3> QED
      BY <3>1, <3>2, <3>3 DEF ListsInv
  <2> QED
    BY <2>1, <2>2
<1>6. ASSUME FinishSkip PROVE ListsInv'
  BY <1>6 DEF FinishSkip, HandOver, ListsInv
<1>7. ASSUME FinishRun PROVE ListsInv'
  BY <1>7 DEF FinishRun, HandOver, SkipKept, Living, ListsInv
<1>8. ASSUME NEW r \in Realms, StartWait(r) PROVE ListsInv'
  BY <1>8 DEF StartWait, Refresh, BeginTransaction, ForRealm, ListsInv
<1>9. ASSUME NEW r \in Realms, PackageAndWait(r) PROVE ListsInv'
  BY <1>9 DEF PackageAndWait, Take, Runnable, VersionOf, ListsInv
<1>10. ASSUME NEW r \in Realms, Notify(r) PROVE ListsInv'
  BY <1>10 DEF Notify, Take, Runnable, VersionOf, ForRealm, Late, ListsInv
<1>11. ASSUME NEW r \in Realms, NotifyIgnored(r) PROVE ListsInv'
  BY <1>11 DEF NotifyIgnored, ListsInv
<1>12. ASSUME NEW r \in Realms, Deliver(r) PROVE ListsInv'
  BY <1>12 DEF Deliver, AdvancesTo, ListsInv
<1>13. ASSUME NEW r \in Realms, EndNotifying(r) PROVE ListsInv'
  BY <1>13 DEF EndNotifying, Forget, ListsInv
<1>14. ASSUME NEW r \in Realms, BeginInside(r) PROVE ListsInv'
  BY <1>14 DEF BeginInside, Forget, ListsInv
<1>15. ASSUME NEW r \in Realms, Cancel(r) PROVE ListsInv'
  BY <1>15 DEF Cancel, ListsInv
<1>16. ASSUME NEW r \in Realms, Commit(r) PROVE ListsInv'
  BY <1>16 DEF Commit, WakeUp, ListsInv
<1>17. ASSUME CommitElsewhere PROVE ListsInv'
  BY <1>17 DEF CommitElsewhere, WakeUp, ListsInv
<1>19. ASSUME NEW r \in Realms, NEW n \in Notifiers, Suppress(r, n) PROVE ListsInv'
  BY <1>19 DEF Suppress, ListsInv
<1>18. ASSUME UNCHANGED vars PROVE ListsInv'
  BY <1>18 DEF vars, ListsInv
<1> QED
  BY <1>1, <1>2, <1>3, <1>4, <1>5, <1>6, <1>7, <1>8, <1>9, <1>10, <1>11, <1>12, <1>13, <1>14,
     <1>15, <1>16, <1>17, <1>18, <1>19 DEF Next, User, Worker, RealmStep

LEMMA NotifiersInvNext == TypeInv /\ ListsInv /\ NotifiersInv /\ [Next]_vars => NotifiersInv'
<1> SUFFICES ASSUME NumbersType, ListsType, ListsInv, NotifiersInv, [Next]_vars,
                    NEW m \in Notifiers
             PROVE  NotifierOK(m)'
  BY DEF TypeInv, NotifiersInv
<1>a. NotifierOK(m)
  BY DEF NotifiersInv
<1> USE DEF file, lists, run, notifier, cbs, threads, history
<1>1. ASSUME NEW n \in Notifiers, Register(n) PROVE NotifierOK(m)'
  <2>1. /\ version[n] = 0 /\ read[RealmOf[n]] # 0 /\ new' = new \cup {n}
        /\ version' = [version EXCEPT ![n] = read[RealmOf[n]]] /\ alive' = [alive EXCEPT ![n] = TRUE]
        /\ UNCHANGED <<old, stage, olds, sg, hasRun, callback>>
    BY <1>1 DEF Register, NumbersType
  <2>2. CASE m = n
    <3>1. m \notin old \cup new
      BY <1>a, <2>1, <2>2 DEF NotifierOK
    <3>2. ~hasRun[m]
      BY <1>a, <2>1, <2>2 DEF NotifierOK
    <3> QED
      BY <1>a, <2>1, <2>2, <3>1, <3>2 DEF NotifierOK, ListsType, NumbersType
  <2>3. CASE m # n
    <3>1. version'[m] = version[m] /\ alive'[m] = alive[m]
      BY <2>1, <2>3 DEF ListsType, NumbersType
    <3> QED
      BY <1>a, <2>1, <2>3, <3>1 DEF NotifierOK
  <2> QED
    BY <2>2, <2>3
<1>2. ASSUME NEW n \in Notifiers, AddCallback(n) PROVE NotifierOK(m)'
  BY <1>a, <1>2 DEF AddCallback, WakeUp, InUse, NotifierOK, ListsType
<1>3. ASSUME NEW n \in Notifiers, RemoveCallback(n) PROVE NotifierOK(m)'
  BY <1>a, <1>3 DEF RemoveCallback, NotifierOK, ListsType
<1>4. ASSUME NEW n \in Notifiers, Unregister(n) PROVE NotifierOK(m)'
  BY <1>a, <1>4 DEF Unregister, NotifierOK, ListsType
<1>5. ASSUME StartRun PROVE NotifierOK(m)'
  BY <1>a, <1>5 DEF StartRun, SkipKept, Living, NotifierOK, ListsType
<1>6. ASSUME FinishSkip PROVE NotifierOK(m)'
  <2>1. /\ HandOver(olds, skip) /\ stage = "skip" /\ stage' = "rest" /\ sg' = skip /\ skip # 0
        /\ UNCHANGED <<old, new, olds, alive, callback>>
        /\ olds \cap new = {}
    BY <1>6 DEF FinishSkip, ListsInv
  <2>2. /\ version'[m] = IF m \in olds THEN skip ELSE version[m]
        /\ hasRun'[m] <=> (hasRun[m] \/ m \in olds)
    BY <2>1, HandedOver
  <2> QED
    BY <1>a, <2>1, <2>2 DEF NotifierOK
<1>7. ASSUME FinishRun PROVE NotifierOK(m)'
  <2>1. /\ HandOver(old, target) /\ stage = "rest" /\ stage' = "idle" /\ target # 0
        /\ old' = Living(old) /\ new' = Living(new) /\ (old' # {} => sg' = target)
        /\ old \cap new = {} /\ UNCHANGED <<alive, callback>>
    BY <1>7 DEF FinishRun, ListsInv
  <2>2. /\ version'[m] = IF m \in old THEN target ELSE version[m]
        /\ hasRun'[m] <=> (hasRun[m] \/ m \in old)
    BY <2>1, HandedOver
  <2>3. /\ m \in old' <=> m \in old /\ alive[m]
        /\ m \in new' <=> m \in new /\ alive[m]
    BY <2>1 DEF Living
  <2> QED
    BY <1>a, <2>1, <2>2, <2>3 DEF NotifierOK
<1>8. ASSUME NEW r \in Realms, StartWait(r) PROVE NotifierOK(m)'
  BY <1>a, <1>8 DEF StartWait, Refresh, BeginTransaction, ForRealm, NotifierOK, ListsType
<1>9. ASSUME NEW r \in Realms, PackageAndWait(r) PROVE NotifierOK(m)'
  BY <1>a, <1>9 DEF PackageAndWait, Take, Runnable, VersionOf, NotifierOK, ListsType
<1>10. ASSUME NEW r \in Realms, Notify(r) PROVE NotifierOK(m)'
  BY <1>a, <1>10 DEF Notify, Take, Runnable, VersionOf, ForRealm, Late, NotifierOK, ListsType
<1>11. ASSUME NEW r \in Realms, NotifyIgnored(r) PROVE NotifierOK(m)'
  BY <1>a, <1>11 DEF NotifyIgnored, NotifierOK, ListsType
<1>12. ASSUME NEW r \in Realms, Deliver(r) PROVE NotifierOK(m)'
  BY <1>a, <1>12 DEF Deliver, AdvancesTo, NotifierOK, ListsType
<1>13. ASSUME NEW r \in Realms, EndNotifying(r) PROVE NotifierOK(m)'
  BY <1>a, <1>13 DEF EndNotifying, Forget, NotifierOK, ListsType
<1>14. ASSUME NEW r \in Realms, BeginInside(r) PROVE NotifierOK(m)'
  BY <1>a, <1>14 DEF BeginInside, Forget, NotifierOK, ListsType
<1>15. ASSUME NEW r \in Realms, Cancel(r) PROVE NotifierOK(m)'
  BY <1>a, <1>15 DEF Cancel, NotifierOK, ListsType
<1>16. ASSUME NEW r \in Realms, Commit(r) PROVE NotifierOK(m)'
  BY <1>a, <1>16 DEF Commit, WakeUp, NotifierOK, ListsType
<1>17. ASSUME CommitElsewhere PROVE NotifierOK(m)'
  BY <1>a, <1>17 DEF CommitElsewhere, WakeUp, NotifierOK, ListsType
<1>19. ASSUME NEW r \in Realms, NEW n \in Notifiers, Suppress(r, n) PROVE NotifierOK(m)'
  BY <1>a, <1>19 DEF Suppress, NotifierOK, ListsType
<1>18. ASSUME UNCHANGED vars PROVE NotifierOK(m)'
  BY <1>a, <1>18 DEF vars, NotifierOK, ListsType
<1> QED
  BY <1>1, <1>2, <1>3, <1>4, <1>5, <1>6, <1>7, <1>8, <1>9, <1>10, <1>11, <1>12, <1>13, <1>14,
     <1>15, <1>16, <1>17, <1>18, <1>19 DEF Next, User, Worker, RealmStep

LEMMA ListsHold == Spec => [](ListsInv /\ NotifiersInv)
<1>1. TypeInv /\ ListsInv /\ NotifiersInv /\ [Next]_vars => (ListsInv /\ NotifiersInv)'
  BY ListsInvNext, NotifiersInvNext
<1> QED
  BY TypeHolds, ListsInit, <1>1, PTL DEF Spec

\* run_async_notifiers: all notifiers that have run are at one version, so that a package
\* may take it from any of them.
THEOREM RunTogetherCorrect == Spec => []RunTogether
<1>1. TypeInv /\ NotifiersInv => RunTogether
  BY DEF TypeInv, ListsType, NotifiersInv, NotifierOK, RunTogether
<1> QED
  BY TypeHolds, ListsHold, <1>1, PTL

\* The assertions of run_async_notifiers on the version to skip.
THEOREM NoFailedAssertionCorrect == Spec => []NoFailedAssertion
<1>1. TypeInv /\ ListsInv => NoFailedAssertion
  BY DEF TypeInv, NumbersType, ListsInv, NoFailedAssertion
<1> QED
  BY TypeHolds, ListsHold, <1>1, PTL

LEMMA PinNext == TypeInv /\ ListsInv /\ NotifiersInv /\ PinCoversNew /\ [Next]_vars => PinCoversNew'
<1> SUFFICES ASSUME NumbersType, ListsType, ListsInv, NotifiersInv, PinCoversNew, [Next]_vars
             PROVE  PinCoversNew'
  BY DEF TypeInv
<1> USE DEF file, lists, run, notifier, cbs, threads, history
<1>1. ASSUME NEW n \in Notifiers, Register(n) PROVE PinCoversNew'
  <2>1. /\ n \notin new /\ read[RealmOf[n]] # 0
        /\ read[RealmOf[n]] \in Nat /\ pin \in Nat /\ \A k \in Notifiers : version[k] \in Nat
    BY <1>1 DEF Register, NotifiersInv, NotifierOK, NumbersType, Versions
  <2>2. /\ pin' = IF new = {} \/ read[RealmOf[n]] < pin THEN read[RealmOf[n]] ELSE pin
        /\ new' = new \cup {n} /\ version' = [version EXCEPT ![n] = read[RealmOf[n]]]
    BY <1>1 DEF Register, Pinned
  <2>3. \A k \in new' : version'[k] = IF k = n THEN read[RealmOf[n]] ELSE version[k]
    BY <2>2 DEF ListsType, NumbersType
  <2>4. pin' # 0
    BY <2>1, <2>2 DEF PinCoversNew
  <2>5. \A k \in new' : pin' <= version'[k]
    <3> SUFFICES ASSUME NEW k \in new' PROVE pin' <= version'[k]
      OBVIOUS
    <3>1. k \in Notifiers /\ (k # n => k \in new /\ pin <= version[k] /\ new # {})
      BY <2>2 DEF PinCoversNew, ListsType
    <3>2. pin' <= read[RealmOf[n]] /\ (new # {} => pin' <= pin)
      BY <2>1, <2>2
    <3>3. pin' \in Nat
      BY <2>1, <2>2
    <3> QED
      BY <2>1, <2>3, <3>1, <3>2, <3>3
  <2> QED
    BY <2>2, <2>4, <2>5 DEF PinCoversNew
<1>2. ASSUME NEW n \in Notifiers, AddCallback(n) PROVE PinCoversNew'
  BY <1>2 DEF AddCallback, WakeUp, InUse, PinCoversNew
<1>3. ASSUME NEW n \in Notifiers, RemoveCallback(n) PROVE PinCoversNew'
  BY <1>3 DEF RemoveCallback, PinCoversNew
<1>4. ASSUME NEW n \in Notifiers, Unregister(n) PROVE PinCoversNew'
  BY <1>4 DEF Unregister, PinCoversNew
<1>5. ASSUME StartRun PROVE PinCoversNew'
  BY <1>5 DEF StartRun, SkipKept, Living, PinCoversNew
<1>6. ASSUME FinishSkip PROVE PinCoversNew'
  <2>1. HandOver(olds, skip) /\ olds \cap new = {} /\ new' = new /\ pin' = pin
    BY <1>6 DEF FinishSkip, ListsInv
  <2>2. \A k \in new : version'[k] = version[k]
    BY <2>1, HandedOver DEF ListsType
  <2> QED
    BY <2>1, <2>2 DEF PinCoversNew
<1>7. ASSUME FinishRun PROVE PinCoversNew'
  <2>1. /\ HandOver(old, target) /\ old \cap new = {} /\ new' \subseteq new
        /\ pin' = IF new' = {} THEN 0 ELSE pin
    BY <1>7 DEF FinishRun, ListsInv, Living
  <2>2. \A k \in new : version'[k] = version[k]
    BY <2>1, HandedOver DEF ListsType
  <2> QED
    BY <2>1, <2>2 DEF PinCoversNew
<1>8. ASSUME NEW r \in Realms, StartWait(r) PROVE PinCoversNew'
  BY <1>8 DEF StartWait, Refresh, BeginTransaction, ForRealm, PinCoversNew
<1>9. ASSUME NEW r \in Realms, PackageAndWait(r) PROVE PinCoversNew'
  BY <1>9 DEF PackageAndWait, Take, Runnable, VersionOf, PinCoversNew
<1>10. ASSUME NEW r \in Realms, Notify(r) PROVE PinCoversNew'
  BY <1>10 DEF Notify, Take, Runnable, VersionOf, ForRealm, Late, PinCoversNew
<1>11. ASSUME NEW r \in Realms, NotifyIgnored(r) PROVE PinCoversNew'
  BY <1>11 DEF NotifyIgnored, PinCoversNew
<1>12. ASSUME NEW r \in Realms, Deliver(r) PROVE PinCoversNew'
  BY <1>12 DEF Deliver, AdvancesTo, PinCoversNew
<1>13. ASSUME NEW r \in Realms, EndNotifying(r) PROVE PinCoversNew'
  BY <1>13 DEF EndNotifying, Forget, PinCoversNew
<1>14. ASSUME NEW r \in Realms, BeginInside(r) PROVE PinCoversNew'
  BY <1>14 DEF BeginInside, Forget, PinCoversNew
<1>15. ASSUME NEW r \in Realms, Cancel(r) PROVE PinCoversNew'
  BY <1>15 DEF Cancel, PinCoversNew
<1>16. ASSUME NEW r \in Realms, Commit(r) PROVE PinCoversNew'
  BY <1>16 DEF Commit, WakeUp, PinCoversNew
<1>17. ASSUME CommitElsewhere PROVE PinCoversNew'
  BY <1>17 DEF CommitElsewhere, WakeUp, PinCoversNew
<1>19. ASSUME NEW r \in Realms, NEW n \in Notifiers, Suppress(r, n) PROVE PinCoversNew'
  BY <1>19 DEF Suppress, PinCoversNew
<1>18. ASSUME UNCHANGED vars PROVE PinCoversNew'
  BY <1>18 DEF vars, PinCoversNew
<1> QED
  BY <1>1, <1>2, <1>3, <1>4, <1>5, <1>6, <1>7, <1>8, <1>9, <1>10, <1>11, <1>12, <1>13, <1>14,
     <1>15, <1>16, <1>17, <1>18, <1>19 DEF Next, User, Worker, RealmStep

\* pin_version: the version pinned for the notifiers that wait for their first run is not
\* newer than any of theirs.
THEOREM PinCorrect == Spec => []PinCoversNew
<1>1. Init => PinCoversNew
  BY DEF Init, PinCoversNew
<1> QED
  BY TypeHolds, ListsHold, <1>1, PinNext, PTL DEF Spec

-----------------------------------------------------------------------------
(* The Realms.                                                             *)

\* What a thread packages notifiers for is not older than what it has read.
RealmOK(r) ==
    /\ pc[r] = "wait" => upTo[r] >= read[r]
    /\ pc[r] = "packaged" => goal[r] = "here" \/ upTo[r] = 0 \/ upTo[r] >= read[r]

RealmsInv == \A r \in Realms : RealmOK(r)

LEMMA RealmsInvNext == TypeInv /\ RealmsInv /\ [Next]_vars => RealmsInv'
<1> SUFFICES ASSUME NumbersType, RealmsType, RealmsInv, [Next]_vars, NEW q \in Realms
             PROVE  RealmOK(q)'
  BY DEF TypeInv, RealmsInv
<1>a. RealmOK(q)
  BY DEF RealmsInv
<1> USE DEF file, lists, run, notifier, cbs, threads, history
<1>1. ASSUME NEW n \in Notifiers, Register(n) PROVE RealmOK(q)'
  BY <1>a, <1>1 DEF Register, InUse, Pinned, RealmOK, NumbersType, RealmsType
<1>2. ASSUME NEW n \in Notifiers, AddCallback(n) PROVE RealmOK(q)'
  BY <1>a, <1>2 DEF AddCallback, WakeUp, InUse, RealmOK, NumbersType, RealmsType
<1>3. ASSUME NEW n \in Notifiers, RemoveCallback(n) PROVE RealmOK(q)'
  BY <1>a, <1>3 DEF RemoveCallback, RealmOK, NumbersType, RealmsType
<1>4. ASSUME NEW n \in Notifiers, Unregister(n) PROVE RealmOK(q)'
  BY <1>a, <1>4 DEF Unregister, RealmOK, NumbersType, RealmsType
<1>5. ASSUME StartRun PROVE RealmOK(q)'
  BY <1>a, <1>5 DEF StartRun, SkipKept, Living, RealmOK, NumbersType, RealmsType
<1>6. ASSUME FinishSkip PROVE RealmOK(q)'
  BY <1>a, <1>6 DEF FinishSkip, HandOver, RealmOK, NumbersType, RealmsType
<1>7. ASSUME FinishRun PROVE RealmOK(q)'
  BY <1>a, <1>7 DEF FinishRun, HandOver, SkipKept, Living, RealmOK, NumbersType, RealmsType
<1>8. ASSUME NEW r \in Realms, StartWait(r) PROVE RealmOK(q)'
  BY <1>a, <1>8 DEF StartWait, Refresh, BeginTransaction, ForRealm, RealmOK, NumbersType, RealmsType
<1>9. ASSUME NEW r \in Realms, PackageAndWait(r) PROVE RealmOK(q)'
  BY <1>a, <1>9 DEF PackageAndWait, Take, Runnable, VersionOf, RealmOK, NumbersType, RealmsType
<1>10. ASSUME NEW r \in Realms, Notify(r) PROVE RealmOK(q)'
  BY <1>a, <1>10 DEF Notify, Take, Runnable, VersionOf, ForRealm, Late, RealmOK, NumbersType,
     RealmsType
<1>11. ASSUME NEW r \in Realms, NotifyIgnored(r) PROVE RealmOK(q)'
  BY <1>a, <1>11 DEF NotifyIgnored, RealmOK, NumbersType, RealmsType
<1>12. ASSUME NEW r \in Realms, Deliver(r) PROVE RealmOK(q)'
  BY <1>a, <1>12 DEF Deliver, AdvancesTo, RealmOK, NumbersType, RealmsType
<1>13. ASSUME NEW r \in Realms, EndNotifying(r) PROVE RealmOK(q)'
  BY <1>a, <1>13 DEF EndNotifying, Forget, RealmOK, NumbersType, RealmsType
<1>14. ASSUME NEW r \in Realms, BeginInside(r) PROVE RealmOK(q)'
  BY <1>a, <1>14 DEF BeginInside, Forget, RealmOK, NumbersType, RealmsType
<1>15. ASSUME NEW r \in Realms, Cancel(r) PROVE RealmOK(q)'
  BY <1>a, <1>15 DEF Cancel, RealmOK, NumbersType, RealmsType
<1>16. ASSUME NEW r \in Realms, Commit(r) PROVE RealmOK(q)'
  BY <1>a, <1>16 DEF Commit, WakeUp, RealmOK, NumbersType, RealmsType
<1>17. ASSUME CommitElsewhere PROVE RealmOK(q)'
  BY <1>a, <1>17 DEF CommitElsewhere, WakeUp, RealmOK, NumbersType, RealmsType
<1>19. ASSUME NEW r \in Realms, NEW n \in Notifiers, Suppress(r, n) PROVE RealmOK(q)'
  BY <1>a, <1>19 DEF Suppress, RealmOK, NumbersType, RealmsType
<1>18. ASSUME UNCHANGED vars PROVE RealmOK(q)'
  BY <1>a, <1>18 DEF vars, RealmOK, NumbersType, RealmsType
<1> QED
  BY <1>1, <1>2, <1>3, <1>4, <1>5, <1>6, <1>7, <1>8, <1>9, <1>10, <1>11, <1>12, <1>13, <1>14,
     <1>15, <1>16, <1>17, <1>18, <1>19 DEF Next, User, Worker, RealmStep

LEMMA ReadGrows ==
  ASSUME TypeInv, RealmsInv, [Next]_vars, NEW q \in Realms
  PROVE  read'[q] >= read[q]
<1> USE DEF TypeInv, NumbersType
<1>a. RealmOK(q)
  BY DEF RealmsInv
<1> DEFINE Goal == read'[q] >= read[q]
<1> SUFFICES Goal
  OBVIOUS
<1> USE DEF file, lists, run, notifier, cbs, threads, history
<1>1. ASSUME NEW n \in Notifiers, Register(n) PROVE Goal
  BY <1>a, <1>1 DEF Register, InUse, Pinned, RealmOK
<1>2. ASSUME NEW n \in Notifiers, AddCallback(n) PROVE Goal
  BY <1>a, <1>2 DEF AddCallback, WakeUp, InUse, RealmOK
<1>3. ASSUME NEW n \in Notifiers, RemoveCallback(n) PROVE Goal
  BY <1>a, <1>3 DEF RemoveCallback, RealmOK
<1>4. ASSUME NEW n \in Notifiers, Unregister(n) PROVE Goal
  BY <1>a, <1>4 DEF Unregister, RealmOK
<1>5. ASSUME StartRun PROVE Goal
  BY <1>a, <1>5 DEF StartRun, SkipKept, Living, RealmOK
<1>6. ASSUME FinishSkip PROVE Goal
  BY <1>a, <1>6 DEF FinishSkip, HandOver, RealmOK
<1>7. ASSUME FinishRun PROVE Goal
  BY <1>a, <1>7 DEF FinishRun, HandOver, SkipKept, Living, RealmOK
<1>8. ASSUME NEW r \in Realms, StartWait(r) PROVE Goal
  BY <1>a, <1>8 DEF StartWait, Refresh, BeginTransaction, ForRealm, RealmOK
<1>9. ASSUME NEW r \in Realms, PackageAndWait(r) PROVE Goal
  BY <1>a, <1>9 DEF PackageAndWait, Take, Runnable, VersionOf, RealmOK
<1>10. ASSUME NEW r \in Realms, Notify(r) PROVE Goal
  BY <1>a, <1>10 DEF Notify, Take, Runnable, VersionOf, ForRealm, Late, RealmOK
<1>11. ASSUME NEW r \in Realms, NotifyIgnored(r) PROVE Goal
  BY <1>a, <1>11 DEF NotifyIgnored, RealmOK
<1>12. ASSUME NEW r \in Realms, Deliver(r) PROVE Goal
  BY <1>a, <1>12 DEF Deliver, AdvancesTo, RealmOK
<1>13. ASSUME NEW r \in Realms, EndNotifying(r) PROVE Goal
  BY <1>a, <1>13 DEF EndNotifying, Forget, RealmOK
<1>14. ASSUME NEW r \in Realms, BeginInside(r) PROVE Goal
  BY <1>a, <1>14 DEF BeginInside, Forget, RealmOK
<1>15. ASSUME NEW r \in Realms, Cancel(r) PROVE Goal
  BY <1>a, <1>15 DEF Cancel, RealmOK
<1>16. ASSUME NEW r \in Realms, Commit(r) PROVE Goal
  <2>1. read' = [read EXCEPT ![r] = latest'] /\ latest' = latest + 1
    BY <1>16 DEF Commit
  <2>2. read[q] \in Nat /\ latest \in Nat /\ read[q] <= latest
    BY DEF Versions
  <2> QED
    BY <2>1, <2>2
<1>17. ASSUME CommitElsewhere PROVE Goal
  BY <1>a, <1>17 DEF CommitElsewhere, WakeUp, RealmOK
<1>19. ASSUME NEW r \in Realms, NEW n \in Notifiers, Suppress(r, n) PROVE Goal
  BY <1>a, <1>19 DEF Suppress, RealmOK
<1>18. ASSUME UNCHANGED vars PROVE Goal
  BY <1>a, <1>18 DEF vars, RealmOK
<1> QED
  BY <1>1, <1>2, <1>3, <1>4, <1>5, <1>6, <1>7, <1>8, <1>9, <1>10, <1>11, <1>12, <1>13, <1>14,
     <1>15, <1>16, <1>17, <1>18, <1>19 DEF Next, User, Worker, RealmStep

\* Realm::notify, advance_to_ready and package_and_wait: however late notifications are, no
\* Realm goes back to an older version.
THEOREM NeverBackCorrect == Spec => NeverBack
<1> DEFINE Step == \A r \in Realms : read'[r] >= read[r]
<1>1. Init => RealmsInv
  BY DEF Init, RealmsInv, RealmOK
<1>2. TypeInv /\ RealmsInv /\ [Next]_vars => Step
  BY ReadGrows
<1> HIDE DEF Step
<1>3. Spec => [][Step]_vars
  BY TypeHolds, <1>1, RealmsInvNext, <1>2, PTL DEF Spec
<1> QED
  BY <1>3 DEF Step, NeverBack

-----------------------------------------------------------------------------
(* The waits.                                                              *)

\* A notifier with a callback is at the latest version, or will be.
NotifierAwake(n) ==
    callback[n] =>
      \/ woken
      \/ stage # "idle" /\ n \in olds \cup news /\ target = latest
      \/ hasRun[n] /\ version[n] = latest

Awake == \A n \in Notifiers : NotifierAwake(n)

LEMMA AwakeNext == TypeInv /\ ListsInv /\ NotifiersInv /\ Awake /\ [Next]_vars => Awake'
<1> SUFFICES ASSUME NumbersType, ListsType, ListsInv, NotifiersInv, Awake, [Next]_vars,
                    NEW m \in Notifiers
             PROVE  NotifierAwake(m)'
  BY DEF TypeInv, Awake
<1>a. NotifierAwake(m) /\ NotifierOK(m)
  BY DEF NotifiersInv, Awake
<1> USE DEF file, lists, run, notifier, cbs, threads, history
<1>1. ASSUME NEW n \in Notifiers, Register(n) PROVE NotifierAwake(m)'
  BY <1>a, <1>1 DEF Register, InUse, Pinned, NotifierAwake, NotifierOK, ListsType
<1>2. ASSUME NEW n \in Notifiers, AddCallback(n) PROVE NotifierAwake(m)'
  BY <1>a, <1>2 DEF AddCallback, WakeUp, InUse, NotifierAwake, NotifierOK, ListsType
<1>3. ASSUME NEW n \in Notifiers, RemoveCallback(n) PROVE NotifierAwake(m)'
  BY <1>a, <1>3 DEF RemoveCallback, NotifierAwake, NotifierOK, ListsType
<1>4. ASSUME NEW n \in Notifiers, Unregister(n) PROVE NotifierAwake(m)'
  BY <1>a, <1>4 DEF Unregister, NotifierAwake, NotifierOK, ListsType
<1>5. ASSUME StartRun PROVE NotifierAwake(m)'
  BY <1>a, <1>5 DEF StartRun, SkipKept, Living, NotifierAwake, NotifierOK, ListsType
<1>6. ASSUME FinishSkip PROVE NotifierAwake(m)'
  <2>1. HandOver(olds, skip) /\ stage = "skip" /\ stage' = "rest" /\ sg = sg
        /\ UNCHANGED <<olds, news, target, latest, woken, callback>>
    BY <1>6 DEF FinishSkip
  <2>2. /\ version'[m] = IF m \in olds THEN skip ELSE version[m]
        /\ hasRun'[m] <=> (hasRun[m] \/ m \in olds)
    BY <2>1, HandedOver
  <2>3. m \in olds /\ hasRun[m] /\ version[m] = latest => target = latest
    BY <1>a, <2>1 DEF NotifierOK, ListsInv, NumbersType, Versions
  <2> QED
    BY <1>a, <2>1, <2>2, <2>3 DEF NotifierAwake
<1>7. ASSUME FinishRun PROVE NotifierAwake(m)'
  <2>1. /\ HandOver(old, target) /\ stage = "rest" /\ old = olds \cup news
        /\ UNCHANGED <<latest, woken, callback>>
    BY <1>7 DEF FinishRun, ListsInv
  <2>2. /\ version'[m] = IF m \in old THEN target ELSE version[m]
        /\ hasRun'[m] <=> (hasRun[m] \/ m \in old)
    BY <2>1, HandedOver
  <2>3. m \in old /\ hasRun[m] /\ version[m] = latest => target = latest
    BY <1>a, <2>1 DEF NotifierOK, ListsInv, NumbersType, Versions
  <2> QED
    BY <1>a, <2>1, <2>2, <2>3 DEF NotifierAwake
<1>8. ASSUME NEW r \in Realms, StartWait(r) PROVE NotifierAwake(m)'
  BY <1>a, <1>8 DEF StartWait, Refresh, BeginTransaction, ForRealm, NotifierAwake, NotifierOK,
     ListsType
<1>9. ASSUME NEW r \in Realms, PackageAndWait(r) PROVE NotifierAwake(m)'
  BY <1>a, <1>9 DEF PackageAndWait, Take, Runnable, VersionOf, NotifierAwake, NotifierOK, ListsType
<1>10. ASSUME NEW r \in Realms, Notify(r) PROVE NotifierAwake(m)'
  BY <1>a, <1>10 DEF Notify, Take, Runnable, VersionOf, ForRealm, Late, NotifierAwake, NotifierOK,
     ListsType
<1>11. ASSUME NEW r \in Realms, NotifyIgnored(r) PROVE NotifierAwake(m)'
  BY <1>a, <1>11 DEF NotifyIgnored, NotifierAwake, NotifierOK, ListsType
<1>12. ASSUME NEW r \in Realms, Deliver(r) PROVE NotifierAwake(m)'
  BY <1>a, <1>12 DEF Deliver, AdvancesTo, NotifierAwake, NotifierOK, ListsType
<1>13. ASSUME NEW r \in Realms, EndNotifying(r) PROVE NotifierAwake(m)'
  BY <1>a, <1>13 DEF EndNotifying, Forget, NotifierAwake, NotifierOK, ListsType
<1>14. ASSUME NEW r \in Realms, BeginInside(r) PROVE NotifierAwake(m)'
  BY <1>a, <1>14 DEF BeginInside, Forget, NotifierAwake, NotifierOK, ListsType
<1>15. ASSUME NEW r \in Realms, Cancel(r) PROVE NotifierAwake(m)'
  BY <1>a, <1>15 DEF Cancel, NotifierAwake, NotifierOK, ListsType
<1>16. ASSUME NEW r \in Realms, Commit(r) PROVE NotifierAwake(m)'
  BY <1>a, <1>16 DEF Commit, WakeUp, NotifierAwake, NotifierOK, ListsType
<1>17. ASSUME CommitElsewhere PROVE NotifierAwake(m)'
  BY <1>a, <1>17 DEF CommitElsewhere, WakeUp, NotifierAwake, NotifierOK, ListsType
<1>19. ASSUME NEW r \in Realms, NEW n \in Notifiers, Suppress(r, n) PROVE NotifierAwake(m)'
  BY <1>a, <1>19 DEF Suppress, NotifierAwake, NotifierOK, ListsType
<1>18. ASSUME UNCHANGED vars PROVE NotifierAwake(m)'
  BY <1>a, <1>18 DEF vars, NotifierAwake, NotifierOK, ListsType
<1> QED
  BY <1>1, <1>2, <1>3, <1>4, <1>5, <1>6, <1>7, <1>8, <1>9, <1>10, <1>11, <1>12, <1>13, <1>14,
     <1>15, <1>16, <1>17, <1>18, <1>19 DEF Next, User, Worker, RealmStep

\* What a waiting thread can count on for one of the notifiers it waits for.
Expected(r, n) ==
    \/ Ready(n, upTo[r])
    \/ stage # "idle" /\ n \in olds \cup news /\ target >= upTo[r]
    \/ woken /\ alive[n] /\ n \in old \cup new

\* Only a thread that waits already, or begins to, waits after a step.
LEMMA StillWaiting ==
  ASSUME RealmsType, NumbersType, [Next]_vars, NEW q \in Realms, pc'[q] = "wait"
  PROVE  \/ StartWait(q)
         \/ pc[q] = "wait" /\ package'[q] = package[q] /\ upTo'[q] = upTo[q]
<1> USE DEF RealmsType, NumbersType
<1> DEFINE Goal == \/ StartWait(q)
                   \/ pc[q] = "wait" /\ package'[q] = package[q] /\ upTo'[q] = upTo[q]
<1> SUFFICES Goal
  OBVIOUS
<1> USE DEF file, lists, run, notifier, cbs, threads, history
<1>1. ASSUME NEW n \in Notifiers, Register(n) PROVE Goal
  BY <1>1 DEF Register, InUse, Pinned, Goal
<1>2. ASSUME NEW n \in Notifiers, AddCallback(n) PROVE Goal
  BY <1>2 DEF AddCallback, WakeUp, InUse, Goal
<1>3. ASSUME NEW n \in Notifiers, RemoveCallback(n) PROVE Goal
  BY <1>3 DEF RemoveCallback, Goal
<1>4. ASSUME NEW n \in Notifiers, Unregister(n) PROVE Goal
  BY <1>4 DEF Unregister, Goal
<1>5. ASSUME StartRun PROVE Goal
  BY <1>5 DEF StartRun, SkipKept, Living, Goal
<1>6. ASSUME FinishSkip PROVE Goal
  BY <1>6 DEF FinishSkip, HandOver, Goal
<1>7. ASSUME FinishRun PROVE Goal
  BY <1>7 DEF FinishRun, HandOver, SkipKept, Living, Goal
<1>8. ASSUME NEW r \in Realms, StartWait(r) PROVE Goal
  <2>1. CASE r = q
    BY <1>8, <2>1
  <2>2. CASE r # q
    BY <1>8, <2>2 DEF StartWait
  <2> QED
    BY <2>1, <2>2
<1>9. ASSUME NEW r \in Realms, PackageAndWait(r) PROVE Goal
  BY <1>9 DEF PackageAndWait, Take, Runnable, VersionOf, Goal
<1>10. ASSUME NEW r \in Realms, Notify(r) PROVE Goal
  BY <1>10 DEF Notify, Take, Runnable, VersionOf, ForRealm, Late, Goal
<1>11. ASSUME NEW r \in Realms, NotifyIgnored(r) PROVE Goal
  BY <1>11 DEF NotifyIgnored, Goal
<1>12. ASSUME NEW r \in Realms, Deliver(r) PROVE Goal
  BY <1>12 DEF Deliver, AdvancesTo, Goal
<1>13. ASSUME NEW r \in Realms, EndNotifying(r) PROVE Goal
  BY <1>13 DEF EndNotifying, Forget, Goal
<1>14. ASSUME NEW r \in Realms, BeginInside(r) PROVE Goal
  BY <1>14 DEF BeginInside, Forget, Goal
<1>15. ASSUME NEW r \in Realms, Cancel(r) PROVE Goal
  BY <1>15 DEF Cancel, Goal
<1>16. ASSUME NEW r \in Realms, Commit(r) PROVE Goal
  BY <1>16 DEF Commit, WakeUp, Goal
<1>17. ASSUME CommitElsewhere PROVE Goal
  BY <1>17 DEF CommitElsewhere, WakeUp, Goal
<1>19. ASSUME NEW r \in Realms, NEW n \in Notifiers, Suppress(r, n) PROVE Goal
  BY <1>19 DEF Suppress, Goal
<1>18. ASSUME UNCHANGED vars PROVE Goal
  BY <1>18 DEF vars, Goal
<1> QED
  BY <1>1, <1>2, <1>3, <1>4, <1>5, <1>6, <1>7, <1>8, <1>9, <1>10, <1>11, <1>12, <1>13, <1>14,
     <1>15, <1>16, <1>17, <1>18, <1>19 DEF Next, User, Worker, RealmStep

LEMMA ExpectedNext ==
  ASSUME TypeInv, ListsInv, NotifiersInv, [Next]_vars, NEW q \in Realms, NEW m \in Notifiers,
         Expected(q, m), upTo'[q] = upTo[q]
  PROVE  Expected(q, m)'
<1>a. NotifierOK(m)
  BY DEF NotifiersInv
<1>b. ListsType /\ NumbersType /\ \A k \in Notifiers : version[k] \in Nat
  BY DEF TypeInv, NumbersType, Versions
<1> USE DEF Expected, Ready
<1> USE DEF file, lists, run, notifier, cbs, threads, history
<1>1. ASSUME NEW n \in Notifiers, Register(n) PROVE Expected(q, m)'
  <2>1. /\ n = m => ~callback[m] /\ ~callback'[m]
        /\ n # m => alive'[m] = alive[m] /\ version'[m] = version[m]
        /\ alive[m] => alive'[m]
        /\ UNCHANGED <<old, woken, stage, olds, news, target, hasRun, callback>> /\ new \subseteq new'
    BY <1>1, <1>a, <1>b DEF Register, NotifierOK, NumbersType, ListsType
  <2> QED
    BY <2>1
<1>2. ASSUME NEW n \in Notifiers, AddCallback(n) PROVE Expected(q, m)'
  BY <1>a, <1>b, <1>2 DEF AddCallback, WakeUp, InUse, NotifierOK, ListsType
<1>3. ASSUME NEW n \in Notifiers, RemoveCallback(n) PROVE Expected(q, m)'
  BY <1>a, <1>b, <1>3 DEF RemoveCallback, NotifierOK, ListsType
<1>4. ASSUME NEW n \in Notifiers, Unregister(n) PROVE Expected(q, m)'
  BY <1>a, <1>b, <1>4 DEF Unregister, NotifierOK, ListsType
<1>5. ASSUME StartRun PROVE Expected(q, m)'
  <2>1. CASE Living(old) \cup Living(new) = {}
    <3>1. ~alive[m]
      BY <1>a, <2>1 DEF NotifierOK, Living
    <3> QED
      BY <1>5, <1>a, <3>1 DEF StartRun, NotifierOK
  <2>2. CASE Living(old) \cup Living(new) # {}
    <3>1. /\ olds' = Living(old) /\ news' = Living(new) /\ target' = latest /\ stage = "idle"
          /\ stage' \in {"rest", "failed", "skip"}
          /\ UNCHANGED <<hasRun, version, callback>>
      BY <1>5, <2>2 DEF StartRun
    <3>2. upTo[q] <= latest
      BY <1>b DEF NumbersType, Versions
    <3>3. woken /\ alive[m] /\ m \in old \cup new => m \in olds' \cup news'
      BY <3>1 DEF Living
    <3> QED
      BY <3>1, <3>2, <3>3, <1>b DEF NumbersType, Versions
  <2> QED
    BY <2>1, <2>2
<1>6. ASSUME FinishSkip PROVE Expected(q, m)'
  <2>1. /\ HandOver(olds, skip) /\ stage = "skip" /\ stage' = "rest" /\ sg <= target
        /\ UNCHANGED <<old, new, olds, news, target, woken, callback, alive>>
    BY <1>6 DEF FinishSkip, ListsInv
  <2>2. /\ version'[m] = IF m \in olds THEN skip ELSE version[m]
        /\ hasRun'[m] <=> (hasRun[m] \/ m \in olds)
    BY <2>1, HandedOver
  <2>3. m \in olds /\ hasRun[m] /\ version[m] >= upTo[q] => target >= upTo[q]
    <3>1. m \in olds => version[m] = sg
      BY <1>a, <2>1, <1>6 DEF NotifierOK, ListsInv
    <3>2. sg \in Nat /\ target \in Nat /\ upTo[q] \in Nat
      BY <1>b DEF NumbersType, Versions
    <3> QED
      BY <2>1, <3>1, <3>2
  <2> QED
    BY <2>1, <2>2, <2>3
<1>7. ASSUME FinishRun PROVE Expected(q, m)'
  <2>1. /\ HandOver(old, target) /\ stage = "rest" /\ old = olds \cup news /\ sg <= target
        /\ old' = Living(old) /\ new' = Living(new)
        /\ UNCHANGED <<woken, callback, alive>>
    BY <1>7 DEF FinishRun, ListsInv
  <2>2. /\ version'[m] = IF m \in old THEN target ELSE version[m]
        /\ hasRun'[m] <=> (hasRun[m] \/ m \in old)
    BY <2>1, HandedOver
  <2>3. m \in old /\ hasRun[m] /\ version[m] >= upTo[q] => target >= upTo[q]
    <3>1. m \in old /\ hasRun[m] => version[m] = sg
      BY <1>a, <2>1 DEF NotifierOK
    <3>2. sg \in Nat /\ target \in Nat /\ upTo[q] \in Nat
      BY <1>b DEF NumbersType, Versions
    <3> QED
      BY <2>1, <3>1, <3>2
  <2>4. alive[m] /\ m \in old \cup new => m \in old' \cup new'
    BY <2>1 DEF Living
  <2> QED
    BY <2>1, <2>2, <2>3, <2>4
<1>8. ASSUME NEW r \in Realms, StartWait(r) PROVE Expected(q, m)'
  BY <1>a, <1>b, <1>8 DEF StartWait, Refresh, BeginTransaction, ForRealm, NotifierOK, ListsType
<1>9. ASSUME NEW r \in Realms, PackageAndWait(r) PROVE Expected(q, m)'
  BY <1>a, <1>b, <1>9 DEF PackageAndWait, Take, Runnable, VersionOf, NotifierOK, ListsType
<1>10. ASSUME NEW r \in Realms, Notify(r) PROVE Expected(q, m)'
  BY <1>a, <1>b, <1>10 DEF Notify, Take, Runnable, VersionOf, ForRealm, Late, NotifierOK, ListsType
<1>11. ASSUME NEW r \in Realms, NotifyIgnored(r) PROVE Expected(q, m)'
  BY <1>a, <1>b, <1>11 DEF NotifyIgnored, NotifierOK, ListsType
<1>12. ASSUME NEW r \in Realms, Deliver(r) PROVE Expected(q, m)'
  BY <1>a, <1>b, <1>12 DEF Deliver, AdvancesTo, NotifierOK, ListsType
<1>13. ASSUME NEW r \in Realms, EndNotifying(r) PROVE Expected(q, m)'
  BY <1>a, <1>b, <1>13 DEF EndNotifying, Forget, NotifierOK, ListsType
<1>14. ASSUME NEW r \in Realms, BeginInside(r) PROVE Expected(q, m)'
  BY <1>a, <1>b, <1>14 DEF BeginInside, Forget, NotifierOK, ListsType
<1>15. ASSUME NEW r \in Realms, Cancel(r) PROVE Expected(q, m)'
  BY <1>a, <1>b, <1>15 DEF Cancel, NotifierOK, ListsType
<1>16. ASSUME NEW r \in Realms, Commit(r) PROVE Expected(q, m)'
  BY <1>a, <1>b, <1>16 DEF Commit, WakeUp, NotifierOK, ListsType
<1>17. ASSUME CommitElsewhere PROVE Expected(q, m)'
  BY <1>a, <1>b, <1>17 DEF CommitElsewhere, WakeUp, NotifierOK, ListsType
<1>19. ASSUME NEW r \in Realms, NEW n \in Notifiers, Suppress(r, n) PROVE Expected(q, m)'
  BY <1>a, <1>b, <1>19 DEF Suppress, NotifierOK, ListsType
<1>18. ASSUME UNCHANGED vars PROVE Expected(q, m)'
  BY <1>a, <1>b, <1>18 DEF vars, NotifierOK, ListsType
<1> QED
  BY <1>1, <1>2, <1>3, <1>4, <1>5, <1>6, <1>7, <1>8, <1>9, <1>10, <1>11, <1>12, <1>13, <1>14,
     <1>15, <1>16, <1>17, <1>18, <1>19 DEF Next, User, Worker, RealmStep

LEMMA WaitNext ==
  TypeInv /\ ListsInv /\ NotifiersInv /\ Awake /\ NoLostWakeUp /\ [Next]_vars => NoLostWakeUp'
<1> SUFFICES ASSUME TypeInv, ListsInv, NotifiersInv, Awake, NoLostWakeUp, [Next]_vars,
                    NEW q \in Realms, pc'[q] = "wait", NEW m \in package'[q]
             PROVE  Expected(q, m)'
  BY DEF NoLostWakeUp, Expected
<1>1. CASE StartWait(q)
  <2>1. /\ m \in ForRealm(q) /\ upTo'[q] = latest
        /\ UNCHANGED <<woken, stage, olds, news, target, old, new, alive, callback, hasRun, version>>
    BY <1>1 DEF StartWait, TypeInv, NumbersType, RealmsType, lists, run, notifier, cbs
  <2>2. m \in Notifiers /\ alive[m] /\ m \in old \cup new
    BY <2>1 DEF ForRealm, TypeInv, ListsType
  <2>3. NotifierAwake(m) /\ latest \in Nat
    BY <2>2 DEF Awake, TypeInv, NumbersType, Versions
  <2> QED
    BY <2>1, <2>2, <2>3 DEF NotifierAwake, Expected, Ready
<1>2. CASE pc[q] = "wait" /\ package'[q] = package[q] /\ upTo'[q] = upTo[q]
  <2>1. m \in package[q] /\ m \in Notifiers
    BY <1>2 DEF TypeInv, RealmsType
  <2>2. Expected(q, m)
    BY <1>2, <2>1 DEF NoLostWakeUp, Expected
  <2> QED
    BY <1>2, <2>1, <2>2, ExpectedNext
<1> QED
  BY <1>1, <1>2, StillWaiting DEF TypeInv

\* package_and_wait: each notifier a thread waits for is part of the run under way, or the
\* notifier thread was woken, so that no wait is forgotten.
THEOREM NoLostWakeUpCorrect == Spec => []NoLostWakeUp
<1>1. Init => Awake /\ NoLostWakeUp
  BY DEF Init, Awake, NotifierAwake, NoLostWakeUp
<1>2. TypeInv /\ ListsInv /\ NotifiersInv /\ Awake /\ NoLostWakeUp /\ [Next]_vars
        => (Awake /\ NoLostWakeUp)'
  BY AwakeNext, WaitNext
<1> QED
  BY TypeHolds, ListsHold, <1>1, <1>2, PTL DEF Spec

-----------------------------------------------------------------------------
(* The write lock and the packages.                                        *)

\* A thread that wants to write holds the write lock from the start of its wait, so that
\* the version it waited for stays the latest one until it commits.
WriterOK(r) ==
    /\ pc[r] = "write" \/ (pc[r] # "idle" /\ goal[r] = "write") => writer = r
    /\ pc[r] = "wait" => goal[r] \in {"refresh", "write"}
    /\ pc[r] = "wait" /\ goal[r] = "write" => upTo[r] = latest
    /\ pc[r] = "packaged" /\ goal[r] = "write" => upTo[r] = 0
    /\ pc[r] = "write" \/ (pc[r] = "notifying" /\ goal[r] = "write") => read[r] = latest
    /\ \A n \in package[r] : RealmOf[n] = r

WritersInv == \A r \in Realms : WriterOK(r)

LEMMA WritersInvNext == TypeInv /\ WritersInv /\ [Next]_vars => WritersInv'
<1> SUFFICES ASSUME NumbersType, ListsType, RealmsType, WritersInv, [Next]_vars, NEW q \in Realms
             PROVE  WriterOK(q)'
  BY DEF TypeInv, WritersInv
<1>a. WriterOK(q)
  BY DEF WritersInv
<1> USE DEF file, lists, run, notifier, cbs, threads, history
<1>1. ASSUME NEW n \in Notifiers, Register(n) PROVE WriterOK(q)'
  BY <1>a, <1>1 DEF Register, InUse, Pinned, WriterOK, NumbersType, RealmsType
<1>2. ASSUME NEW n \in Notifiers, AddCallback(n) PROVE WriterOK(q)'
  BY <1>a, <1>2 DEF AddCallback, WakeUp, InUse, WriterOK, NumbersType, RealmsType
<1>3. ASSUME NEW n \in Notifiers, RemoveCallback(n) PROVE WriterOK(q)'
  BY <1>a, <1>3 DEF RemoveCallback, WriterOK, NumbersType, RealmsType
<1>4. ASSUME NEW n \in Notifiers, Unregister(n) PROVE WriterOK(q)'
  BY <1>a, <1>4 DEF Unregister, WriterOK, NumbersType, RealmsType
<1>5. ASSUME StartRun PROVE WriterOK(q)'
  BY <1>a, <1>5 DEF StartRun, SkipKept, Living, WriterOK, NumbersType, RealmsType
<1>6. ASSUME FinishSkip PROVE WriterOK(q)'
  BY <1>a, <1>6 DEF FinishSkip, HandOver, WriterOK, NumbersType, RealmsType
<1>7. ASSUME FinishRun PROVE WriterOK(q)'
  BY <1>a, <1>7 DEF FinishRun, HandOver, SkipKept, Living, WriterOK, NumbersType, RealmsType
<1>8. ASSUME NEW r \in Realms, StartWait(r) PROVE WriterOK(q)'
  BY <1>a, <1>8 DEF StartWait, Refresh, BeginTransaction, ForRealm, WriterOK, NumbersType,
     RealmsType
<1>9. ASSUME NEW r \in Realms, PackageAndWait(r) PROVE WriterOK(q)'
  BY <1>a, <1>9 DEF PackageAndWait, Take, Runnable, VersionOf, WriterOK, NumbersType, RealmsType
<1>10. ASSUME NEW r \in Realms, Notify(r) PROVE WriterOK(q)'
  BY <1>a, <1>10 DEF Notify, Take, Runnable, VersionOf, ForRealm, Late, WriterOK, NumbersType,
     RealmsType
<1>11. ASSUME NEW r \in Realms, NotifyIgnored(r) PROVE WriterOK(q)'
  BY <1>a, <1>11 DEF NotifyIgnored, WriterOK, NumbersType, RealmsType
<1>12. ASSUME NEW r \in Realms, Deliver(r) PROVE WriterOK(q)'
  BY <1>a, <1>12 DEF Deliver, AdvancesTo, WriterOK, NumbersType, RealmsType
<1>13. ASSUME NEW r \in Realms, EndNotifying(r) PROVE WriterOK(q)'
  BY <1>a, <1>13 DEF EndNotifying, Forget, WriterOK, NumbersType, RealmsType
<1>14. ASSUME NEW r \in Realms, BeginInside(r) PROVE WriterOK(q)'
  BY <1>a, <1>14 DEF BeginInside, Forget, WriterOK, NumbersType, RealmsType
<1>15. ASSUME NEW r \in Realms, Cancel(r) PROVE WriterOK(q)'
  <2>1. writer = r /\ pc[r] = "write"
    BY <1>15 DEF Cancel, WritersInv, WriterOK
  <2>2. CASE q = r
    BY <1>a, <1>15, <2>2 DEF Cancel, WriterOK, NumbersType, RealmsType
  <2>3. CASE q # r
    BY <1>a, <1>15, <2>1, <2>3 DEF Cancel, WriterOK
  <2> QED
    BY <2>2, <2>3
<1>16. ASSUME NEW r \in Realms, Commit(r) PROVE WriterOK(q)'
  <2>1. CASE q = r
    BY <1>a, <1>16, <2>1 DEF Commit, WakeUp, WriterOK, NumbersType, RealmsType
  <2>2. CASE q # r
    <3>1. writer = r
      BY <1>16 DEF Commit, WritersInv, WriterOK
    <3>2. ~(pc[q] = "write" \/ (pc[q] # "idle" /\ goal[q] = "write"))
      BY <1>a, <2>2, <3>1 DEF WriterOK
    <3> QED
      BY <1>a, <1>16, <2>2, <3>2 DEF Commit, WriterOK, NumbersType, RealmsType
  <2> QED
    BY <2>1, <2>2
<1>17. ASSUME CommitElsewhere PROVE WriterOK(q)'
  <2>1. ~(pc[q] = "write" \/ (pc[q] # "idle" /\ goal[q] = "write"))
    BY <1>a, <1>17 DEF CommitElsewhere, WriterOK
  <2> QED
    BY <1>a, <1>17, <2>1 DEF CommitElsewhere, WriterOK
<1>19. ASSUME NEW r \in Realms, NEW n \in Notifiers, Suppress(r, n) PROVE WriterOK(q)'
  BY <1>a, <1>19 DEF Suppress, WriterOK
<1>18. ASSUME UNCHANGED vars PROVE WriterOK(q)'
  BY <1>a, <1>18 DEF vars, WriterOK, NumbersType, RealmsType
<1> QED
  BY <1>1, <1>2, <1>3, <1>4, <1>5, <1>6, <1>7, <1>8, <1>9, <1>10, <1>11, <1>12, <1>13, <1>14,
     <1>15, <1>16, <1>17, <1>18, <1>19 DEF Next, User, Worker, RealmStep

\* Where a run takes the notifiers of the main list next.
Stop == IF stage = "skip" THEN skip ELSE target

InPackage(n) == pc[RealmOf[n]] = "packaged" /\ n \in package[RealmOf[n]]

\* Nothing is known to a callback that is gone; a thread waits for all that have one; and
\* what a run has computed leads from a notifier's version to where the run stops.
CallbackOK(n) ==
    /\ ~callback[n] => told[n] = {} /\ ~skipNext[n]
    /\ n \in muted => callback[n] /\ pc[RealmOf[n]] = "write"
    /\ told[n] # {} => hasRun[n]
    /\ InPackage(n) => hasRun[n]
    /\ callback[n] /\ pc[RealmOf[n]] = "wait" => n \in package[RealmOf[n]]
    /\ stage # "idle" /\ n \in olds => change[n] = Upto(version[n], Stop)

CallbacksInv == \A n \in Notifiers : CallbackOK(n)

LEMMA CallbacksInit == Init => WritersInv /\ CallbacksInv
  BY DEF Init, WritersInv, WriterOK, CallbacksInv, CallbackOK, InPackage

\* What a run starts to compute for each notifier of the main list.
LEMMA RunStarted ==
  ASSUME TypeInv, ListsInv, NotifiersInv, StartRun, NEW m \in Notifiers, m \in olds'
  PROVE  stage' # "idle" => change'[m] = Upto(version[m], Stop')
<1>1. CASE Living(old) \cup Living(new) = {}
  BY <1>1 DEF StartRun, run
<1>2. CASE Living(old) \cup Living(new) # {}
  <2>1. /\ olds' = Living(old) /\ target' = latest /\ skip' = SkipKept
        /\ stage' = IF SkipKept = 0 THEN "rest" ELSE IF Living(old) = {} THEN "failed" ELSE "skip"
        /\ stage = "idle"
        /\ change'[m] = CASE m \in Living(new) -> Upto(version[m], latest)
                          [] m \in Living(old) -> Upto(sg, IF SkipKept = 0 THEN latest ELSE SkipKept)
                          [] OTHER   -> {}
    BY <1>2 DEF StartRun
  <2>2. m \in old /\ m \in Living(old) /\ m \notin Living(new)
    BY <2>1 DEF Living, ListsInv
  <2>3. version[m] = sg
    BY <2>1, <2>2 DEF NotifiersInv, NotifierOK
  <2>4. change'[m] = Upto(version[m], IF SkipKept = 0 THEN latest ELSE SkipKept)
    BY <2>1, <2>2, <2>3
  <2>5. Stop' = IF SkipKept = 0 THEN latest ELSE SkipKept
    BY <2>1, <2>2 DEF Stop
  <2> QED
    BY <2>4, <2>5
<1> QED
  BY <1>1, <1>2

\* What a callback knows of after its Realm's thread has delivered.
LEMMA Delivered ==
  ASSUME NEW r \in Realms, Deliver(r), NEW m \in Notifiers
  PROVE  /\ m \notin package[r] \/ ~callback[m] => told'[m] = told[m]
         /\ m \in package[r] /\ callback[m] =>
              told'[m] = IF told[m] = {} THEN 1 .. read'[r] ELSE told[m] \cup due[m]
  BY DEF Deliver

LEMMA CallbacksInvNext ==
  TypeInv /\ ListsInv /\ NotifiersInv /\ WritersInv /\ CallbacksInv /\ [Next]_vars => CallbacksInv'
<1> SUFFICES ASSUME TypeInv, NumbersType, ListsType, ChangesType, RealmsType, ListsInv,
                    NotifiersInv, WritersInv, CallbacksInv, [Next]_vars, NEW m \in Notifiers
             PROVE  CallbackOK(m)'
  BY DEF TypeInv, CallbacksInv
<1>a. CallbackOK(m) /\ NotifierOK(m) /\ RealmOf[m] \in Realms
  BY DEF CallbacksInv, NotifiersInv
<1> USE DEF file, lists, run, notifier, cbs, threads, history
<1>1. ASSUME NEW n \in Notifiers, Register(n) PROVE CallbackOK(m)'
  <2>1. m \in old => m # n
    BY <1>a, <1>1 DEF Register, NotifierOK
  <2>2. stage # "idle" /\ m \in olds => version'[m] = version[m]
    BY <1>1, <2>1 DEF Register, ListsInv, NumbersType
  <2> QED
    BY <1>a, <1>1, <2>2 DEF Register, CallbackOK, InPackage, Stop
<1>2. ASSUME NEW n \in Notifiers, AddCallback(n) PROVE CallbackOK(m)'
  BY <1>a, <1>2 DEF AddCallback, WakeUp, InUse, CallbackOK, InPackage, Stop, ListsType,
     ChangesType, RealmsType, NumbersType
<1>3. ASSUME NEW n \in Notifiers, RemoveCallback(n) PROVE CallbackOK(m)'
  BY <1>a, <1>3 DEF RemoveCallback, CallbackOK, InPackage, Stop, ListsType, ChangesType, RealmsType
<1>4. ASSUME NEW n \in Notifiers, Unregister(n) PROVE CallbackOK(m)'
  BY <1>a, <1>4 DEF Unregister, CallbackOK, InPackage, Stop, ListsType, ChangesType, RealmsType
<1>5. ASSUME StartRun PROVE CallbackOK(m)'
  <2>1. m \in olds' /\ stage' # "idle" => change'[m] = Upto(version[m], Stop')
    BY <1>5, RunStarted
  <2> QED
    BY <1>a, <1>5, <2>1 DEF StartRun, CallbackOK, InPackage
<1>6. ASSUME FinishSkip PROVE CallbackOK(m)'
  <2>1. version'[m] = (IF m \in olds THEN skip ELSE version[m]) /\ (hasRun[m] => hasRun'[m])
    BY <1>6, HandedOver DEF FinishSkip
  <2>2. ~skipNext[m] => ~skipNext'[m]
    BY <1>6 DEF FinishSkip, HandOver
  <2>3. m \in olds => change'[m] = Upto(skip, target) /\ version'[m] = skip
    BY <1>6, <2>1 DEF FinishSkip
  <2> QED
    BY <1>a, <1>6, <2>1, <2>2, <2>3 DEF FinishSkip, CallbackOK, InPackage, Stop
<1>7. ASSUME FinishRun PROVE CallbackOK(m)'
  <2>1. hasRun[m] => hasRun'[m]
    BY <1>7, HandedOver DEF FinishRun
  <2>2. ~skipNext[m] => ~skipNext'[m]
    BY <1>7 DEF FinishRun, HandOver
  <2> QED
    BY <1>a, <1>7, <2>1, <2>2 DEF FinishRun, CallbackOK, InPackage
<1>8. ASSUME NEW r \in Realms, StartWait(r) PROVE CallbackOK(m)'
  <2>1. CASE RealmOf[m] = r
    <3>1. callback[m] => m \in package'[r]
      BY <1>a, <1>8, <2>1 DEF StartWait, ForRealm, NotifierOK, RealmsType
    <3> QED
      BY <1>a, <1>8, <2>1, <3>1 DEF StartWait, Refresh, BeginTransaction, CallbackOK, InPackage,
         Stop, RealmsType
  <2>2. CASE RealmOf[m] # r
    BY <1>a, <1>8, <2>2 DEF StartWait, CallbackOK, InPackage, Stop, RealmsType
  <2> QED
    BY <2>1, <2>2
<1>9. ASSUME NEW r \in Realms, PackageAndWait(r) PROVE CallbackOK(m)'
  BY <1>a, <1>9 DEF PackageAndWait, Take, Runnable, VersionOf, CallbackOK, InPackage, Stop,
     ListsType, ChangesType, RealmsType
<1>10. ASSUME NEW r \in Realms, Notify(r) PROVE CallbackOK(m)'
  BY <1>a, <1>10 DEF Notify, Take, Runnable, VersionOf, ForRealm, Late, CallbackOK, InPackage,
     Stop, ListsType, ChangesType, RealmsType
<1>11. ASSUME NEW r \in Realms, NotifyIgnored(r) PROVE CallbackOK(m)'
  BY <1>a, <1>11 DEF NotifyIgnored, CallbackOK, InPackage, Stop, ListsType, ChangesType, RealmsType
<1>12. ASSUME NEW r \in Realms, Deliver(r) PROVE CallbackOK(m)'
  <2>1. told'[m] = told[m] \/ (m \in package[r] /\ callback[m])
    BY <1>12, Delivered
  <2>2. m \in package[r] => hasRun[m]
    BY <1>a, <1>12 DEF Deliver, CallbackOK, InPackage, WritersInv, WriterOK
  <2>3. /\ UNCHANGED <<skipNext, callback, hasRun, package, stage, olds, change, version, skip, target>>
        /\ muted' = muted /\ pc[r] = "packaged" /\ pc' = [pc EXCEPT ![r] = "notifying"]
    BY <1>12 DEF Deliver
  <2> QED
    BY <1>a, <2>1, <2>2, <2>3 DEF CallbackOK, InPackage, Stop, RealmsType
<1>13. ASSUME NEW r \in Realms, EndNotifying(r) PROVE CallbackOK(m)'
  BY <1>a, <1>13 DEF EndNotifying, Forget, CallbackOK, InPackage, Stop, ListsType, ChangesType,
     RealmsType
<1>14. ASSUME NEW r \in Realms, BeginInside(r) PROVE CallbackOK(m)'
  BY <1>a, <1>14 DEF BeginInside, Forget, CallbackOK, InPackage, Stop, ListsType, ChangesType,
     RealmsType
<1>15. ASSUME NEW r \in Realms, Cancel(r) PROVE CallbackOK(m)'
  BY <1>a, <1>15 DEF Cancel, CallbackOK, InPackage, Stop, ListsType, ChangesType, RealmsType
<1>16. ASSUME NEW r \in Realms, Commit(r) PROVE CallbackOK(m)'
  <2>1. told'[m] = told[m] \/ told[m] # {}
    BY <1>16 DEF Commit, ChangesType
  <2>2. UNCHANGED skipNext /\ muted' = {}
    BY <1>16 DEF Commit
  <2>3. /\ UNCHANGED <<callback, hasRun, package, stage, olds, change, version, skip, target>>
        /\ pc' = [pc EXCEPT ![r] = "idle"]
    BY <1>16 DEF Commit, run, notifier
  <2> QED
    BY <1>a, <2>1, <2>2, <2>3 DEF CallbackOK, InPackage, Stop, RealmsType
<1>17. ASSUME CommitElsewhere PROVE CallbackOK(m)'
  BY <1>a, <1>17 DEF CommitElsewhere, WakeUp, CallbackOK, InPackage, Stop, ListsType, ChangesType,
     RealmsType
<1>19. ASSUME NEW r \in Realms, NEW n \in Notifiers, Suppress(r, n) PROVE CallbackOK(m)'
  BY <1>a, <1>19 DEF Suppress, CallbackOK, InPackage, Stop, ListsType, ChangesType, RealmsType
<1>18. ASSUME UNCHANGED vars PROVE CallbackOK(m)'
  BY <1>a, <1>18 DEF vars, CallbackOK, InPackage, Stop, ListsType, ChangesType, RealmsType
<1> QED
  BY <1>1, <1>2, <1>3, <1>4, <1>5, <1>6, <1>7, <1>8, <1>9, <1>10, <1>11, <1>12, <1>13, <1>14,
     <1>15, <1>16, <1>17, <1>18, <1>19 DEF Next, User, Worker, RealmStep

\* The version to skip was committed when the notifiers were not yet there.
SkipAhead ==
    /\ skipVersion # 0 => (IF stage = "idle" THEN sg ELSE target) <= skipVersion
    /\ stage = "skip" => sg <= skip

LEMMA SkipAheadNext == TypeInv /\ ListsInv /\ SkipAhead /\ [Next]_vars => SkipAhead'
<1> SUFFICES ASSUME NumbersType, ListsType, ListsInv, SkipAhead, [Next]_vars PROVE SkipAhead'
  BY DEF TypeInv
<1> USE DEF file, lists, run, notifier, cbs, threads, history
<1>1. ASSUME NEW n \in Notifiers, Register(n) PROVE SkipAhead'
  BY <1>1 DEF Register, InUse, Pinned, SkipAhead, NumbersType, Versions
<1>2. ASSUME NEW n \in Notifiers, AddCallback(n) PROVE SkipAhead'
  BY <1>2 DEF AddCallback, WakeUp, InUse, SkipAhead, NumbersType, Versions
<1>3. ASSUME NEW n \in Notifiers, RemoveCallback(n) PROVE SkipAhead'
  BY <1>3 DEF RemoveCallback, SkipAhead, NumbersType, Versions
<1>4. ASSUME NEW n \in Notifiers, Unregister(n) PROVE SkipAhead'
  BY <1>4 DEF Unregister, SkipAhead, NumbersType, Versions
<1>5. ASSUME StartRun PROVE SkipAhead'
  <2>1. CASE Living(old) \cup Living(new) = {}
    BY <1>5, <2>1 DEF StartRun, SkipAhead
  <2>2. CASE Living(old) \cup Living(new) # {}
    <3>1. /\ stage = "idle" /\ skip' = SkipKept /\ skipVersion' = 0
          /\ sg' = IF Living(old) = {} THEN latest ELSE sg
          /\ stage' = IF SkipKept = 0 THEN "rest" ELSE IF Living(old) = {} THEN "failed" ELSE "skip"
      BY <1>5, <2>2 DEF StartRun
    <3>2. SkipKept # 0 => SkipKept = skipVersion
      BY DEF SkipKept
    <3> QED
      BY <3>1, <3>2 DEF SkipAhead
  <2> QED
    BY <2>1, <2>2
<1>6. ASSUME FinishSkip PROVE SkipAhead'
  BY <1>6 DEF FinishSkip, HandOver, SkipAhead, ListsInv, NumbersType, Versions
<1>7. ASSUME FinishRun PROVE SkipAhead'
  <2>1. /\ stage = "rest" /\ stage' = "idle" /\ skipVersion' = SkipKept
        /\ sg' = (IF old' = {} THEN 0 ELSE target) /\ target \in Nat
    BY <1>7 DEF FinishRun, NumbersType
  <2>2. SkipKept # 0 => SkipKept = skipVersion /\ skipVersion \in Nat
    BY DEF SkipKept, NumbersType
  <2> QED
    BY <2>1, <2>2 DEF SkipAhead
<1>8. ASSUME NEW r \in Realms, StartWait(r) PROVE SkipAhead'
  BY <1>8 DEF StartWait, Refresh, BeginTransaction, ForRealm, SkipAhead, NumbersType, Versions
<1>9. ASSUME NEW r \in Realms, PackageAndWait(r) PROVE SkipAhead'
  BY <1>9 DEF PackageAndWait, Take, Runnable, VersionOf, SkipAhead, NumbersType, Versions
<1>10. ASSUME NEW r \in Realms, Notify(r) PROVE SkipAhead'
  BY <1>10 DEF Notify, Take, Runnable, VersionOf, ForRealm, Late, SkipAhead, NumbersType, Versions
<1>11. ASSUME NEW r \in Realms, NotifyIgnored(r) PROVE SkipAhead'
  BY <1>11 DEF NotifyIgnored, SkipAhead, NumbersType, Versions
<1>12. ASSUME NEW r \in Realms, Deliver(r) PROVE SkipAhead'
  BY <1>12 DEF Deliver, AdvancesTo, SkipAhead, NumbersType, Versions
<1>13. ASSUME NEW r \in Realms, EndNotifying(r) PROVE SkipAhead'
  BY <1>13 DEF EndNotifying, Forget, SkipAhead, NumbersType, Versions
<1>14. ASSUME NEW r \in Realms, BeginInside(r) PROVE SkipAhead'
  BY <1>14 DEF BeginInside, Forget, SkipAhead, NumbersType, Versions
<1>15. ASSUME NEW r \in Realms, Cancel(r) PROVE SkipAhead'
  BY <1>15 DEF Cancel, SkipAhead, NumbersType, Versions
<1>16. ASSUME NEW r \in Realms, Commit(r) PROVE SkipAhead'
  BY <1>16 DEF Commit, WakeUp, SkipAhead, NumbersType, Versions
<1>17. ASSUME CommitElsewhere PROVE SkipAhead'
  BY <1>17 DEF CommitElsewhere, WakeUp, SkipAhead, NumbersType, Versions
<1>19. ASSUME NEW r \in Realms, NEW n \in Notifiers, Suppress(r, n) PROVE SkipAhead'
  BY <1>19 DEF Suppress, SkipAhead, NumbersType, Versions
<1>18. ASSUME UNCHANGED vars PROVE SkipAhead'
  BY <1>18 DEF vars, SkipAhead, NumbersType, Versions
<1> QED
  BY <1>1, <1>2, <1>3, <1>4, <1>5, <1>6, <1>7, <1>8, <1>9, <1>10, <1>11, <1>12, <1>13, <1>14,
     <1>15, <1>16, <1>17, <1>18, <1>19 DEF Next, User, Worker, RealmStep

-----------------------------------------------------------------------------
(* What a callback knows, what was accumulated for it, and its Realm.      *)

Writing(r) == pc[r] = "write" \/ (pc[r] = "notifying" /\ goal[r] = "write")

\* A callback that had its initial call knows the changes up to where its Realm is, but
\* for a commit of its own Realm; what was accumulated leads from there to the notifier's
\* version, which is at most that one commit behind.
ToldOK(n, r) ==
    told[n] # {} =>
      /\ 1 .. read[r] - 1 \subseteq told[n] /\ told[n] \subseteq 1 .. read[r]
      /\ ~InPackage(n) => /\ read[r] <= version[n] + 1
                          /\ acc[n] \subseteq read[r] .. version[n]
                          /\ 1 .. version[n] \subseteq told[n] \cup acc[n]
      /\ pc[r] = "packaged" /\ n \notin package[r] => goal[r] = "here" \/ upTo[r] = read[r]
      /\ Writing(r) => version[n] = latest /\ told[n] = 1 .. latest /\ acc[n] = {}
      /\ ~raced => acc[n] \cap told[n] = {} /\ (version[n] + 1 \in told[n] => skipNext[n])

\* What was packaged leads to where its Realm advances, and what is accumulated since then
\* on from there.
PackagedOK(n, r) ==
    InPackage(n) /\ callback[n] =>
      /\ goal[r] \in {"here", "write"} \/ upTo[r] # 0
      /\ read[r] <= AdvancesTo(r) /\ AdvancesTo(r) <= version[n]
      /\ acc[n] = Upto(AdvancesTo(r), version[n])
      /\ told[n] # {} => /\ told[n] \cup due[n] = 1 .. AdvancesTo(r)
                         /\ ~raced => told[n] \cap due[n] = {}

\* A suppressed notification is the one of the write that is open, or that of the version to
\* skip, which the Realm has read and the notifier has not; a commit during a run leaves the
\* flag to that run.
SkippedOK(n, r) ==
    skipNext[n] /\ hasRun[n] /\ n \notin muted =>
      /\ version[n] < read[r]
      /\ told[n] # {} => /\ read[r] \in told[n]
                         /\ \/ stage = "idle" /\ skipVersion = read[r]
                            \/ stage = "skip" /\ skip = read[r]
                            \/ stage # "idle" /\ raced /\ target = version[n]

LeadOK(n) ==
    ToldOK(n, RealmOf[n]) /\ PackagedOK(n, RealmOf[n]) /\ SkippedOK(n, RealmOf[n])

Lead == ~excused => \A n \in Notifiers : LeadOK(n)

Known == TypeInv /\ ListsInv /\ NotifiersInv /\ RealmsInv /\ WritersInv /\ CallbacksInv /\ SkipAhead

\* What a step has to leave alone for a callback to know as much as before.
LEMMA Unmoved ==
  ASSUME Known, NEW m \in Notifiers, NEW q \in Realms, q = RealmOf[m], ToldOK(m, q), PackagedOK(m, q),
         told'[m] = told[m], acc'[m] = acc[m], due'[m] = due[m], version'[m] = version[m],
         skipNext'[m] = skipNext[m], callback'[m] = callback[m],
         read'[q] = read[q], pc'[q] = pc[q], package'[q] = package[q], goal'[q] = goal[q],
         upTo'[q] = upTo[q], raced => raced', latest' = latest \/ writer # q
  PROVE  ToldOK(m, q)' /\ PackagedOK(m, q)'
<1>1. WriterOK(q)
  BY DEF Known, WritersInv
<1>2. InPackage(m)' <=> InPackage(m)
  BY DEF InPackage
<1>3. Writing(q)' <=> Writing(q)
  BY DEF Writing
<1>4. Writing(q) => latest' = latest
  BY <1>1 DEF Writing, WriterOK
<1>5. ToldOK(m, q)'
  BY <1>2, <1>3, <1>4 DEF ToldOK
<1>6. InPackage(m) /\ callback[m] => AdvancesTo(q)' = AdvancesTo(q)
  BY <1>1 DEF InPackage, PackagedOK, AdvancesTo, WriterOK
<1>7. PackagedOK(m, q)'
  BY <1>2, <1>6 DEF PackagedOK, Upto
<1> QED
  BY <1>5, <1>7

\* A notifier that a run of the main list takes from its version to v.
LEMMA LeadAdvanced ==
  ASSUME Known, NEW m \in Notifiers, NEW q \in Realms, q = RealmOf[m], LeadOK(m),
         m \in olds, stage # "idle", NEW v, v = Stop, HandOver(olds \cup news, v) \/ HandOver(olds, v),
         UNCHANGED <<told, due, callback, latest, raced>>, UNCHANGED threads
  PROVE  LeadOK(m)'
<1> USE DEF threads
<1>1. /\ version[m] = sg /\ sg <= v /\ v <= latest /\ hasRun[m] /\ version[m] \in Nat /\ v \in Nat
      /\ latest \in Nat /\ target \in Nat /\ (v = target \/ (stage = "skip" /\ v = skip)) /\ v <= target
  BY DEF Known, NotifiersInv, NotifierOK, ListsInv, SkipAhead, Stop, TypeInv, NumbersType, Versions
<1>2. change[m] = Upto(version[m], v) /\ CallbackOK(m)
  BY DEF Known, CallbacksInv, CallbackOK
<1>3. version'[m] = v /\ skipNext'[m] = FALSE
  BY DEF HandOver
<1>4. acc'[m] = IF callback[m] /\ ~skipNext[m] THEN acc[m] \cup Upto(version[m], v) ELSE acc[m]
  BY <1>2 DEF HandOver
<1>5. InPackage(m)' <=> InPackage(m)
  BY DEF InPackage
<1>6. Writing(q)' <=> Writing(q)
  BY DEF Writing
<1>7. AdvancesTo(q)' = AdvancesTo(q)
  BY DEF AdvancesTo
<1>8. read[q] \in Nat /\ read[q] >= 1 /\ read[q] <= latest /\ told[m] \subseteq Nat /\ AdvancesTo(q) \in Nat
  BY DEF Known, TypeInv, NumbersType, ChangesType, Versions, AdvancesTo
<1>9. ToldOK(m, q) /\ PackagedOK(m, q) /\ SkippedOK(m, q)
  BY DEF LeadOK
<1>10. SkippedOK(m, q)'
  BY <1>3 DEF SkippedOK
<1>11. CASE skipNext[m]
  <2>0. CASE m \in muted
    <3>1. pc[q] = "write" /\ Writing(q) /\ ~InPackage(m)
      BY <1>2, <2>0 DEF CallbackOK, Writing, InPackage
    <3>2. PackagedOK(m, q)'
      BY <1>5, <3>1 DEF PackagedOK
    <3>3. ASSUME told[m] # {} PROVE ToldOK(m, q)'
      <4>1. /\ version[m] = latest /\ told[m] = 1 .. latest /\ acc[m] = {}
            /\ 1 .. read[q] - 1 \subseteq told[m] /\ told[m] \subseteq 1 .. read[q]
        BY <1>9, <3>1, <3>3 DEF ToldOK
      <4>2. v = latest /\ acc'[m] = {} /\ latest + 1 \notin told[m] /\ read[q] <= v + 1
        BY <1>1, <1>4, <1>8, <1>11, <4>1
      <4> QED
        BY <1>3, <1>5, <3>1, <3>3, <4>1, <4>2 DEF ToldOK
    <3>4. told[m] = {} => ToldOK(m, q)'
      BY DEF ToldOK
    <3> QED
      BY <1>10, <3>2, <3>3, <3>4 DEF LeadOK
  <2> SUFFICES ASSUME m \notin muted PROVE LeadOK(m)'
    BY <2>0
  <2>1. version[m] < read[q]
    BY <1>1, <1>9, <1>11 DEF SkippedOK
  <2>2. ~(InPackage(m) /\ callback[m])
    BY <1>1, <1>8, <1>9, <2>1 DEF PackagedOK
  <2>3. PackagedOK(m, q)'
    BY <1>5, <2>2 DEF PackagedOK
  <2>4. ASSUME told[m] # {} PROVE ToldOK(m, q)'
    <3>1. /\ callback[m] /\ ~InPackage(m) /\ read[q] = version[m] + 1 /\ acc'[m] = acc[m]
          /\ acc[m] \subseteq read[q] .. version[m] /\ 1 .. version[m] \subseteq told[m] \cup acc[m]
          /\ told[m] \subseteq 1 .. read[q] /\ read[q] \in told[m]
      BY <1>1, <1>2, <1>4, <1>8, <1>9, <1>11, <2>1, <2>2, <2>4 DEF ToldOK, SkippedOK, CallbackOK
    <3>2. acc[m] = {}
      BY <1>1, <3>1
    <3>3. v = read[q] \/ (v = version[m] /\ raced)
      BY <1>1, <1>9, <1>11, <2>4 DEF SkippedOK, Stop
    <3>4. 1 .. v \subseteq told[m] /\ read[q] <= v + 1 /\ acc'[m] \subseteq read[q] .. v
      BY <1>1, <3>1, <3>2, <3>3
    <3>5. ~Writing(q)
      BY <1>1, <1>8, <1>9, <2>1, <2>4 DEF ToldOK
    <3>6. raced \/ v + 1 \notin told[m]
      BY <1>1, <1>8, <3>1, <3>3
    <3> QED
      BY <1>3, <1>5, <1>6, <1>9, <2>4, <3>1, <3>2, <3>4, <3>5, <3>6 DEF ToldOK
  <2>5. told[m] = {} => ToldOK(m, q)'
    BY DEF ToldOK
  <2> QED
    BY <1>10, <2>3, <2>4, <2>5 DEF LeadOK
<1>12. CASE ~skipNext[m] /\ callback[m]
  <2>1. acc'[m] = acc[m] \cup Upto(version[m], v)
    BY <1>4, <1>12
  <2>2. PackagedOK(m, q)'
    <3>1. SUFFICES ASSUME InPackage(m) PROVE PackagedOK(m, q)'
      BY <1>5 DEF PackagedOK
    <3>2. /\ read[q] <= AdvancesTo(q) /\ AdvancesTo(q) <= version[m]
          /\ acc[m] = Upto(AdvancesTo(q), version[m])
      BY <1>9, <1>12, <3>1 DEF PackagedOK
    <3>3. acc'[m] = Upto(AdvancesTo(q), v) /\ AdvancesTo(q) <= v
      BY <1>1, <1>8, <2>1, <3>2 DEF Upto
    <3>4. acc'[m] = Upto(AdvancesTo(q)', v) /\ AdvancesTo(q)' <= version'[m] /\ read'[q] <= AdvancesTo(q)'
      BY <1>3, <1>7, <3>2, <3>3
    <3> QED
      BY <1>3, <1>7, <1>9, <1>12, <3>1, <3>4 DEF PackagedOK
  <2>3. ASSUME told[m] # {} PROVE ToldOK(m, q)'
    <3>1. read[q] <= version[m] + 1
      BY <1>1, <1>8, <1>9, <1>12, <2>3 DEF ToldOK, PackagedOK
    <3>2. ~InPackage(m) => /\ acc'[m] \subseteq read[q] .. v
                           /\ 1 .. v \subseteq told[m] \cup acc'[m]
      BY <1>1, <1>8, <1>9, <2>1, <2>3, <3>1 DEF ToldOK, Upto
    <3>3. Writing(q) => v = latest /\ acc'[m] = {}
      BY <1>1, <1>9, <2>1, <2>3 DEF ToldOK, Upto
    <3>4. ~raced => acc'[m] \cap told[m] = {} /\ v + 1 \notin told[m]
      <4>1. SUFFICES ASSUME ~raced PROVE acc'[m] \cap told[m] = {} /\ v + 1 \notin told[m]
        OBVIOUS
      <4>2. /\ acc[m] \cap told[m] = {} /\ version[m] + 1 \notin told[m]
            /\ told[m] \subseteq 1 .. read[q]
        BY <1>9, <1>12, <2>3, <4>1 DEF ToldOK
      <4>3. \A x \in told[m] : x <= version[m]
        BY <1>1, <1>8, <3>1, <4>2
      <4> QED
        BY <1>1, <2>1, <4>2, <4>3 DEF Upto
    <3>5. read[q] <= v + 1
      BY <1>1, <1>8, <3>1
    <3> QED
      BY <1>3, <1>5, <1>6, <1>9, <2>3, <3>2, <3>3, <3>4, <3>5 DEF ToldOK
  <2>4. told[m] = {} => ToldOK(m, q)'
    BY DEF ToldOK
  <2> QED
    BY <1>10, <2>2, <2>3, <2>4 DEF LeadOK
<1>13. CASE ~callback[m]
  BY <1>2, <1>10, <1>13 DEF CallbackOK, ToldOK, PackagedOK, LeadOK
<1> QED
  BY <1>11, <1>12, <1>13

\* The hand overs of a run, to those of the main list and to the new ones.
LEMMA LeadHandedOver ==
  ASSUME Known, NEW m \in Notifiers, LeadOK(m), FinishSkip \/ FinishRun
  PROVE  LeadOK(m)'
<1> DEFINE q == RealmOf[m]
<1>1. PICK S \in {olds, olds \cup news} :
        /\ HandOver(S, Stop) /\ stage # "idle"
        /\ UNCHANGED <<told, due, callback, latest, muted, raced>> /\ UNCHANGED threads
  BY DEF FinishSkip, FinishRun, Stop, history, file
<1>2. q \in Realms /\ CallbackOK(m) /\ NotifierOK(m) /\ ToldOK(m, q) /\ PackagedOK(m, q) /\ SkippedOK(m, q)
  BY DEF Known, CallbacksInv, NotifiersInv, LeadOK
<1>3. CASE m \in olds
  BY <1>1, <1>2, <1>3, LeadAdvanced
<1>4. CASE m \in news /\ m \notin olds
  <2>1. ~hasRun[m]
    BY <1>1, <1>2, <1>4 DEF NotifierOK, Known, ListsInv
  <2>2. told[m] = {} /\ ~InPackage(m)
    BY <1>2, <2>1 DEF CallbackOK
  <2>3. told'[m] = {} /\ ~InPackage(m)'
    BY <1>1, <2>2 DEF InPackage, threads
  <2>4. ~(skipNext'[m] /\ hasRun'[m])
    BY <1>1, <2>1 DEF HandOver
  <2> QED
    BY <2>3, <2>4 DEF LeadOK, ToldOK, PackagedOK, SkippedOK
<1>5. CASE m \notin olds \cup news
  <2>1. m \notin S
    BY <1>1, <1>5
  <2>2. /\ acc'[m] = acc[m] /\ version'[m] = version[m] /\ (hasRun'[m] <=> hasRun[m])
        /\ (skipNext'[m] <=> skipNext[m]) /\ skipNext'[m] \in BOOLEAN /\ skipNext[m] \in BOOLEAN
    BY <1>1, <2>1 DEF HandOver, Known, TypeInv, ListsType
  <2>3. ToldOK(m, q)' /\ PackagedOK(m, q)'
    BY <1>1, <1>2, <2>2, Unmoved DEF threads
  <2>4. hasRun[m] => told[m] = {}
    BY <1>1, <1>2, <1>5 DEF CallbackOK, NotifierOK, Known, ListsInv
  <2>5. SkippedOK(m, q)'
    BY <1>1, <1>2, <2>2, <2>4 DEF SkippedOK, threads
  <2> QED
    BY <2>3, <2>5 DEF LeadOK
<1> QED
  BY <1>3, <1>4, <1>5

\* A living notifier that has run is in the main list, with all others that have run.
LEMMA InMainList ==
  ASSUME Known, NEW m \in Notifiers, alive[m], hasRun[m]
  PROVE  m \in old /\ version[m] # 0
  BY DEF Known, NotifiersInv, NotifierOK

LEMMA SameVersion ==
  ASSUME Known, NEW m \in Notifiers, NEW S \in SUBSET Notifiers, m \in S,
         \A n \in S : alive[n] /\ hasRun[n], NEW v, VersionOf(S, v)
  PROVE  v = version[m] /\ v # 0
<1>1. PICK n \in S : v = version[n]
  BY DEF VersionOf
<1>2. n \in old /\ m \in old /\ hasRun[n] /\ hasRun[m] /\ version[m] # 0
  BY InMainList
<1>3. version[n] = version[m]
  BY <1>2 DEF Known, TypeInv, ListsType, NotifiersInv, NotifierOK
<1> QED
  BY <1>1, <1>2, <1>3

\* What a package takes from the callback of one of its notifiers leads to the notifier's
\* version, wherever the Realm is.
LEMMA LeadTaken ==
  ASSUME Known, NEW m \in Notifiers, NEW q \in Realms, q = RealmOf[m], LeadOK(m),
         ~InPackage(m), InPackage(m)', callback[m], hasRun[m], pc'[q] = "packaged",
         acc'[m] = {}, due'[m] = acc[m], AdvancesTo(q)' = version[m], read[q] <= version[m],
         goal'[q] \in {"here", "write"} \/ upTo'[q] # 0,
         UNCHANGED <<told, callback, version, skipNext, hasRun, read, muted, raced, stage, skip,
                     skipVersion, target>>
  PROVE  LeadOK(m)'
<1>1. ToldOK(m, q) /\ SkippedOK(m, q)
  BY DEF LeadOK
<1>2. /\ version[m] \in Nat /\ read[q] \in Nat /\ read[q] >= 1 /\ acc[m] \subseteq Nat /\ told[m] \subseteq Nat
  BY DEF Known, TypeInv, NumbersType, ChangesType, Versions
<1>3. ~Writing(q)'
  BY DEF Writing
<1>4. SkippedOK(m, q)'
  BY <1>1 DEF SkippedOK
<1>5. ToldOK(m, q)'
  BY <1>1, <1>3 DEF ToldOK, InPackage
<1>6. ASSUME told[m] # {} PROVE told[m] \cup acc[m] = 1 .. version[m] /\ (~raced => told[m] \cap acc[m] = {})
  BY <1>1, <1>2, <1>6 DEF ToldOK
<1>7. acc'[m] = Upto(AdvancesTo(q)', version'[m])
  BY <1>2 DEF Upto
<1>8. PackagedOK(m, q)'
  BY <1>2, <1>6, <1>7 DEF PackagedOK
<1> QED
  BY <1>4, <1>5, <1>8 DEF LeadOK

\* What a thread that waited packages is all it waited for, at one version.
LEMMA WaitedFor ==
  ASSUME Known, NEW m \in Notifiers, NEW q \in Realms, q = RealmOf[m], callback[m], LeadOK(m),
         PackageAndWait(q), ~excused'
  PROVE  LeadOK(m)'
<1> DEFINE R == Runnable(package[q])
<1>1. /\ pc[q] = "wait" /\ \A n \in package[q] : Ready(n, upTo[q])
      /\ Take(q, R) /\ UNCHANGED <<goal, notified>>
  BY DEF PackageAndWait
<1>2. PICK v \in 0 .. latest :
        /\ VersionOf(R, v)
        /\ package' = [package EXCEPT ![q] = IF v < upTo[q] THEN {} ELSE Runnable(@)]
        /\ upTo' = [upTo EXCEPT ![q] = IF v < upTo[q] \/ goal[q] = "write" THEN 0 ELSE v]
  BY DEF PackageAndWait
<1>3. CallbackOK(m) /\ NotifierOK(m) /\ WriterOK(q) /\ RealmOK(q)
  BY DEF Known, CallbacksInv, NotifiersInv, WritersInv, RealmsInv
<1>4. m \in package[q] /\ hasRun[m] /\ version[m] >= upTo[q] /\ alive[m]
  BY <1>1, <1>3 DEF CallbackOK, NotifierOK, Ready
<1>5. R \in SUBSET Notifiers /\ m \in R /\ \A n \in R : hasRun[n] /\ alive[n]
  BY <1>1, <1>4 DEF Runnable, Take, Known, TypeInv, RealmsType, ListsType
<1>6. v = version[m] /\ v # 0
  BY <1>2, <1>5, SameVersion
<1>7. /\ version[m] \in Nat /\ upTo[q] \in Nat /\ read[q] \in Nat /\ latest \in Nat /\ version[m] <= latest
      /\ read[q] <= upTo[q]
  BY <1>1, <1>3 DEF Known, TypeInv, NumbersType, Versions, RealmOK
<1>8. /\ package'[q] = R /\ upTo'[q] = IF goal[q] = "write" THEN 0 ELSE version[m]
      /\ goal'[q] = goal[q] /\ pc'[q] = "packaged"
      /\ goal[q] \in {"refresh", "write"} /\ (goal[q] = "write" => upTo[q] = latest)
  BY <1>1, <1>2, <1>3, <1>4, <1>6, <1>7 DEF Known, TypeInv, NumbersType, RealmsType, WriterOK, Take
<1>9. latest' = latest
  BY <1>1 DEF Take, file
<1>10. AdvancesTo(q)' = version[m]
  BY <1>4, <1>6, <1>7, <1>8, <1>9 DEF AdvancesTo
<1>11. ~InPackage(m) /\ InPackage(m)'
  BY <1>1, <1>5, <1>8 DEF InPackage
<1>12. acc'[m] = {} /\ due'[m] = acc[m]
  BY <1>1, <1>5 DEF Take
<1>13. UNCHANGED <<told, callback, version, skipNext, hasRun, read, muted, raced, stage, skip,
                   skipVersion, target>>
  BY <1>1 DEF Take, run, notifier, lists
<1>14. goal'[q] \in {"here", "write"} \/ upTo'[q] # 0
  BY <1>6, <1>8
<1> HIDE DEF R
<1> QED
  BY <1>4, <1>7, <1>8, <1>10, <1>11, <1>12, <1>13, <1>14, LeadTaken

\* The two ways of notify to package what has run.
LEMMA NotifiedLead ==
  ASSUME Known, NEW m \in Notifiers, NEW q \in Realms, q = RealmOf[m], callback[m], LeadOK(m),
         Notify(q), ~excused'
  PROVE  LeadOK(m)'
<1> DEFINE ready == Runnable(ForRealm(q))
           at == {n \in ready : version[n] = read[q]}
<1>1. CallbackOK(m) /\ NotifierOK(m) /\ ToldOK(m, q) /\ SkippedOK(m, q) /\ pc[q] = "idle"
  BY DEF Known, CallbacksInv, NotifiersInv, LeadOK, Notify
<1>2. alive[m] /\ (hasRun[m] => m \in ready)
  BY <1>1 DEF NotifierOK, Runnable, ForRealm
<1>3. ready \in SUBSET Notifiers /\ \A n \in ready : alive[n] /\ hasRun[n]
  BY DEF Runnable, ForRealm, Known, TypeInv, ListsType
<1>4. UNCHANGED <<told, callback, version, skipNext, hasRun, read, muted, raced, stage, skip,
                  skipVersion, target, latest>> /\ pc' = [pc EXCEPT ![q] = "packaged"]
  BY DEF Notify, Take, run, notifier, lists, file
<1>5. /\ version[m] \in Nat /\ read[q] \in Nat /\ read[q] >= 1 /\ told[m] \subseteq Nat /\ acc[m] \subseteq Nat
      /\ pc'[q] = "packaged"
  BY <1>4 DEF Known, TypeInv, NumbersType, ChangesType, RealmsType, Versions
<1>6. ~InPackage(m) /\ ~Writing(q)'
  BY <1>1, <1>5 DEF InPackage, Writing
<1>7. SkippedOK(m, q)'
  BY <1>1, <1>4 DEF SkippedOK
<1>8. CASE read[q] = latest /\ goal' = [goal EXCEPT ![q] = "here"]
            /\ package' = [package EXCEPT ![q] = at] /\ Take(q, at)
  <2>1. goal'[q] = "here" /\ package'[q] = at
    BY <1>8 DEF Known, TypeInv, RealmsType
  <2>2. CASE m \in at
    <3>1. version[m] = read[q] /\ hasRun[m]
      BY <1>3, <2>2
    <3>2. acc'[m] = {} /\ due'[m] = acc[m]
      BY <1>8, <2>2 DEF Take
    <3>3. AdvancesTo(q)' = version[m] /\ InPackage(m)'
      BY <1>4, <1>5, <2>1, <2>2, <3>1 DEF AdvancesTo, InPackage
    <3> QED
      BY <1>4, <1>5, <1>6, <2>1, <3>1, <3>2, <3>3, LeadTaken
  <2>3. CASE m \notin at
    <3>1. acc'[m] = acc[m] /\ ~InPackage(m)'
      BY <1>8, <2>1, <2>3 DEF Take, InPackage
    <3>2. ToldOK(m, q)'
      BY <1>1, <1>4, <1>6, <2>1, <3>1 DEF ToldOK
    <3>3. PackagedOK(m, q)'
      BY <3>1 DEF PackagedOK
    <3> QED
      BY <1>7, <3>2, <3>3 DEF LeadOK
  <2> QED
    BY <2>2, <2>3
<1>9. ASSUME NEW v \in 0 .. latest, VersionOf(ready, v),
             goal' = [goal EXCEPT ![q] = IF v = read[q] THEN "here" ELSE "ready"],
             package' = [package EXCEPT ![q] = IF Late(q, v) THEN {} ELSE ready],
             upTo' = [upTo EXCEPT ![q] = IF Late(q, v) THEN read[q] ELSE v],
             Take(q, ready)
      PROVE  LeadOK(m)'
  <2>1. /\ goal'[q] = IF v = read[q] THEN "here" ELSE "ready"
        /\ package'[q] = IF Late(q, v) THEN {} ELSE ready
        /\ upTo'[q] = IF Late(q, v) THEN read[q] ELSE v
    BY <1>9 DEF Known, TypeInv, RealmsType, NumbersType
  <2>2. CASE m \notin ready
    <3>1. told[m] = {} /\ ~InPackage(m)'
      BY <1>1, <1>2, <2>1, <2>2 DEF CallbackOK, InPackage
    <3> QED
      BY <1>4, <1>7, <3>1 DEF LeadOK, ToldOK, PackagedOK
  <2>3. CASE m \in ready
    <3>1. v = version[m] /\ v # 0 /\ hasRun[m]
      BY <1>3, <1>9, <2>3, SameVersion
    <3>2. acc'[m] = {} /\ due'[m] = acc[m]
      BY <1>9, <2>3 DEF Take
    <3>3. CASE Late(q, v)
      <4>1. version[m] < read[q] /\ ~InPackage(m)' /\ upTo'[q] = read[q]
        BY <2>1, <3>1, <3>3 DEF Late, InPackage
      <4>2. ASSUME told[m] # {} PROVE ToldOK(m, q)'
        <5>1. acc[m] = {}
          BY <1>1, <1>5, <1>6, <4>1, <4>2 DEF ToldOK
        <5>2. acc'[m] = acc[m]
          BY <3>2, <5>1
        <5> QED
          BY <1>1, <1>4, <1>6, <4>1, <4>2, <5>2 DEF ToldOK
      <4>3. told[m] = {} => ToldOK(m, q)'
        BY <1>4 DEF ToldOK
      <4> QED
        BY <1>7, <4>1, <4>2, <4>3 DEF LeadOK, PackagedOK
    <3>4. CASE ~Late(q, v)
      <4>1. read[q] <= version[m]
        BY <1>5, <3>1, <3>4 DEF Late
      <4>2. AdvancesTo(q)' = version[m] /\ InPackage(m)' /\ (goal'[q] = "here" \/ upTo'[q] # 0)
        BY <1>4, <1>5, <2>1, <2>3, <3>1, <3>4 DEF AdvancesTo, InPackage
      <4> QED
        BY <1>4, <1>5, <1>6, <3>1, <3>2, <4>1, <4>2, LeadTaken
    <3> QED
      BY <3>3, <3>4
  <2> QED
    BY <2>2, <2>3
<1> HIDE DEF at, ready
<1> QED
  <2>1. \/ /\ read[q] = latest
           /\ goal' = [goal EXCEPT ![q] = "here"]
           /\ package' = [package EXCEPT ![q] = at]
           /\ Take(q, at) /\ UNCHANGED upTo
        \/ \E v \in 0 .. latest :
           /\ read[q] < latest /\ VersionOf(ready, v)
           /\ goal' = [goal EXCEPT ![q] = IF v = read[q] THEN "here" ELSE "ready"]
           /\ package' = [package EXCEPT ![q] = IF Late(q, v) THEN {} ELSE ready]
           /\ upTo' = [upTo EXCEPT ![q] = IF Late(q, v) THEN read[q] ELSE v]
           /\ Take(q, ready)
    BY DEF Notify, at, ready
  <2> QED
    BY <2>1, <1>8, <1>9

\* Where a delivery takes a Realm, seen from one of its callbacks: the packaged changes lead
\* exactly there, and the Realm stays where it is for a callback that is not packaged.
LEMMA LeadToView ==
  ASSUME Known, NEW m \in Notifiers, NEW q \in Realms, q = RealmOf[m], LeadOK(m), Deliver(q),
         callback[m]
  PROVE  /\ read'[q] = AdvancesTo(q)
         /\ m \in package[q] => told'[m] = 1 .. read'[q]
         /\ m \notin package[q] /\ told[m] # {} => read'[q] = read[q] /\ goal[q] # "write"
<1>1. read'[q] = AdvancesTo(q) /\ pc[q] = "packaged"
  BY DEF Deliver, Known, TypeInv, NumbersType
<1>2. ASSUME m \in package[q] PROVE told'[m] = 1 .. read'[q]
  <2>1. told[m] # {} => told[m] \cup due[m] = 1 .. AdvancesTo(q)
    BY <1>1, <1>2 DEF LeadOK, PackagedOK, InPackage
  <2> QED
    BY <1>1, <1>2, <2>1, Delivered
<1>3. ASSUME m \notin package[q], told[m] # {} PROVE read'[q] = read[q] /\ goal[q] # "write"
  <2>1. (goal[q] = "here" \/ upTo[q] = read[q]) /\ read[q] # 0
    BY <1>1, <1>3 DEF LeadOK, ToldOK, Known, TypeInv, NumbersType
  <2>2. goal[q] = "write" => upTo[q] = 0
    BY <1>1 DEF Known, WritersInv, WriterOK
  <2> QED
    BY <1>1, <2>1, <2>2 DEF AdvancesTo
<1> QED
  BY <1>1, <1>2, <1>3

LEMMA LeadDelivered ==
  ASSUME Known, NEW m \in Notifiers, NEW q \in Realms, q = RealmOf[m], callback[m], LeadOK(m),
         Deliver(q)
  PROVE  LeadOK(m)'
<1>1. /\ pc[q] = "packaged" /\ pc'[q] = "notifying" /\ callback'[m] = callback[m]
      /\ UNCHANGED <<latest, version, skipNext, hasRun, acc, goal, muted, raced, stage, skip,
                     skipVersion, target>>
  BY DEF Deliver, Known, TypeInv, RealmsType, file, run, notifier, lists, history
<1>2. ~InPackage(m)' /\ CallbackOK(m) /\ WriterOK(q) /\ m \notin muted
  BY <1>1 DEF InPackage, Known, CallbacksInv, CallbackOK, WritersInv
<1>3. PackagedOK(m, q)'
  BY <1>2 DEF PackagedOK
<1>4. /\ version[m] \in Nat /\ latest \in Nat /\ read[q] \in Nat /\ AdvancesTo(q) \in Nat
      /\ version[m] <= latest
  BY DEF Known, TypeInv, NumbersType, AdvancesTo, Versions
<1>5. CASE m \in package[q]
  <2>1. /\ read[q] <= AdvancesTo(q) /\ AdvancesTo(q) <= version[m]
        /\ acc[m] = Upto(AdvancesTo(q), version[m]) /\ hasRun[m]
    BY <1>1, <1>2, <1>5 DEF LeadOK, PackagedOK, InPackage, CallbackOK
  <2>2. told'[m] = 1 .. read'[q] /\ read'[q] = AdvancesTo(q)
    BY <1>5, LeadToView
  <2>3. ~skipNext[m]
    BY <1>2, <1>4, <2>1 DEF LeadOK, SkippedOK
  <2>4. SkippedOK(m, q)'
    BY <1>1, <2>3 DEF SkippedOK
  <2>5. Writing(q)' => AdvancesTo(q) = latest
    BY <1>1, <1>2 DEF Writing, WriterOK, AdvancesTo
  <2>6. ToldOK(m, q)'
    <3>1. 1 .. read'[q] - 1 \subseteq told'[m] /\ told'[m] \subseteq 1 .. read'[q]
      BY <1>4, <2>2
    <3>2. /\ read'[q] <= version'[m] + 1 /\ acc'[m] \subseteq read'[q] .. version'[m]
          /\ 1 .. version'[m] \subseteq told'[m] \cup acc'[m]
      BY <1>1, <1>4, <2>1, <2>2 DEF Upto
    <3>3. Writing(q)' => version'[m] = latest' /\ told'[m] = 1 .. latest' /\ acc'[m] = {}
      BY <1>1, <1>4, <2>1, <2>2, <2>5 DEF Upto
    <3>4. acc'[m] \cap told'[m] = {} /\ version'[m] + 1 \notin told'[m]
      BY <1>1, <1>4, <2>1, <2>2 DEF Upto
    <3> QED
      BY <1>1, <3>1, <3>2, <3>3, <3>4 DEF ToldOK
  <2> QED
    BY <1>3, <2>4, <2>6 DEF LeadOK
<1>6. CASE m \notin package[q]
  <2>1. told'[m] = told[m]
    BY <1>6, Delivered
  <2>2. read'[q] >= read[q]
    BY ReadGrows DEF Deliver, Known, Next, RealmStep
  <2>3. told[m] # {} => read'[q] = read[q] /\ goal[q] # "write"
    BY <1>6, LeadToView
  <2>4. ToldOK(m, q)'
    BY <1>1, <1>2, <1>6, <2>1, <2>3 DEF LeadOK, ToldOK, InPackage, Writing
  <2>5. read'[q] \in Nat
    BY <1>4, LeadToView
  <2>6. SkippedOK(m, q)'
    BY <1>1, <1>2, <1>4, <2>1, <2>2, <2>3, <2>5 DEF LeadOK, SkippedOK
  <2> QED
    BY <1>3, <2>4, <2>6 DEF LeadOK
<1> QED
  BY <1>5, <1>6

\* A commit of the Realm, with some of its callbacks suppressed.
LEMMA LeadCommitted ==
  ASSUME Known, NEW m \in Notifiers, NEW q \in Realms, q = RealmOf[m], callback[m], LeadOK(m),
         Commit(q), ~excused'
  PROVE  LeadOK(m)'
<1>1. /\ pc[q] = "write" /\ pc'[q] = "idle" /\ latest' = latest + 1 /\ read'[q] = latest + 1
      /\ muted' = {} /\ told'[m] = IF m \in muted /\ told[m] # {} THEN told[m] \cup {latest + 1} ELSE told[m]
      /\ (raced => raced') /\ (m \in muted => raced' \/ (stage = "idle" /\ skipNext[m]))
      /\ UNCHANGED <<skipNext, version, acc, stage, skip, target, hasRun>>
  BY DEF Commit, Known, TypeInv, NumbersType, RealmsType, ChangesType, ListsType, run, notifier
<1>2. latest \in Nat /\ version[m] \in Nat /\ version[m] <= latest /\ read[q] \in Nat /\ read[q] <= latest
      /\ skipVersion \in Nat /\ latest # 0
  BY DEF Known, TypeInv, NumbersType, Versions
<1>3. ToldOK(m, q) /\ SkippedOK(m, q) /\ CallbackOK(m) /\ NotifierOK(m) /\ Writing(q)
  BY <1>1 DEF LeadOK, Known, CallbacksInv, NotifiersInv, Writing
<1>4. ~InPackage(m) /\ ~InPackage(m)' /\ ~Writing(q)'
  BY <1>1 DEF InPackage, Writing
<1>5. PackagedOK(m, q)'
  BY <1>4 DEF PackagedOK
<1>6. CASE told[m] = {}
  <2>1. told'[m] = {} /\ version'[m] < read'[q]
    BY <1>1, <1>2, <1>6
  <2> QED
    BY <1>5, <2>1 DEF LeadOK, ToldOK, SkippedOK
<1>7. CASE told[m] # {}
  <2>1. version[m] = latest /\ told[m] = 1 .. latest /\ acc[m] = {} /\ hasRun[m]
    BY <1>3, <1>7 DEF ToldOK, CallbackOK
  <2>2. skipNext[m] => m \in muted
    BY <1>2, <1>3, <2>1 DEF SkippedOK
  <2>3. told'[m] = IF m \in muted THEN 1 .. read'[q] ELSE 1 .. latest
    <3>1. (1 .. latest) \cup {latest + 1} = 1 .. latest + 1
      BY <1>2
    <3> QED
      BY <1>1, <1>7, <2>1, <3>1
  <2>4. ToldOK(m, q)'
    <3>1. 1 .. read'[q] - 1 \subseteq told'[m] /\ told'[m] \subseteq 1 .. read'[q]
      <4>1. read'[q] - 1 = latest /\ 1 .. latest \subseteq 1 .. read'[q]
        BY <1>1, <1>2
      <4> QED
        BY <2>3, <4>1
    <3>2. acc'[m] = {} /\ read'[q] <= version'[m] + 1 /\ 1 .. version'[m] \subseteq told'[m]
      BY <1>1, <1>2, <2>1, <2>3
    <3>3. version'[m] + 1 \in told'[m] => m \in muted
      BY <1>1, <1>2, <2>1, <2>3
    <3> QED
      BY <1>1, <1>4, <3>1, <3>2, <3>3 DEF ToldOK
  <2>5. ASSUME skipNext'[m] PROVE SkippedOK(m, q)'
    <3>1. m \in muted /\ read'[q] \in told'[m] /\ version'[m] < read'[q]
      <4>1. m \in muted
        BY <1>1, <2>2, <2>5
      <4>2. read'[q] \in 1 .. read'[q] /\ version'[m] < read'[q]
        BY <1>1, <1>2, <2>1
      <4> QED
        BY <2>3, <4>1, <4>2
    <3>2. m \in old /\ alive[m]
      BY <1>3, <2>1, InMainList DEF NotifierOK
    <3>3. skipVersion' = read'[q]
      BY <1>1, <3>2 DEF Commit
    <3>4. stage # "idle" => raced' /\ target' = version'[m]
      <4>1. SUFFICES ASSUME stage # "idle" PROVE raced' /\ target' = version'[m]
        OBVIOUS
      <4>2. m \in olds /\ version[m] = sg
        BY <1>3, <2>1, <3>2, <4>1 DEF NotifierOK
      <4>3. sg <= target /\ target <= latest /\ target \in Nat
        BY <4>1 DEF Known, ListsInv, TypeInv, NumbersType, Versions
      <4> QED
        BY <1>1, <1>2, <2>1, <3>1, <4>1, <4>2, <4>3
    <3> QED
      BY <1>1, <3>1, <3>3, <3>4 DEF SkippedOK
  <2> QED
    BY <1>5, <2>4, <2>5 DEF LeadOK, SkippedOK
<1> QED
  BY <1>6, <1>7

\* What a step does to a notifier whose callback is gone.
LEMMA LeadOfNone ==
  ASSUME NEW m \in Notifiers, told'[m] = {}, ~skipNext'[m], ~callback'[m]
  PROVE  LeadOK(m)'
  BY DEF LeadOK, ToldOK, PackagedOK, SkippedOK

LEMMA LeadNext == Known /\ Lead /\ [Next]_vars => Lead'
<1> SUFFICES ASSUME Known, Lead, [Next]_vars, ~excused', NEW m \in Notifiers PROVE LeadOK(m)'
  BY DEF Lead
<1> DEFINE q == RealmOf[m]
<1>a. q \in Realms /\ CallbackOK(m) /\ NotifierOK(m) /\ WriterOK(q)
  BY DEF Known, CallbacksInv, NotifiersInv, WritersInv
<1>b. CallbacksInv'
  BY CallbacksInvNext DEF Known
<1>c. CallbackOK(m)'
  BY <1>b DEF CallbacksInv
<1>d. ~callback'[m] => LeadOK(m)'
  BY <1>c, LeadOfNone DEF CallbackOK
<1>e. LeadOK(m)
  <2>1. ~excused
    BY ZenonT(60) DEF Next, User, Worker, RealmStep, vars, history, Register, AddCallback, RemoveCallback,
           Unregister, StartRun, FinishSkip, FinishRun, StartWait, PackageAndWait, Notify,
           NotifyIgnored, Deliver, EndNotifying, BeginInside, Suppress, Cancel, Commit, CommitElsewhere, Take
  <2> QED
    BY <2>1 DEF Lead
<1>f. ToldOK(m, q) /\ PackagedOK(m, q) /\ SkippedOK(m, q)
  BY <1>e DEF LeadOK
<1> USE DEF file, lists, run, notifier, cbs, threads, history
<1>1. ASSUME NEW n \in Notifiers, Register(n) PROVE LeadOK(m)'
  <2>1. CASE m = n
    <3>1. ~callback'[m]
      BY <1>a, <1>1, <2>1 DEF Register, NotifierOK
    <3> QED
      BY <1>d, <3>1
  <2>2. CASE m # n
    <3>1. version'[m] = version[m]
      BY <1>1, <2>2 DEF Register, Known, TypeInv, NumbersType
    <3>2. ToldOK(m, q)' /\ PackagedOK(m, q)'
      BY <1>a, <1>f, <1>1, <3>1, Unmoved DEF Register
    <3>3. SkippedOK(m, q)'
      BY <1>f, <1>1, <3>1 DEF Register, SkippedOK
    <3> QED
      BY <3>2, <3>3 DEF LeadOK
  <2> QED
    BY <2>1, <2>2
<1>2. ASSUME NEW n \in Notifiers, AddCallback(n) PROVE LeadOK(m)'
  <2>1. CASE m = n
    <3>1. told'[m] = {} /\ ~skipNext'[m] /\ ~InPackage(m)'
      BY <1>a, <1>2, <2>1 DEF AddCallback, CallbackOK, InUse, InPackage
    <3> QED
      BY <3>1 DEF LeadOK, ToldOK, PackagedOK, SkippedOK
  <2>2. CASE m # n
    <3>1. callback'[m] = callback[m]
      BY <1>2, <2>2 DEF AddCallback, Known, TypeInv, ListsType
    <3>2. ToldOK(m, q)' /\ PackagedOK(m, q)'
      BY <1>a, <1>f, <1>2, <3>1, Unmoved DEF AddCallback
    <3>3. SkippedOK(m, q)'
      BY <1>f, <1>2 DEF AddCallback, SkippedOK
    <3> QED
      BY <3>2, <3>3 DEF LeadOK
  <2> QED
    BY <2>1, <2>2
<1>3. ASSUME NEW n \in Notifiers, RemoveCallback(n) PROVE LeadOK(m)'
  <2>1. CASE m = n
    <3>1. ~callback'[m]
      BY <1>3, <2>1 DEF RemoveCallback, Known, TypeInv, ListsType
    <3> QED
      BY <1>d, <3>1
  <2>2. CASE m # n
    <3>1. /\ callback'[m] = callback[m] /\ skipNext'[m] = skipNext[m] /\ acc'[m] = acc[m]
          /\ due'[m] = due[m] /\ told'[m] = told[m] /\ (m \in muted' <=> m \in muted)
      BY <1>3, <2>2 DEF RemoveCallback, Known, TypeInv, ListsType, ChangesType
    <3>2. ToldOK(m, q)' /\ PackagedOK(m, q)'
      BY <1>a, <1>f, <1>3, <3>1, Unmoved DEF RemoveCallback
    <3>3. SkippedOK(m, q)'
      BY <1>f, <1>3, <3>1 DEF RemoveCallback, SkippedOK
    <3> QED
      BY <3>2, <3>3 DEF LeadOK
  <2> QED
    BY <2>1, <2>2
<1>4. ASSUME NEW n \in Notifiers, Unregister(n) PROVE LeadOK(m)'
  <2>1. ToldOK(m, q)' /\ PackagedOK(m, q)'
    BY <1>a, <1>f, <1>4, Unmoved DEF Unregister
  <2>2. SkippedOK(m, q)'
    BY <1>f, <1>4 DEF Unregister, SkippedOK
  <2> QED
    BY <2>1, <2>2 DEF LeadOK
<1>5. ASSUME StartRun PROVE LeadOK(m)'
  <2>1. ToldOK(m, q)' /\ PackagedOK(m, q)'
    BY <1>a, <1>f, <1>5, Unmoved DEF StartRun
  <2>2. ASSUME skipNext[m], hasRun[m], m \notin muted, told[m] # {}
        PROVE  stage' = "skip" /\ skip' = read[q]
    <3>1. stage = "idle" /\ skipVersion = read[q] /\ read[q] # 0
      BY <1>a, <1>f, <1>5, <2>2 DEF StartRun, SkippedOK, Known, TypeInv, NumbersType
    <3>2. alive[m] /\ m \in old
      BY <1>a, <2>2, InMainList DEF CallbackOK, NotifierOK
    <3>3. m \in Living(old)
      BY <3>2 DEF Living
    <3>4. SkipKept = skipVersion
      BY <3>3 DEF SkipKept
    <3> QED
      BY <1>5, <3>1, <3>3, <3>4 DEF StartRun
  <2>3. UNCHANGED <<version, read, told, skipNext, hasRun, muted>>
    BY <1>5 DEF StartRun
  <2>4. SkippedOK(m, q)'
    BY <1>f, <2>2, <2>3 DEF SkippedOK
  <2> QED
    BY <2>1, <2>4 DEF LeadOK
<1>6. ASSUME FinishSkip PROVE LeadOK(m)'
  BY <1>e, <1>6, LeadHandedOver
<1>7. ASSUME FinishRun PROVE LeadOK(m)'
  BY <1>e, <1>7, LeadHandedOver
<1>8. ASSUME NEW r \in Realms, StartWait(r) PROVE LeadOK(m)'
  <2>1. CASE r = q
    <3>1. pc[q] = "idle" /\ pc'[q] = "wait"
      BY <1>a, <1>8, <2>1 DEF StartWait, Refresh, BeginTransaction, Known, TypeInv, RealmsType
    <3>2. ~InPackage(m) /\ ~InPackage(m)' /\ ~Writing(q)'
      BY <3>1 DEF InPackage, Writing
    <3>3. ToldOK(m, q)' /\ PackagedOK(m, q)' /\ SkippedOK(m, q)'
      BY <1>f, <1>8, <3>1, <3>2 DEF StartWait, ToldOK, PackagedOK, SkippedOK
    <3> QED
      BY <3>3 DEF LeadOK
  <2>2. CASE r # q
    <3>1. ToldOK(m, q)' /\ PackagedOK(m, q)'
      BY <1>a, <1>f, <1>8, <2>2, Unmoved DEF StartWait, Refresh, BeginTransaction, Known, TypeInv,
         NumbersType, ListsType, ChangesType, RealmsType
    <3>2. SkippedOK(m, q)'
      BY <1>f, <1>8, <2>2 DEF StartWait, Refresh, BeginTransaction, SkippedOK, Known, TypeInv,
         NumbersType, ListsType, ChangesType, RealmsType
    <3> QED
      BY <3>1, <3>2 DEF LeadOK
  <2> QED
    BY <2>1, <2>2
<1>9. ASSUME NEW r \in Realms, PackageAndWait(r) PROVE LeadOK(m)'
  <2>1. CASE r = q
    <3>1. callback'[m] => callback[m]
      BY <1>9 DEF PackageAndWait, Take
    <3> QED
      BY <1>a, <1>d, <1>e, <1>9, <2>1, <3>1, WaitedFor
  <2>2. CASE r # q
    <3>1. ToldOK(m, q)' /\ PackagedOK(m, q)'
      <4>1. m \notin package[r]
        BY <1>9, <2>2 DEF Known, WritersInv, WriterOK
      <4> QED
        BY <1>a, <1>f, <1>9, <2>2, <4>1, Unmoved DEF PackageAndWait, Take, Runnable, Known,
           TypeInv, NumbersType, ListsType, ChangesType, RealmsType
    <3>2. SkippedOK(m, q)'
      BY <1>f, <1>9, <2>2 DEF PackageAndWait, Take, Runnable, SkippedOK, Known, TypeInv,
         NumbersType, ListsType, ChangesType, RealmsType
    <3> QED
      BY <3>1, <3>2 DEF LeadOK
  <2> QED
    BY <2>1, <2>2
<1>10. ASSUME NEW r \in Realms, Notify(r) PROVE LeadOK(m)'
  <2>1. CASE r = q
    <3>1. callback'[m] => callback[m]
      BY <1>10 DEF Notify, Take
    <3> QED
      BY <1>a, <1>d, <1>e, <1>10, <2>1, <3>1, NotifiedLead
  <2>2. CASE r # q
    <3>1. m \notin Runnable(ForRealm(r))
      BY <2>2 DEF Runnable, ForRealm
    <3>2. acc'[m] = acc[m] /\ due'[m] = due[m]
      BY <1>10, <3>1 DEF Notify, Take
    <3>3. /\ goal'[q] = goal[q] /\ package'[q] = package[q] /\ upTo'[q] = upTo[q] /\ pc'[q] = pc[q]
      BY <1>10, <2>2 DEF Notify, Take, Known, TypeInv, NumbersType, RealmsType
    <3>4. UNCHANGED <<file, lists, run, notifier, callback, skipNext, told, read, muted, raced>>
      BY <1>10 DEF Notify, Take
    <3>5. ToldOK(m, q)' /\ PackagedOK(m, q)'
      BY <1>a, <1>f, <3>2, <3>3, <3>4, Unmoved
    <3>6. SkippedOK(m, q)'
      BY <1>f, <3>4 DEF SkippedOK
    <3> QED
      BY <3>5, <3>6 DEF LeadOK
  <2> QED
    BY <2>1, <2>2
<1>11. ASSUME NEW r \in Realms, NotifyIgnored(r) PROVE LeadOK(m)'
  <2>1. ToldOK(m, q)' /\ PackagedOK(m, q)'
    BY <1>a, <1>f, <1>11, Unmoved DEF NotifyIgnored
  <2>2. SkippedOK(m, q)'
    BY <1>f, <1>11 DEF NotifyIgnored, SkippedOK
  <2> QED
    BY <2>1, <2>2 DEF LeadOK
<1>12. ASSUME NEW r \in Realms, Deliver(r) PROVE LeadOK(m)'
  <2>1. CASE r = q
    <3>1. callback'[m] => callback[m]
      BY <1>12 DEF Deliver
    <3> QED
      BY <1>a, <1>d, <1>e, <1>12, <2>1, <3>1, LeadDelivered
  <2>2. CASE r # q
    <3>1. m \notin package[r]
      BY <1>12, <2>2 DEF Known, WritersInv, WriterOK
    <3>2. told'[m] = told[m] /\ due'[m] = due[m]
      BY <1>12, <3>1, Delivered DEF Deliver
    <3>3. read'[q] = read[q] /\ pc'[q] = pc[q]
      BY <1>12, <2>2 DEF Deliver, Known, TypeInv, NumbersType, RealmsType
    <3>4. ToldOK(m, q)' /\ PackagedOK(m, q)'
      BY <1>a, <1>f, <1>12, <3>2, <3>3, Unmoved DEF Deliver
    <3>5. SkippedOK(m, q)'
      BY <1>f, <1>12, <3>2, <3>3 DEF Deliver, SkippedOK
    <3> QED
      BY <3>4, <3>5 DEF LeadOK
  <2> QED
    BY <2>1, <2>2
<1>13. ASSUME NEW r \in Realms, EndNotifying(r) PROVE LeadOK(m)'
  <2>1. CASE r = q
    <3>1. pc[q] = "notifying" /\ pc'[q] = IF goal[q] = "write" THEN "write" ELSE "idle"
      BY <1>a, <1>13, <2>1 DEF EndNotifying, Known, TypeInv, RealmsType
    <3>2. ~InPackage(m) /\ ~InPackage(m)' /\ (Writing(q)' => Writing(q))
      BY <3>1 DEF InPackage, Writing
    <3>3. ToldOK(m, q)' /\ PackagedOK(m, q)' /\ SkippedOK(m, q)'
      BY <1>f, <1>13, <3>1, <3>2 DEF EndNotifying, ToldOK, PackagedOK, SkippedOK
    <3> QED
      BY <3>3 DEF LeadOK
  <2>2. CASE r # q
    <3>1. ToldOK(m, q)' /\ PackagedOK(m, q)'
      BY <1>a, <1>f, <1>13, <2>2, Unmoved DEF EndNotifying, Forget, Known, TypeInv, NumbersType,
         ListsType, ChangesType, RealmsType
    <3>2. SkippedOK(m, q)'
      BY <1>f, <1>13, <2>2 DEF EndNotifying, Forget, SkippedOK, Known, TypeInv, NumbersType,
         ListsType, ChangesType, RealmsType
    <3> QED
      BY <3>1, <3>2 DEF LeadOK
  <2> QED
    BY <2>1, <2>2
<1>14. ASSUME NEW r \in Realms, BeginInside(r) PROVE LeadOK(m)'
  BY <1>14 DEF BeginInside
<1>15. ASSUME NEW r \in Realms, Cancel(r) PROVE LeadOK(m)'
  <2>1. CASE r = q
    <3>1. pc[q] = "write" /\ pc'[q] = "idle"
      BY <1>a, <1>15, <2>1 DEF Cancel, Known, TypeInv, RealmsType
    <3>2. ~InPackage(m) /\ ~InPackage(m)' /\ ~Writing(q)'
      BY <3>1 DEF InPackage, Writing
    <3>3. ToldOK(m, q)' /\ PackagedOK(m, q)' /\ SkippedOK(m, q)'
      BY <1>f, <1>15, <3>1, <3>2 DEF Cancel, ToldOK, PackagedOK, SkippedOK
    <3> QED
      BY <3>3 DEF LeadOK
  <2>2. CASE r # q
    <3>1. ToldOK(m, q)' /\ PackagedOK(m, q)'
      BY <1>a, <1>f, <1>15, <2>2, Unmoved DEF Cancel, Known, TypeInv, NumbersType, ListsType,
         ChangesType, RealmsType
    <3>2. SkippedOK(m, q)'
      BY <1>f, <1>15, <2>2 DEF Cancel, SkippedOK, Known, TypeInv, NumbersType, ListsType,
         ChangesType, RealmsType
    <3> QED
      BY <3>1, <3>2 DEF LeadOK
  <2> QED
    BY <2>1, <2>2
<1>16. ASSUME NEW r \in Realms, Commit(r) PROVE LeadOK(m)'
  <2>1. CASE r = q
    <3>1. callback'[m] => callback[m]
      BY <1>16 DEF Commit
    <3> QED
      BY <1>a, <1>d, <1>e, <1>16, <2>1, <3>1, LeadCommitted
  <2>2. CASE r # q
    <3>1. m \notin muted /\ writer # q
      BY <1>a, <1>16, <2>2 DEF Commit, Known, WritersInv, WriterOK, CallbackOK
    <3>2. /\ told'[m] = told[m] /\ skipNext'[m] = skipNext[m] /\ read'[q] = read[q] /\ pc'[q] = pc[q]
          /\ (raced => raced')
      BY <1>16, <2>2, <3>1 DEF Commit, Known, TypeInv, NumbersType, ListsType, ChangesType,
         RealmsType
    <3>3. ToldOK(m, q)' /\ PackagedOK(m, q)'
      BY <1>a, <1>f, <1>16, <3>1, <3>2, Unmoved DEF Commit
    <3>4. skipVersion = 0 \/ skipVersion' = skipVersion
      BY <1>16 DEF Commit
    <3>5. read[q] # 0
      BY <1>a DEF Known, TypeInv, NumbersType
    <3>6. SkippedOK(m, q)'
      BY <1>f, <1>16, <3>1, <3>2, <3>4, <3>5 DEF Commit, SkippedOK
    <3> QED
      BY <3>3, <3>6 DEF LeadOK
  <2> QED
    BY <2>1, <2>2
<1>17. ASSUME CommitElsewhere PROVE LeadOK(m)'
  <2>1. writer # q
    BY <1>a, <1>17 DEF CommitElsewhere
  <2>2. ToldOK(m, q)' /\ PackagedOK(m, q)'
    BY <1>a, <1>f, <1>17, <2>1, Unmoved DEF CommitElsewhere
  <2>3. SkippedOK(m, q)'
    BY <1>f, <1>17 DEF CommitElsewhere, SkippedOK
  <2> QED
    BY <2>2, <2>3 DEF LeadOK
<1>19. ASSUME NEW r \in Realms, NEW n \in Notifiers, Suppress(r, n) PROVE LeadOK(m)'
  <2>1. CASE m = n
    <3>1. /\ skipNext'[m] /\ m \in muted' /\ pc[q] = "write"
          /\ UNCHANGED <<file, lists, notifier, callback, acc, due, told, threads, raced>>
      BY <1>19, <2>1 DEF Suppress, Known, TypeInv, ListsType
    <3>2. ~InPackage(m) /\ ~InPackage(m)' /\ Writing(q)' = Writing(q)
      BY <3>1 DEF InPackage, Writing
    <3>3. ToldOK(m, q)' /\ PackagedOK(m, q)' /\ SkippedOK(m, q)'
      BY <1>f, <3>1, <3>2 DEF ToldOK, PackagedOK, SkippedOK
    <3> QED
      BY <3>3 DEF LeadOK
  <2>2. CASE m # n
    <3>1. skipNext'[m] = skipNext[m] /\ (m \notin muted' => m \notin muted)
      BY <1>19, <2>2 DEF Suppress, Known, TypeInv, ListsType
    <3>2. ToldOK(m, q)' /\ PackagedOK(m, q)'
      BY <1>a, <1>f, <1>19, <3>1, Unmoved DEF Suppress
    <3>3. SkippedOK(m, q)'
      BY <1>f, <1>19, <3>1 DEF Suppress, SkippedOK
    <3> QED
      BY <3>2, <3>3 DEF LeadOK
  <2> QED
    BY <2>1, <2>2
<1>18. ASSUME UNCHANGED vars PROVE LeadOK(m)'
  <2>1. ToldOK(m, q)' /\ PackagedOK(m, q)'
    BY <1>a, <1>f, <1>18, Unmoved DEF vars
  <2>2. SkippedOK(m, q)'
    BY <1>f, <1>18 DEF vars, SkippedOK
  <2> QED
    BY <2>1, <2>2 DEF LeadOK
<1> QED
  BY <1>1, <1>2, <1>3, <1>4, <1>5, <1>6, <1>7, <1>8, <1>9, <1>10, <1>11, <1>12, <1>13, <1>14,
     <1>15, <1>16, <1>17, <1>18, <1>19 DEF Next, User, Worker, RealmStep

LEMMA KnownHolds == Spec => []Known
<1>1. Init => RealmsInv /\ SkipAhead
  BY DEF Init, RealmsInv, RealmOK, SkipAhead
<1>2. TypeInv /\ ListsInv /\ NotifiersInv /\ RealmsInv /\ WritersInv /\ CallbacksInv /\ SkipAhead
        /\ [Next]_vars => (RealmsInv /\ WritersInv /\ CallbacksInv /\ SkipAhead)'
  BY RealmsInvNext, WritersInvNext, CallbacksInvNext, SkipAheadNext
<1> QED
  BY TypeHolds, ListsHold, CallbacksInit, <1>1, <1>2, PTL DEF Spec, Known

LEMMA LeadHolds == Spec => []Lead
<1>1. Init => Lead
  BY DEF Init, Lead, LeadOK, ToldOK, PackagedOK, SkippedOK, InPackage
<1> QED
  BY KnownHolds, <1>1, LeadNext, PTL DEF Spec

\* Only a delivery calls callbacks.
LEMMA CalledByDeliver ==
  ASSUME TypeInv, [Next]_vars, NEW r \in Realms, Called(r)
  PROVE  Deliver(r)
<1> DEFINE Goal == Deliver(r)
<1> SUFFICES Goal
  OBVIOUS
<1>a. pc[r] = "packaged" /\ pc'[r] = "notifying" /\ pc \in [Realms -> {"idle", "wait", "packaged", "notifying", "write"}]
  BY DEF Called, TypeInv, RealmsType
<1> HIDE DEF Goal
<1> USE DEF file, lists, run, notifier, cbs, threads, history
<1>1. ASSUME NEW n \in Notifiers, Register(n) PROVE Goal
  BY <1>a, <1>1 DEF Register, InUse, Pinned, Goal
<1>2. ASSUME NEW n \in Notifiers, AddCallback(n) PROVE Goal
  BY <1>a, <1>2 DEF AddCallback, WakeUp, InUse, Goal
<1>3. ASSUME NEW n \in Notifiers, RemoveCallback(n) PROVE Goal
  BY <1>a, <1>3 DEF RemoveCallback, Goal
<1>4. ASSUME NEW n \in Notifiers, Unregister(n) PROVE Goal
  BY <1>a, <1>4 DEF Unregister, Goal
<1>5. ASSUME StartRun PROVE Goal
  BY <1>a, <1>5 DEF StartRun, SkipKept, Living, Goal
<1>6. ASSUME FinishSkip PROVE Goal
  BY <1>a, <1>6 DEF FinishSkip, HandOver, Goal
<1>7. ASSUME FinishRun PROVE Goal
  BY <1>a, <1>7 DEF FinishRun, HandOver, SkipKept, Living, Goal
<1>8. ASSUME NEW p \in Realms, StartWait(p) PROVE Goal
  BY <1>a, <1>8 DEF StartWait, Refresh, BeginTransaction, ForRealm, Goal
<1>9. ASSUME NEW p \in Realms, PackageAndWait(p) PROVE Goal
  BY <1>a, <1>9 DEF PackageAndWait, Take, Runnable, VersionOf, Goal
<1>10. ASSUME NEW p \in Realms, Notify(p) PROVE Goal
  BY <1>a, <1>10 DEF Notify, Take, Runnable, VersionOf, ForRealm, Late, Goal
<1>11. ASSUME NEW p \in Realms, NotifyIgnored(p) PROVE Goal
  BY <1>a, <1>11 DEF NotifyIgnored, Goal
<1>12. ASSUME NEW p \in Realms, Deliver(p) PROVE Goal
  BY <1>a, <1>12 DEF Deliver, AdvancesTo, Goal
<1>13. ASSUME NEW p \in Realms, EndNotifying(p) PROVE Goal
  BY <1>a, <1>13 DEF EndNotifying, Forget, Goal
<1>14. ASSUME NEW p \in Realms, BeginInside(p) PROVE Goal
  BY <1>a, <1>14 DEF BeginInside, Forget, Goal
<1>15. ASSUME NEW p \in Realms, Cancel(p) PROVE Goal
  BY <1>a, <1>15 DEF Cancel, Goal
<1>16. ASSUME NEW p \in Realms, Commit(p) PROVE Goal
  BY <1>a, <1>16 DEF Commit, WakeUp, Goal
<1>17. ASSUME CommitElsewhere PROVE Goal
  BY <1>a, <1>17 DEF CommitElsewhere, WakeUp, Goal
<1>19. ASSUME NEW p \in Realms, NEW n \in Notifiers, Suppress(p, n) PROVE Goal
  BY <1>a, <1>19 DEF Suppress, Goal
<1>18. ASSUME UNCHANGED vars PROVE Goal
  BY <1>a, <1>18 DEF vars, Goal
<1> QED
  BY <1>1, <1>2, <1>3, <1>4, <1>5, <1>6, <1>7, <1>8, <1>9, <1>10, <1>11, <1>12, <1>13, <1>14,
     <1>15, <1>16, <1>17, <1>18, <1>19 DEF Next, User, Worker, RealmStep

\* CollectionNotifier::add_changes, package_for_delivery and after_advance: whatever the
\* threads do in between, the change sets a callback is called with lead from where it was
\* told to be exactly to the version its Realm is at.
THEOREM ToldMatchesViewCorrect == Spec => ToldMatchesView
<1> DEFINE Step == ~excused => \A r \in Realms : Called(r) =>
                     \A n \in Notifiers : RealmOf[n] = r /\ told[n] # {} =>
                       \/ n \notin package[r] /\ read'[r] = read[r]
                       \/ told'[n] = 1 .. read'[r]
<1>1. ASSUME Known, Lead, [Next]_vars PROVE Step
  <2> SUFFICES ASSUME ~excused, NEW r \in Realms, Called(r), NEW n \in Notifiers,
                      RealmOf[n] = r, told[n] # {}
               PROVE  \/ n \notin package[r] /\ read'[r] = read[r]
                      \/ told'[n] = 1 .. read'[r]
    OBVIOUS
  <2>1. Deliver(r)
    BY <1>1, CalledByDeliver DEF Known
  <2>2. callback[n] /\ LeadOK(n)
    BY <1>1 DEF Known, CallbacksInv, CallbackOK, Lead
  <2> QED
    BY <1>1, <2>1, <2>2, LeadToView
<1> HIDE DEF Step
<1>2. Spec => [][Step]_vars
  BY KnownHolds, LeadHolds, <1>1, PTL DEF Spec
<1> QED
  BY <1>2 DEF Step, ToldMatchesView

\* suppress_next_notification and the version to skip: no change is delivered twice, nor one
\* committed with the callback suppressed, unless the notifiers ran at some time between the
\* call that suppressed it and the end of the commit.
THEOREM NeverRepeatedCorrect == Spec => NeverRepeated
<1> DEFINE Step == ~excused /\ ~raced => \A r \in Realms : ~Repeats(r)
<1>1. ASSUME Known, Lead, [Next]_vars PROVE Step
  <2> SUFFICES ASSUME ~excused, ~raced, NEW r \in Realms, Called(r), NEW n \in package[r],
                      callback[n]
               PROVE  due[n] \cap told[n] = {}
    BY DEF Repeats
  <2>1. n \in Notifiers /\ RealmOf[n] = r
    BY <1>1 DEF Known, TypeInv, RealmsType, WritersInv, WriterOK
  <2>2. LeadOK(n) /\ InPackage(n)
    BY <1>1, <2>1 DEF Lead, InPackage, Called
  <2> QED
    BY <2>1, <2>2 DEF LeadOK, PackagedOK
<1> HIDE DEF Step
<1>2. Spec => [][Step]_vars
  BY KnownHolds, LeadHolds, <1>1, PTL DEF Spec
<1> QED
  BY <1>2 DEF Step, NeverRepeated
=============================================================================
