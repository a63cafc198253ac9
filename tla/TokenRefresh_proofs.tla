------------------------ MODULE TokenRefresh_proofs ------------------------
(***************************************************************************)
(* Theorems about TokenRefresh, for any number of handles, sessions and    *)
(* log outs.                                                               *)
(***************************************************************************)
EXTENDS TokenRefresh, TLAPS

USE BoundsAssumption

-----------------------------------------------------------------------------
(* Types.                                                                  *)

LEMMA TypeInit == Init => TypeOK
<1> SUFFICES ASSUME Init PROVE TypeOK
  OBVIOUS
<1>1. /\ stage \in [Handles -> {"unmade", "requesting", "leaving", "queued", "timed", "done"} \cup Answers]
      /\ \A h \in Handles : stage[h] = "unmade" <=> h > made
  BY DEF Init, Handles
<1>2. of \in [Handles -> 0 .. gen]
  BY DEF Init
<1>3. 0 \in 0 .. MaxHandles /\ 0 \in 0 .. MaxSessions /\ 0 \in 0 .. MaxLogOuts /\ 0 \in 0 .. MaxRevivers /\ 0 \in 0 .. 0
  OBVIOUS
<1>4. /\ session \in {"none", "waiting", "active", "inactive"} /\ gen \in 0 .. MaxSessions
      /\ user \in {"in", "out"} /\ excused \in BOOLEAN /\ reviving \in 0 .. MaxRevivers
      /\ asking \in 0 .. MaxHandles /\ made \in 0 .. MaxHandles
  BY <1>3 DEF Init
<1>6. asking + made <= MaxHandles
  BY DEF Init
<1>5. /\ binding \subseteq 1 .. made /\ registered \in 0 .. made
      /\ leaving \in 0 .. MaxLogOuts /\ logOuts \in 0 .. MaxLogOuts /\ leaving <= logOuts
      /\ strong \subseteq 1 .. made /\ detached \subseteq 1 .. made
  BY <1>3 DEF Init
<1> QED
  BY <1>1, <1>2, <1>4, <1>5, <1>6 DEF TypeOK

\* What leaves the registry is a handle that was made.
LEMMA DetachType ==
  ASSUME TypeOK, NEW holding, Detach(holding)
  PROVE  detached' \subseteq 1 .. made
<1>1. registered \in 0 .. made /\ detached \subseteq 1 .. made /\ made \in Nat
  BY DEF TypeOK
<1>2. \A h \in Handles : h = registered => h \in 1 .. made
  BY <1>1 DEF Handles
<1> QED
  BY <1>1, <1>2 DEF Detach

LEMMA UnregisterType ==
  ASSUME TypeOK, NEW h \in Handles, Unregister(h)
  PROVE  detached' \subseteq 1 .. made /\ registered' = 0 /\ excused' \in BOOLEAN
<1>1. CASE registered = h
  BY <1>1 DEF Unregister, TypeOK
<1>2. CASE registered # h
  BY <1>2, DetachType DEF Unregister
<1> QED
  BY <1>1, <1>2

LEMMA TypeNext == TypeOK /\ [Next]_vars => TypeOK'
<1> SUFFICES ASSUME TypeOK, [Next]_vars PROVE TypeOK'
  OBVIOUS
<1> USE DEF world, registry
<1>1. ASSUME Open PROVE TypeOK'
  <2> USE DEF Open, GoOnToRevive
  <2>0. /\ asking \in Nat /\ made \in Nat /\ gen \in Nat /\ gen <= MaxSessions
        /\ leaving \in Nat /\ logOuts \in Nat /\ logOuts <= MaxLogOuts /\ leaving <= logOuts
        /\ registered \in 0 .. made /\ binding \subseteq 1 .. made /\ of \in [Handles -> 0 .. gen]
    BY DEF TypeOK
  <2>1. /\ session' \in {"none", "waiting", "active", "inactive"} /\ gen' \in 0 .. MaxSessions
        /\ user' \in {"in", "out"} /\ reviving' \in 0 .. MaxRevivers
        /\ leaving' \in 0 .. MaxLogOuts /\ logOuts' \in 0 .. MaxLogOuts /\ leaving' <= logOuts'
    BY <1>1, <2>0 DEF TypeOK, Live
  <2>2. asking' \in 0 .. MaxHandles /\ made' \in 0 .. MaxHandles /\ asking' + made' <= MaxHandles
    BY <1>1 DEF TypeOK
  <2>3. excused' \in BOOLEAN
    BY <1>1, UnregisterType DEF TypeOK
  <2>4. registered' \in 0 .. made'
    BY <1>1, <2>0, UnregisterType
  <2>5. binding' \subseteq 1 .. made' /\ strong' \subseteq 1 .. made'
    BY <1>1 DEF TypeOK
  <2>6. detached' \subseteq 1 .. made'
    BY <1>1, <2>0, DetachType, UnregisterType DEF TypeOK
  <2>7. stage' \in [Handles -> {"unmade", "requesting", "leaving", "queued", "timed", "done"} \cup Answers]
    BY <1>1 DEF TypeOK, Answers
  <2>8. \A g \in Handles : stage'[g] = "unmade" <=> g > made'
    BY <1>1 DEF TypeOK, Handles, Answers
  <2>9. of' \in [Handles -> 0 .. gen']
    <3>1. of' = of \/ \E k : of' = [of EXCEPT ![k] = gen]
      BY <1>1
    <3>2. gen' \in Nat /\ gen <= gen'
      BY <1>1, <2>0
    <3> QED
      BY <3>1, <3>2, <2>0
  <2> QED
    BY <2>1, <2>2, <2>3, <2>4, <2>5, <2>6, <2>7, <2>8, <2>9 DEF TypeOK
<1>2. ASSUME AskAgain PROVE TypeOK'
  <2> USE DEF AskAgain, Ask
  <2>0. /\ asking \in Nat /\ made \in Nat /\ gen \in Nat /\ gen <= MaxSessions
        /\ leaving \in Nat /\ logOuts \in Nat /\ logOuts <= MaxLogOuts /\ leaving <= logOuts
        /\ registered \in 0 .. made /\ binding \subseteq 1 .. made /\ of \in [Handles -> 0 .. gen]
    BY DEF TypeOK
  <2>1. /\ session' \in {"none", "waiting", "active", "inactive"} /\ gen' \in 0 .. MaxSessions
        /\ user' \in {"in", "out"} /\ reviving' \in 0 .. MaxRevivers
        /\ leaving' \in 0 .. MaxLogOuts /\ logOuts' \in 0 .. MaxLogOuts /\ leaving' <= logOuts'
    BY <1>2, <2>0 DEF TypeOK, Live
  <2>2. asking' \in 0 .. MaxHandles /\ made' \in 0 .. MaxHandles /\ asking' + made' <= MaxHandles
    BY <1>2 DEF TypeOK
  <2>3. excused' \in BOOLEAN
    BY <1>2, UnregisterType DEF TypeOK
  <2>4. registered' \in 0 .. made'
    BY <1>2, <2>0, UnregisterType
  <2>5. binding' \subseteq 1 .. made' /\ strong' \subseteq 1 .. made'
    BY <1>2 DEF TypeOK
  <2>6. detached' \subseteq 1 .. made'
    BY <1>2, <2>0, DetachType, UnregisterType DEF TypeOK
  <2>7. stage' \in [Handles -> {"unmade", "requesting", "leaving", "queued", "timed", "done"} \cup Answers]
    BY <1>2 DEF TypeOK, Answers
  <2>8. \A g \in Handles : stage'[g] = "unmade" <=> g > made'
    BY <1>2 DEF TypeOK, Handles, Answers
  <2>9. of' \in [Handles -> 0 .. gen']
    <3>1. of' = of \/ \E k : of' = [of EXCEPT ![k] = gen]
      BY <1>2
    <3>2. gen' \in Nat /\ gen <= gen'
      BY <1>2, <2>0
    <3> QED
      BY <3>1, <3>2, <2>0
  <2> QED
    BY <2>1, <2>2, <2>3, <2>4, <2>5, <2>6, <2>7, <2>8, <2>9 DEF TypeOK
<1>21. ASSUME Resume PROVE TypeOK'
  BY <1>21 DEF Resume, GoOnToRevive, TypeOK, Handles, Answers, Calls, Live
<1>22. ASSUME Revive PROVE TypeOK'
  <2> USE DEF Revive, Ask
  <2>0. /\ asking \in Nat /\ made \in Nat /\ gen \in Nat /\ gen <= MaxSessions
        /\ leaving \in Nat /\ logOuts \in Nat /\ logOuts <= MaxLogOuts /\ leaving <= logOuts
        /\ registered \in 0 .. made /\ binding \subseteq 1 .. made /\ of \in [Handles -> 0 .. gen]
    BY DEF TypeOK
  <2>1. /\ session' \in {"none", "waiting", "active", "inactive"} /\ gen' \in 0 .. MaxSessions
        /\ user' \in {"in", "out"} /\ reviving' \in 0 .. MaxRevivers
        /\ leaving' \in 0 .. MaxLogOuts /\ logOuts' \in 0 .. MaxLogOuts /\ leaving' <= logOuts'
    BY <1>22, <2>0 DEF TypeOK, Live
  <2>2. asking' \in 0 .. MaxHandles /\ made' \in 0 .. MaxHandles /\ asking' + made' <= MaxHandles
    BY <1>22 DEF TypeOK
  <2>3. excused' \in BOOLEAN
    BY <1>22, UnregisterType DEF TypeOK
  <2>4. registered' \in 0 .. made'
    BY <1>22, <2>0, UnregisterType
  <2>5. binding' \subseteq 1 .. made' /\ strong' \subseteq 1 .. made'
    BY <1>22 DEF TypeOK
  <2>6. detached' \subseteq 1 .. made'
    BY <1>22, <2>0, DetachType, UnregisterType DEF TypeOK
  <2>7. stage' \in [Handles -> {"unmade", "requesting", "leaving", "queued", "timed", "done"} \cup Answers]
    BY <1>22 DEF TypeOK, Answers
  <2>8. \A g \in Handles : stage'[g] = "unmade" <=> g > made'
    BY <1>22 DEF TypeOK, Handles, Answers
  <2>9. of' \in [Handles -> 0 .. gen']
    <3>1. of' = of \/ \E k : of' = [of EXCEPT ![k] = gen]
      BY <1>22
    <3>2. gen' \in Nat /\ gen <= gen'
      BY <1>22, <2>0
    <3> QED
      BY <3>1, <3>2, <2>0
  <2> QED
    BY <2>1, <2>2, <2>3, <2>4, <2>5, <2>6, <2>7, <2>8, <2>9 DEF TypeOK
<1>3. ASSUME Close PROVE TypeOK'
  BY <1>3 DEF Close, TypeOK, Handles, Answers, Calls, Live
<1>4. ASSUME Destroy PROVE TypeOK'
  BY <1>4 DEF Destroy, TypeOK, Handles, Answers, Calls, Live
<1>5. ASSUME LogOut PROVE TypeOK'
  <2> USE DEF LogOut, UserLogOut
  <2>0. /\ asking \in Nat /\ made \in Nat /\ gen \in Nat /\ gen <= MaxSessions
        /\ leaving \in Nat /\ logOuts \in Nat /\ logOuts <= MaxLogOuts /\ leaving <= logOuts
        /\ registered \in 0 .. made /\ binding \subseteq 1 .. made /\ of \in [Handles -> 0 .. gen]
    BY DEF TypeOK
  <2>1. /\ session' \in {"none", "waiting", "active", "inactive"} /\ gen' \in 0 .. MaxSessions
        /\ user' \in {"in", "out"} /\ reviving' \in 0 .. MaxRevivers
        /\ leaving' \in 0 .. MaxLogOuts /\ logOuts' \in 0 .. MaxLogOuts /\ leaving' <= logOuts'
    BY <1>5, <2>0 DEF TypeOK, Live
  <2>2. asking' \in 0 .. MaxHandles /\ made' \in 0 .. MaxHandles /\ asking' + made' <= MaxHandles
    BY <1>5 DEF TypeOK
  <2>3. excused' \in BOOLEAN
    BY <1>5, UnregisterType DEF TypeOK
  <2>4. registered' \in 0 .. made'
    BY <1>5, <2>0, UnregisterType
  <2>5. binding' \subseteq 1 .. made' /\ strong' \subseteq 1 .. made'
    BY <1>5 DEF TypeOK
  <2>6. detached' \subseteq 1 .. made'
    BY <1>5, <2>0, DetachType, UnregisterType DEF TypeOK
  <2>7. stage' \in [Handles -> {"unmade", "requesting", "leaving", "queued", "timed", "done"} \cup Answers]
    BY <1>5 DEF TypeOK, Answers
  <2>8. \A g \in Handles : stage'[g] = "unmade" <=> g > made'
    BY <1>5 DEF TypeOK, Handles, Answers
  <2>9. of' \in [Handles -> 0 .. gen']
    <3>1. of' = of \/ \E k : of' = [of EXCEPT ![k] = gen]
      BY <1>5
    <3>2. gen' \in Nat /\ gen <= gen'
      BY <1>5, <2>0
    <3> QED
      BY <3>1, <3>2, <2>0
  <2> QED
    BY <2>1, <2>2, <2>3, <2>4, <2>5, <2>6, <2>7, <2>8, <2>9 DEF TypeOK
<1>6. ASSUME LogIn PROVE TypeOK'
  BY <1>6 DEF LogIn, GoOnToRevive, TypeOK, Handles, Answers, Calls, Live
<1>7. ASSUME LogOutEnds PROVE TypeOK'
  <2> USE DEF LogOutEnds, InvalidateAll, StopRegistered, Stopped
  <2>0. /\ asking \in Nat /\ made \in Nat /\ gen \in Nat /\ gen <= MaxSessions
        /\ leaving \in Nat /\ logOuts \in Nat /\ logOuts <= MaxLogOuts /\ leaving <= logOuts
        /\ registered \in 0 .. made /\ binding \subseteq 1 .. made /\ of \in [Handles -> 0 .. gen]
    BY DEF TypeOK
  <2>1. /\ session' \in {"none", "waiting", "active", "inactive"} /\ gen' \in 0 .. MaxSessions
        /\ user' \in {"in", "out"} /\ reviving' \in 0 .. MaxRevivers
        /\ leaving' \in 0 .. MaxLogOuts /\ logOuts' \in 0 .. MaxLogOuts /\ leaving' <= logOuts'
    BY <1>7, <2>0 DEF TypeOK, Live
  <2>2. asking' \in 0 .. MaxHandles /\ made' \in 0 .. MaxHandles /\ asking' + made' <= MaxHandles
    BY <1>7 DEF TypeOK
  <2>3. excused' \in BOOLEAN
    BY <1>7, UnregisterType DEF TypeOK
  <2>4. registered' \in 0 .. made'
    BY <1>7, <2>0, UnregisterType
  <2>5. binding' \subseteq 1 .. made' /\ strong' \subseteq 1 .. made'
    BY <1>7 DEF TypeOK
  <2>6. detached' \subseteq 1 .. made'
    BY <1>7, <2>0, DetachType, UnregisterType DEF TypeOK
  <2>7. stage' \in [Handles -> {"unmade", "requesting", "leaving", "queued", "timed", "done"} \cup Answers]
    BY <1>7 DEF TypeOK, Answers
  <2>8. \A g \in Handles : stage'[g] = "unmade" <=> g > made'
    BY <1>7 DEF TypeOK, Handles, Answers
  <2>9. of' \in [Handles -> 0 .. gen']
    <3>1. of' = of \/ \E k : of' = [of EXCEPT ![k] = gen]
      BY <1>7
    <3>2. gen' \in Nat /\ gen <= gen'
      BY <1>7, <2>0
    <3> QED
      BY <3>1, <3>2, <2>0
  <2> QED
    BY <2>1, <2>2, <2>3, <2>4, <2>5, <2>6, <2>7, <2>8, <2>9 DEF TypeOK
<1>8. ASSUME MakeHandle PROVE TypeOK'
  <2> USE DEF MakeHandle
  <2>0. /\ asking \in Nat /\ made \in Nat /\ gen \in Nat /\ gen <= MaxSessions
        /\ leaving \in Nat /\ logOuts \in Nat /\ logOuts <= MaxLogOuts /\ leaving <= logOuts
        /\ registered \in 0 .. made /\ binding \subseteq 1 .. made /\ of \in [Handles -> 0 .. gen]
    BY DEF TypeOK
  <2>1. /\ session' \in {"none", "waiting", "active", "inactive"} /\ gen' \in 0 .. MaxSessions
        /\ user' \in {"in", "out"} /\ reviving' \in 0 .. MaxRevivers
        /\ leaving' \in 0 .. MaxLogOuts /\ logOuts' \in 0 .. MaxLogOuts /\ leaving' <= logOuts'
    BY <1>8, <2>0 DEF TypeOK, Live
  <2>2. asking' \in 0 .. MaxHandles /\ made' \in 0 .. MaxHandles /\ asking' + made' <= MaxHandles
    BY <1>8 DEF TypeOK
  <2>3. excused' \in BOOLEAN
    BY <1>8, UnregisterType DEF TypeOK
  <2>4. registered' \in 0 .. made'
    BY <1>8, <2>0, UnregisterType
  <2>5. binding' \subseteq 1 .. made' /\ strong' \subseteq 1 .. made'
    BY <1>8 DEF TypeOK
  <2>6. detached' \subseteq 1 .. made'
    BY <1>8, <2>0, DetachType, UnregisterType DEF TypeOK
  <2>7. stage' \in [Handles -> {"unmade", "requesting", "leaving", "queued", "timed", "done"} \cup Answers]
    BY <1>8 DEF TypeOK, Answers
  <2>8. \A g \in Handles : stage'[g] = "unmade" <=> g > made'
    BY <1>8 DEF TypeOK, Handles, Answers
  <2>9. of' \in [Handles -> 0 .. gen']
    <3>1. of' = of \/ \E k : of' = [of EXCEPT ![k] = gen]
      BY <1>8
    <3>2. gen' \in Nat /\ gen <= gen'
      BY <1>8, <2>0
    <3> QED
      BY <3>1, <3>2, <2>0
  <2> QED
    BY <2>1, <2>2, <2>3, <2>4, <2>5, <2>6, <2>7, <2>8, <2>9 DEF TypeOK
<1>9. ASSUME NEW h \in Handles, Register(h) PROVE TypeOK'
  <2> USE DEF Register, Detach, StopRegistered, Stopped
  <2>0. /\ asking \in Nat /\ made \in Nat /\ gen \in Nat /\ gen <= MaxSessions
        /\ leaving \in Nat /\ logOuts \in Nat /\ logOuts <= MaxLogOuts /\ leaving <= logOuts
        /\ registered \in 0 .. made /\ binding \subseteq 1 .. made /\ of \in [Handles -> 0 .. gen]
    BY DEF TypeOK
  <2>1. /\ session' \in {"none", "waiting", "active", "inactive"} /\ gen' \in 0 .. MaxSessions
        /\ user' \in {"in", "out"} /\ reviving' \in 0 .. MaxRevivers
        /\ leaving' \in 0 .. MaxLogOuts /\ logOuts' \in 0 .. MaxLogOuts /\ leaving' <= logOuts'
    BY <1>9, <2>0 DEF TypeOK, Live
  <2>2. asking' \in 0 .. MaxHandles /\ made' \in 0 .. MaxHandles /\ asking' + made' <= MaxHandles
    BY <1>9 DEF TypeOK
  <2>3. excused' \in BOOLEAN
    BY <1>9, UnregisterType DEF TypeOK
  <2>4. registered' \in 0 .. made'
    BY <1>9, <2>0, UnregisterType
  <2>5. binding' \subseteq 1 .. made' /\ strong' \subseteq 1 .. made'
    BY <1>9 DEF TypeOK
  <2>6. detached' \subseteq 1 .. made'
    BY <1>9, <2>0, DetachType, UnregisterType DEF TypeOK
  <2>7. stage' \in [Handles -> {"unmade", "requesting", "leaving", "queued", "timed", "done"} \cup Answers]
    BY <1>9 DEF TypeOK, Answers
  <2>8. \A g \in Handles : stage'[g] = "unmade" <=> g > made'
    BY <1>9 DEF TypeOK, Handles, Answers
  <2>9. of' \in [Handles -> 0 .. gen']
    <3>1. of' = of \/ \E k : of' = [of EXCEPT ![k] = gen]
      BY <1>9
    <3>2. gen' \in Nat /\ gen <= gen'
      BY <1>9, <2>0
    <3> QED
      BY <3>1, <3>2, <2>0
  <2> QED
    BY <2>1, <2>2, <2>3, <2>4, <2>5, <2>6, <2>7, <2>8, <2>9 DEF TypeOK
<1>10. ASSUME NEW h \in Handles, HandleToken(h) PROVE TypeOK'
  <2> USE DEF HandleToken, Reschedule, TokenTaken
  <2>0. /\ asking \in Nat /\ made \in Nat /\ gen \in Nat /\ gen <= MaxSessions
        /\ leaving \in Nat /\ logOuts \in Nat /\ logOuts <= MaxLogOuts /\ leaving <= logOuts
        /\ registered \in 0 .. made /\ binding \subseteq 1 .. made /\ of \in [Handles -> 0 .. gen]
    BY DEF TypeOK
  <2>1. /\ session' \in {"none", "waiting", "active", "inactive"} /\ gen' \in 0 .. MaxSessions
        /\ user' \in {"in", "out"} /\ reviving' \in 0 .. MaxRevivers
        /\ leaving' \in 0 .. MaxLogOuts /\ logOuts' \in 0 .. MaxLogOuts /\ leaving' <= logOuts'
    BY <1>10, <2>0 DEF TypeOK, Live
  <2>2. asking' \in 0 .. MaxHandles /\ made' \in 0 .. MaxHandles /\ asking' + made' <= MaxHandles
    BY <1>10 DEF TypeOK
  <2>3. excused' \in BOOLEAN
    BY <1>10, UnregisterType DEF TypeOK
  <2>4. registered' \in 0 .. made'
    BY <1>10, <2>0, UnregisterType
  <2>5. binding' \subseteq 1 .. made' /\ strong' \subseteq 1 .. made'
    BY <1>10 DEF TypeOK
  <2>6. detached' \subseteq 1 .. made'
    BY <1>10, <2>0, DetachType, UnregisterType DEF TypeOK
  <2>7. stage' \in [Handles -> {"unmade", "requesting", "leaving", "queued", "timed", "done"} \cup Answers]
    BY <1>10 DEF TypeOK, Answers
  <2>8. \A g \in Handles : stage'[g] = "unmade" <=> g > made'
    BY <1>10 DEF TypeOK, Handles, Answers
  <2>9. of' \in [Handles -> 0 .. gen']
    <3>1. of' = of \/ \E k : of' = [of EXCEPT ![k] = gen]
      BY <1>10
    <3>2. gen' \in Nat /\ gen <= gen'
      BY <1>10, <2>0
    <3> QED
      BY <3>1, <3>2, <2>0
  <2> QED
    BY <2>1, <2>2, <2>3, <2>4, <2>5, <2>6, <2>7, <2>8, <2>9 DEF TypeOK
<1>11. ASSUME NEW h \in Handles, Retry(h) PROVE TypeOK'
  BY <1>11 DEF Retry, Reschedule, TypeOK, Handles, Answers, Calls, Live
<1>12. ASSUME NEW h \in Handles, ReportInvalidToken(h) PROVE TypeOK'
  BY <1>12 DEF ReportInvalidToken, UserLogOut, TypeOK, Handles, Answers, Calls, Live
<1>13. ASSUME NEW h \in Handles, InvalidTokenReported(h) PROVE TypeOK'
  <2> USE DEF InvalidTokenReported, InvalidateAll, StopRegistered, Stopped
  <2>0. /\ asking \in Nat /\ made \in Nat /\ gen \in Nat /\ gen <= MaxSessions
        /\ leaving \in Nat /\ logOuts \in Nat /\ logOuts <= MaxLogOuts /\ leaving <= logOuts
        /\ registered \in 0 .. made /\ binding \subseteq 1 .. made /\ of \in [Handles -> 0 .. gen]
    BY DEF TypeOK
  <2>1. /\ session' \in {"none", "waiting", "active", "inactive"} /\ gen' \in 0 .. MaxSessions
        /\ user' \in {"in", "out"} /\ reviving' \in 0 .. MaxRevivers
        /\ leaving' \in 0 .. MaxLogOuts /\ logOuts' \in 0 .. MaxLogOuts /\ leaving' <= logOuts'
    BY <1>13, <2>0 DEF TypeOK, Live
  <2>2. asking' \in 0 .. MaxHandles /\ made' \in 0 .. MaxHandles /\ asking' + made' <= MaxHandles
    BY <1>13 DEF TypeOK
  <2>3. excused' \in BOOLEAN
    BY <1>13, UnregisterType DEF TypeOK
  <2>4. registered' \in 0 .. made'
    BY <1>13, <2>0, UnregisterType
  <2>5. binding' \subseteq 1 .. made' /\ strong' \subseteq 1 .. made'
    BY <1>13 DEF TypeOK
  <2>6. detached' \subseteq 1 .. made'
    BY <1>13, <2>0, DetachType, UnregisterType DEF TypeOK
  <2>7. stage' \in [Handles -> {"unmade", "requesting", "leaving", "queued", "timed", "done"} \cup Answers]
    BY <1>13 DEF TypeOK, Answers
  <2>8. \A g \in Handles : stage'[g] = "unmade" <=> g > made'
    BY <1>13 DEF TypeOK, Handles, Answers
  <2>9. of' \in [Handles -> 0 .. gen']
    <3>1. of' = of \/ \E k : of' = [of EXCEPT ![k] = gen]
      BY <1>13
    <3>2. gen' \in Nat /\ gen <= gen'
      BY <1>13, <2>0
    <3> QED
      BY <3>1, <3>2, <2>0
  <2> QED
    BY <2>1, <2>2, <2>3, <2>4, <2>5, <2>6, <2>7, <2>8, <2>9 DEF TypeOK
<1>14. ASSUME NEW h \in Handles, GiveUp(h) PROVE TypeOK'
  <2> USE DEF GiveUp
  <2>0. /\ asking \in Nat /\ made \in Nat /\ gen \in Nat /\ gen <= MaxSessions
        /\ leaving \in Nat /\ logOuts \in Nat /\ logOuts <= MaxLogOuts /\ leaving <= logOuts
        /\ registered \in 0 .. made /\ binding \subseteq 1 .. made /\ of \in [Handles -> 0 .. gen]
    BY DEF TypeOK
  <2>1. /\ session' \in {"none", "waiting", "active", "inactive"} /\ gen' \in 0 .. MaxSessions
        /\ user' \in {"in", "out"} /\ reviving' \in 0 .. MaxRevivers
        /\ leaving' \in 0 .. MaxLogOuts /\ logOuts' \in 0 .. MaxLogOuts /\ leaving' <= logOuts'
    BY <1>14, <2>0 DEF TypeOK, Live
  <2>2. asking' \in 0 .. MaxHandles /\ made' \in 0 .. MaxHandles /\ asking' + made' <= MaxHandles
    BY <1>14 DEF TypeOK
  <2>3. excused' \in BOOLEAN
    BY <1>14, UnregisterType DEF TypeOK
  <2>4. registered' \in 0 .. made'
    BY <1>14, <2>0, UnregisterType
  <2>5. binding' \subseteq 1 .. made' /\ strong' \subseteq 1 .. made'
    BY <1>14 DEF TypeOK
  <2>6. detached' \subseteq 1 .. made'
    BY <1>14, <2>0, DetachType, UnregisterType DEF TypeOK
  <2>7. stage' \in [Handles -> {"unmade", "requesting", "leaving", "queued", "timed", "done"} \cup Answers]
    BY <1>14 DEF TypeOK, Answers
  <2>8. \A g \in Handles : stage'[g] = "unmade" <=> g > made'
    BY <1>14 DEF TypeOK, Handles, Answers
  <2>9. of' \in [Handles -> 0 .. gen']
    <3>1. of' = of \/ \E k : of' = [of EXCEPT ![k] = gen]
      BY <1>14
    <3>2. gen' \in Nat /\ gen <= gen'
      BY <1>14, <2>0
    <3> QED
      BY <3>1, <3>2, <2>0
  <2> QED
    BY <2>1, <2>2, <2>3, <2>4, <2>5, <2>6, <2>7, <2>8, <2>9 DEF TypeOK
<1>15. ASSUME NEW h \in Handles, GiveUpMalformed(h) PROVE TypeOK'
  <2> USE DEF GiveUpMalformed
  <2>0. /\ asking \in Nat /\ made \in Nat /\ gen \in Nat /\ gen <= MaxSessions
        /\ leaving \in Nat /\ logOuts \in Nat /\ logOuts <= MaxLogOuts /\ leaving <= logOuts
        /\ registered \in 0 .. made /\ binding \subseteq 1 .. made /\ of \in [Handles -> 0 .. gen]
    BY DEF TypeOK
  <2>1. /\ session' \in {"none", "waiting", "active", "inactive"} /\ gen' \in 0 .. MaxSessions
        /\ user' \in {"in", "out"} /\ reviving' \in 0 .. MaxRevivers
        /\ leaving' \in 0 .. MaxLogOuts /\ logOuts' \in 0 .. MaxLogOuts /\ leaving' <= logOuts'
    BY <1>15, <2>0 DEF TypeOK, Live
  <2>2. asking' \in 0 .. MaxHandles /\ made' \in 0 .. MaxHandles /\ asking' + made' <= MaxHandles
    BY <1>15 DEF TypeOK
  <2>3. excused' \in BOOLEAN
    BY <1>15, UnregisterType DEF TypeOK
  <2>4. registered' \in 0 .. made'
    BY <1>15, <2>0, UnregisterType
  <2>5. binding' \subseteq 1 .. made' /\ strong' \subseteq 1 .. made'
    BY <1>15 DEF TypeOK
  <2>6. detached' \subseteq 1 .. made'
    BY <1>15, <2>0, DetachType, UnregisterType DEF TypeOK
  <2>7. stage' \in [Handles -> {"unmade", "requesting", "leaving", "queued", "timed", "done"} \cup Answers]
    BY <1>15 DEF TypeOK, Answers
  <2>8. \A g \in Handles : stage'[g] = "unmade" <=> g > made'
    BY <1>15 DEF TypeOK, Handles, Answers
  <2>9. of' \in [Handles -> 0 .. gen']
    <3>1. of' = of \/ \E k : of' = [of EXCEPT ![k] = gen]
      BY <1>15
    <3>2. gen' \in Nat /\ gen <= gen'
      BY <1>15, <2>0
    <3> QED
      BY <3>1, <3>2, <2>0
  <2> QED
    BY <2>1, <2>2, <2>3, <2>4, <2>5, <2>6, <2>7, <2>8, <2>9 DEF TypeOK
<1>16. ASSUME NEW h \in Handles, SetTimer(h) PROVE TypeOK'
  BY <1>16 DEF SetTimer, TypeOK, Handles, Answers, Calls, Live
<1>17. ASSUME NEW h \in Handles, TooLate(h) PROVE TypeOK'
  <2> USE DEF TooLate
  <2>0. /\ asking \in Nat /\ made \in Nat /\ gen \in Nat /\ gen <= MaxSessions
        /\ leaving \in Nat /\ logOuts \in Nat /\ logOuts <= MaxLogOuts /\ leaving <= logOuts
        /\ registered \in 0 .. made /\ binding \subseteq 1 .. made /\ of \in [Handles -> 0 .. gen]
    BY DEF TypeOK
  <2>1. /\ session' \in {"none", "waiting", "active", "inactive"} /\ gen' \in 0 .. MaxSessions
        /\ user' \in {"in", "out"} /\ reviving' \in 0 .. MaxRevivers
        /\ leaving' \in 0 .. MaxLogOuts /\ logOuts' \in 0 .. MaxLogOuts /\ leaving' <= logOuts'
    BY <1>17, <2>0 DEF TypeOK, Live
  <2>2. asking' \in 0 .. MaxHandles /\ made' \in 0 .. MaxHandles /\ asking' + made' <= MaxHandles
    BY <1>17 DEF TypeOK
  <2>3. excused' \in BOOLEAN
    BY <1>17, UnregisterType DEF TypeOK
  <2>4. registered' \in 0 .. made'
    BY <1>17, <2>0, UnregisterType
  <2>5. binding' \subseteq 1 .. made' /\ strong' \subseteq 1 .. made'
    BY <1>17 DEF TypeOK
  <2>6. detached' \subseteq 1 .. made'
    BY <1>17, <2>0, DetachType, UnregisterType DEF TypeOK
  <2>7. stage' \in [Handles -> {"unmade", "requesting", "leaving", "queued", "timed", "done"} \cup Answers]
    BY <1>17 DEF TypeOK, Answers
  <2>8. \A g \in Handles : stage'[g] = "unmade" <=> g > made'
    BY <1>17 DEF TypeOK, Handles, Answers
  <2>9. of' \in [Handles -> 0 .. gen']
    <3>1. of' = of \/ \E k : of' = [of EXCEPT ![k] = gen]
      BY <1>17
    <3>2. gen' \in Nat /\ gen <= gen'
      BY <1>17, <2>0
    <3> QED
      BY <3>1, <3>2, <2>0
  <2> QED
    BY <2>1, <2>2, <2>3, <2>4, <2>5, <2>6, <2>7, <2>8, <2>9 DEF TypeOK
<1>18. ASSUME NEW h \in Handles, Fire(h) PROVE TypeOK'
  BY <1>18 DEF Fire, TypeOK, Handles, Answers, Calls, Live
<1>19. ASSUME NEW h \in Handles, NEW answer \in Answers, Answer(h, answer) PROVE TypeOK'
  BY <1>19 DEF Answer, TypeOK, Handles, Answers, Calls, Live
<1>20. CASE UNCHANGED vars
  BY <1>20 DEF vars, TypeOK, Handles, Answers, Calls, Live
<1> QED
  BY <1>1, <1>2, <1>3, <1>4, <1>5, <1>6, <1>7, <1>8, <1>9, <1>10, <1>11, <1>12, <1>13, <1>14, <1>15, <1>16, <1>17, <1>18, <1>19, <1>20, <1>21, <1>22 DEF Next, Handle, Block

\* Every reachable state is well typed.
THEOREM TypeCorrect == Spec => []TypeOK
  BY TypeInit, TypeNext, PTL DEF Spec

-----------------------------------------------------------------------------
(* One handle refreshes the tokens.                                        *)

\* OneRefresher is not inductive: a timer is set by a handle that was handling an answer, so what
\* is kept is that nothing but the registry holds on to a handle that is registered.
HeldByRegistry ==
    \A h \in Handles : h \notin binding /\ h \notin detached /\ stage[h] \in Calls \cup {"timed"}
        => h = registered

LEMMA HeldNext == TypeOK /\ HeldByRegistry /\ [Next]_vars => HeldByRegistry'
<1> SUFFICES ASSUME TypeOK, HeldByRegistry, [Next]_vars PROVE HeldByRegistry'
  OBVIOUS
<1> USE DEF world, registry
<1>t. stage \in [Handles -> {"unmade", "requesting", "leaving", "queued", "timed", "done"} \cup Answers]
  BY DEF TypeOK
<1>1. ASSUME Open PROVE HeldByRegistry'
  BY <1>t, <1>1 DEF Open, GoOnToRevive, HeldByRegistry, Alive, Answers, Calls
<1>2. ASSUME AskAgain PROVE HeldByRegistry'
  BY <1>t, <1>2 DEF AskAgain, Ask, HeldByRegistry, Alive, Answers, Calls
<1>21. ASSUME Resume PROVE HeldByRegistry'
  BY <1>t, <1>21 DEF Resume, GoOnToRevive, HeldByRegistry, Alive, Answers, Calls
<1>22. ASSUME Revive PROVE HeldByRegistry'
  BY <1>t, <1>22 DEF Revive, Ask, HeldByRegistry, Alive, Answers, Calls
<1>3. ASSUME Close PROVE HeldByRegistry'
  BY <1>t, <1>3 DEF Close, HeldByRegistry, Alive, Answers, Calls
<1>4. ASSUME Destroy PROVE HeldByRegistry'
  BY <1>t, <1>4 DEF Destroy, HeldByRegistry, Alive, Answers, Calls
<1>5. ASSUME LogOut PROVE HeldByRegistry'
  BY <1>t, <1>5 DEF LogOut, UserLogOut, HeldByRegistry, Alive, Answers, Calls
<1>6. ASSUME LogIn PROVE HeldByRegistry'
  BY <1>t, <1>6 DEF LogIn, GoOnToRevive, HeldByRegistry, Alive, Answers, Calls
<1>7. ASSUME LogOutEnds PROVE HeldByRegistry'
  BY <1>t, <1>7 DEF LogOutEnds, InvalidateAll, Detach, StopRegistered, Stopped, HeldByRegistry, Alive, Answers, Calls
<1>8. ASSUME MakeHandle PROVE HeldByRegistry'
  BY <1>t, <1>8 DEF MakeHandle, HeldByRegistry, Alive, Answers, Calls
<1>9. ASSUME NEW h \in Handles, Register(h) PROVE HeldByRegistry'
  BY <1>t, <1>9 DEF Register, Detach, StopRegistered, Stopped, HeldByRegistry, Alive, Answers, Calls
<1>10. ASSUME NEW h \in Handles, HandleToken(h) PROVE HeldByRegistry'
  BY <1>t, <1>10 DEF HandleToken, Reschedule, Unregister, Detach, TokenTaken, HeldByRegistry, Alive, Answers, Calls
<1>11. ASSUME NEW h \in Handles, Retry(h) PROVE HeldByRegistry'
  BY <1>t, <1>11 DEF Retry, Reschedule, HeldByRegistry, Alive, Answers, Calls
<1>12. ASSUME NEW h \in Handles, ReportInvalidToken(h) PROVE HeldByRegistry'
  BY <1>t, <1>12 DEF ReportInvalidToken, UserLogOut, HeldByRegistry, Alive, Answers, Calls
<1>13. ASSUME NEW h \in Handles, InvalidTokenReported(h) PROVE HeldByRegistry'
  BY <1>t, <1>13 DEF InvalidTokenReported, InvalidateAll, Detach, StopRegistered, Stopped, HeldByRegistry, Alive, Answers, Calls
<1>14. ASSUME NEW h \in Handles, GiveUp(h) PROVE HeldByRegistry'
  BY <1>t, <1>14 DEF GiveUp, Unregister, Detach, HeldByRegistry, Alive, Answers, Calls
<1>15. ASSUME NEW h \in Handles, GiveUpMalformed(h) PROVE HeldByRegistry'
  BY <1>t, <1>15 DEF GiveUpMalformed, Unregister, Detach, HeldByRegistry, Alive, Answers, Calls
<1>16. ASSUME NEW h \in Handles, SetTimer(h) PROVE HeldByRegistry'
  BY <1>t, <1>16 DEF SetTimer, HeldByRegistry, Alive, Answers, Calls
<1>17. ASSUME NEW h \in Handles, TooLate(h) PROVE HeldByRegistry'
  BY <1>t, <1>17 DEF TooLate, Unregister, Detach, HeldByRegistry, Alive, Answers, Calls
<1>18. ASSUME NEW h \in Handles, Fire(h) PROVE HeldByRegistry'
  BY <1>t, <1>18 DEF Fire, HeldByRegistry, Alive, Answers, Calls
<1>19. ASSUME NEW h \in Handles, NEW answer \in Answers, Answer(h, answer) PROVE HeldByRegistry'
  BY <1>t, <1>19 DEF Answer, HeldByRegistry, Alive, Answers, Calls
<1>20. CASE UNCHANGED vars
  BY <1>t, <1>20 DEF vars, HeldByRegistry, Alive, Answers, Calls
<1> QED
  BY <1>1, <1>2, <1>3, <1>4, <1>5, <1>6, <1>7, <1>8, <1>9, <1>10, <1>11, <1>12, <1>13, <1>14, <1>15, <1>16, <1>17, <1>18, <1>19, <1>20, <1>21, <1>22 DEF Next, Handle, Block

\* Only the registered handle has a timer running, but for those OneRefresher excuses: a handle that
\* is replaced, or invalidated, while its timer runs does not go on beside its successor.
THEOREM OneRefresherCorrect == Spec => []OneRefresher
<1>1. Init => TypeOK /\ HeldByRegistry
  BY TypeInit DEF Init, HeldByRegistry, Calls, Answers
<1>2. TypeOK /\ HeldByRegistry /\ [Next]_vars => TypeOK' /\ HeldByRegistry'
  BY TypeNext, HeldNext
<1>3. HeldByRegistry => OneRefresher
  BY DEF HeldByRegistry, OneRefresher
<1> QED
  BY <1>1, <1>2, <1>3, PTL DEF Spec

-----------------------------------------------------------------------------
(* A session that needs a token is served.                                 *)

\* A thread that revives or binds the session keeps it; a handle that is being bound belongs to the
\* session there is, and is not registered yet.
BindingInv ==
    /\ session = "none" => reviving = 0 /\ asking = 0 /\ binding = {}
    /\ \A h \in binding : of[h] = gen /\ h # registered

\* Served is not inductive: a handle outside the registry whose timer fires is lost with its
\* request. What serves the session is the registered handle or one on its way to the registry.
ServedByRegistry ==
    session \in Live /\ ~excused
        => asking > 0 \/ \E h \in Handles : (h \in binding \/ h = registered) /\ InService(h)

LEMMA BindingNext == TypeOK /\ BindingInv /\ [Next]_vars => BindingInv'
<1> SUFFICES ASSUME TypeOK, BindingInv, [Next]_vars PROVE BindingInv'
  OBVIOUS
<1> USE DEF world, registry
<1>t. /\ asking \in Nat /\ made \in Nat /\ made <= MaxHandles /\ registered \in 0 .. made
      /\ of \in [Handles -> 0 .. gen] /\ binding \subseteq 1 .. made /\ gen \in Nat
      /\ session \in {"none", "waiting", "active", "inactive"} /\ user \in {"in", "out"}
      /\ asking + made <= MaxHandles /\ reviving \in Nat
  BY DEF TypeOK
<1>1. ASSUME Open PROVE BindingInv'
  BY <1>t, <1>1 DEF Open, GoOnToRevive, BindingInv, Live, Handles
<1>2. ASSUME AskAgain PROVE BindingInv'
  BY <1>t, <1>2 DEF AskAgain, Ask, BindingInv, Live, Handles
<1>21. ASSUME Resume PROVE BindingInv'
  BY <1>t, <1>21 DEF Resume, GoOnToRevive, BindingInv, Live, Handles
<1>22. ASSUME Revive PROVE BindingInv'
  BY <1>t, <1>22 DEF Revive, Ask, BindingInv, Live, Handles
<1>3. ASSUME Close PROVE BindingInv'
  BY <1>t, <1>3 DEF Close, BindingInv, Live, Handles
<1>4. ASSUME Destroy PROVE BindingInv'
  BY <1>t, <1>4 DEF Destroy, BindingInv, Live, Handles
<1>5. ASSUME LogOut PROVE BindingInv'
  BY <1>t, <1>5 DEF LogOut, UserLogOut, BindingInv, Live, Handles
<1>6. ASSUME LogIn PROVE BindingInv'
  BY <1>t, <1>6 DEF LogIn, GoOnToRevive, BindingInv, Live, Handles
<1>7. ASSUME LogOutEnds PROVE BindingInv'
  BY <1>t, <1>7 DEF LogOutEnds, InvalidateAll, Detach, StopRegistered, Stopped, BindingInv, Live, Handles
<1>8. ASSUME MakeHandle PROVE BindingInv'
  BY <1>t, <1>8 DEF MakeHandle, BindingInv, Live, Handles
<1>9. ASSUME NEW h \in Handles, Register(h) PROVE BindingInv'
  BY <1>t, <1>9 DEF Register, Detach, StopRegistered, Stopped, BindingInv, Live, Handles
<1>10. ASSUME NEW h \in Handles, HandleToken(h) PROVE BindingInv'
  BY <1>t, <1>10 DEF HandleToken, Reschedule, Unregister, Detach, TokenTaken, BindingInv, Live, Handles
<1>11. ASSUME NEW h \in Handles, Retry(h) PROVE BindingInv'
  BY <1>t, <1>11 DEF Retry, Reschedule, BindingInv, Live, Handles
<1>12. ASSUME NEW h \in Handles, ReportInvalidToken(h) PROVE BindingInv'
  BY <1>t, <1>12 DEF ReportInvalidToken, UserLogOut, BindingInv, Live, Handles
<1>13. ASSUME NEW h \in Handles, InvalidTokenReported(h) PROVE BindingInv'
  BY <1>t, <1>13 DEF InvalidTokenReported, InvalidateAll, Detach, StopRegistered, Stopped, BindingInv, Live, Handles
<1>14. ASSUME NEW h \in Handles, GiveUp(h) PROVE BindingInv'
  BY <1>t, <1>14 DEF GiveUp, Unregister, Detach, BindingInv, Live, Handles
<1>15. ASSUME NEW h \in Handles, GiveUpMalformed(h) PROVE BindingInv'
  BY <1>t, <1>15 DEF GiveUpMalformed, Unregister, Detach, BindingInv, Live, Handles
<1>16. ASSUME NEW h \in Handles, SetTimer(h) PROVE BindingInv'
  BY <1>t, <1>16 DEF SetTimer, BindingInv, Live, Handles
<1>17. ASSUME NEW h \in Handles, TooLate(h) PROVE BindingInv'
  BY <1>t, <1>17 DEF TooLate, Unregister, Detach, BindingInv, Live, Handles
<1>18. ASSUME NEW h \in Handles, Fire(h) PROVE BindingInv'
  BY <1>t, <1>18 DEF Fire, BindingInv, Live, Handles
<1>19. ASSUME NEW h \in Handles, NEW answer \in Answers, Answer(h, answer) PROVE BindingInv'
  BY <1>t, <1>19 DEF Answer, BindingInv, Live, Handles
<1>20. CASE UNCHANGED vars
  BY <1>t, <1>20 DEF vars, BindingInv, Live, Handles
<1> QED
  BY <1>1, <1>2, <1>3, <1>4, <1>5, <1>6, <1>7, <1>8, <1>9, <1>10, <1>11, <1>12, <1>13, <1>14, <1>15, <1>16, <1>17, <1>18, <1>19, <1>20, <1>21, <1>22 DEF Next, Handle, Block

LEMMA ServedNext == TypeOK /\ BindingInv /\ ServedByRegistry /\ [Next]_vars => ServedByRegistry'
<1> SUFFICES ASSUME TypeOK, BindingInv, ServedByRegistry, [Next]_vars PROVE ServedByRegistry'
  OBVIOUS
<1> USE DEF world, registry
<1>t. /\ asking \in Nat /\ made \in Nat /\ registered \in 0 .. made
      /\ of \in [Handles -> 0 .. gen] /\ binding \subseteq 1 .. made /\ gen \in Nat
      /\ made <= MaxHandles /\ user \in {"in", "out"} /\ excused \in BOOLEAN
      /\ stage \in [Handles -> {"unmade", "requesting", "leaving", "queued", "timed", "done"} \cup Answers]
      /\ \A h \in Handles : stage[h] = "unmade" <=> h > made
      /\ asking + made <= MaxHandles
  BY DEF TypeOK
\* A step that leaves the registry, and the other handles, alone.
<1>a. ASSUME session' \in Live => session \in Live, UNCHANGED <<asking, gen, registry>>,
             excused' = FALSE => excused = FALSE,
             \A h \in Handles : stage[h] \in Calls \cup {"timed"} => stage'[h] \in Calls \cup {"timed", "requesting"},
             \A h \in Handles : stage[h] = "requesting" =>
                 stage'[h] \in Calls \cup {"requesting"} \/ (h # registered /\ h \notin binding)
      PROVE  ServedByRegistry'
  BY <1>a, <1>t DEF ServedByRegistry, InService, Alive, Calls, Answers
\* A handle that is done, and erases the registered one.
<1>b. ASSUME NEW h \in Handles, Unregister(h), stage' = [stage EXCEPT ![h] = "done"],
             session' \in Live => session \in Live, UNCHANGED <<asking, gen, binding, of>>
      PROVE  ServedByRegistry'
  BY <1>b, <1>t DEF Unregister, ServedByRegistry, InService, Alive, Calls, Answers, Handles
\* The registry is emptied: what served the session was the registered handle, which excuses it, or
\* is still on its way to the registry.
<1>c. ASSUME InvalidateAll, UNCHANGED <<session, gen, asking, binding, of>>,
             \A h \in Handles : h # registered => stage'[h] = stage[h] \/ (stage[h] \in Calls /\ stage'[h] \in Calls)
      PROVE  ServedByRegistry'
  <2> SUFFICES ASSUME session \in Live, ~excused', asking = 0
               PROVE  \E h \in Handles : h \in binding /\ InService(h)'
    BY <1>c, <1>t DEF ServedByRegistry, InService, Alive
  <2>1. ~excused /\ ~(registered # 0 /\ of[registered] = gen)
    BY <1>c DEF InvalidateAll
  <2>2. PICK h \in Handles : (h \in binding \/ h = registered) /\ InService(h)
    BY <2>1 DEF ServedByRegistry
  <2>3. h \in binding /\ h # registered
    BY <2>1, <2>2 DEF InService, BindingInv, Handles
  <2> QED
    BY <1>c, <2>2, <2>3 DEF InService, Alive, Calls, Answers
<1>1. ASSUME Open PROVE ServedByRegistry'
  BY <1>1 DEF Open, ServedByRegistry, Live
<1>2. ASSUME AskAgain PROVE ServedByRegistry'
  BY <1>t, <1>2 DEF AskAgain, Ask, ServedByRegistry
<1>21. ASSUME Resume PROVE ServedByRegistry'
  BY <1>21, <1>a DEF Resume, ServedByRegistry
<1>22. ASSUME Revive PROVE ServedByRegistry'
  <2>1. CASE session = "inactive"
    BY <1>t, <1>22, <2>1 DEF Revive, Ask, ServedByRegistry
  <2>2. CASE session # "inactive"
    BY <1>a, <1>22, <2>2 DEF Revive
  <2> QED
    BY <2>1, <2>2
<1>3. ASSUME Close PROVE ServedByRegistry'
  BY <1>3 DEF Close, ServedByRegistry, Live
<1>4. ASSUME Destroy PROVE ServedByRegistry'
  BY <1>4 DEF Destroy, ServedByRegistry, Live
<1>5. ASSUME LogOut PROVE ServedByRegistry'
  BY <1>a, <1>5 DEF LogOut, UserLogOut, Live
<1>6. ASSUME LogIn PROVE ServedByRegistry'
  BY <1>a, <1>6 DEF LogIn
<1>7. ASSUME LogOutEnds PROVE ServedByRegistry'
  <2>1. UNCHANGED <<session, gen, asking, binding, of>> /\ InvalidateAll /\ stage' = StopRegistered
    BY <1>7 DEF LogOutEnds
  <2>2. \A h \in Handles : h # registered => stage'[h] = stage[h]
    BY <2>1, <1>t DEF StopRegistered
  <2> QED
    BY <2>1, <2>2, <1>c
<1>8. ASSUME MakeHandle PROVE ServedByRegistry'
  <2>1. made' \in Handles /\ of'[made'] = gen' /\ stage'[made'] = "requesting" /\ made' \in binding'
    BY <1>t, <1>8 DEF MakeHandle, Handles
  <2> QED
    BY <2>1 DEF ServedByRegistry, InService, Alive
<1>9. ASSUME NEW h \in Handles, Register(h) PROVE ServedByRegistry'
  <2>1. /\ of'[h] = gen' /\ h = registered' /\ h # registered /\ stage'[h] = stage[h]
        /\ stage[h] = "done" => excused'
    BY <1>t, <1>9 DEF Register, BindingInv, StopRegistered
  <2>2. stage[h] # "unmade"
    BY <1>t, <1>9 DEF Register
  <2> QED
    BY <1>t, <2>1, <2>2 DEF ServedByRegistry, InService, Alive, Calls, Answers
<1>10. ASSUME NEW h \in Handles, HandleToken(h) PROVE ServedByRegistry'
  <2>1. CASE SessionAlive(h)
    BY <1>a, <1>t, <1>10, <2>1 DEF HandleToken, Reschedule, TokenTaken, Live, Calls, Answers
  <2>2. CASE ~SessionAlive(h)
    BY <1>b, <1>10, <2>2 DEF HandleToken
  <2> QED
    BY <2>1, <2>2
<1>11. ASSUME NEW h \in Handles, Retry(h) PROVE ServedByRegistry'
  BY <1>a, <1>t, <1>11 DEF Retry, Reschedule, Calls, Answers
<1>12. ASSUME NEW h \in Handles, ReportInvalidToken(h) PROVE ServedByRegistry'
  BY <1>a, <1>t, <1>12 DEF ReportInvalidToken, UserLogOut, Live, Calls, Answers
<1>13. ASSUME NEW h \in Handles, InvalidTokenReported(h) PROVE ServedByRegistry'
  <2>1. /\ UNCHANGED <<session, gen, asking, binding, of>> /\ InvalidateAll
        /\ stage[h] = "leaving" /\ stage' = [StopRegistered EXCEPT ![h] = "other"]
    BY <1>13 DEF InvalidTokenReported
  <2>2. \A g \in Handles : g # registered => stage'[g] = stage[g] \/ (stage[g] \in Calls /\ stage'[g] \in Calls)
    BY <2>1, <1>t DEF StopRegistered, Calls, Answers
  <2> QED
    BY <2>1, <2>2, <1>c
<1>14. ASSUME NEW h \in Handles, GiveUp(h) PROVE ServedByRegistry'
  BY <1>b, <1>14 DEF GiveUp, Live
<1>15. ASSUME NEW h \in Handles, GiveUpMalformed(h) PROVE ServedByRegistry'
  BY <1>b, <1>15 DEF GiveUpMalformed
<1>16. ASSUME NEW h \in Handles, SetTimer(h) PROVE ServedByRegistry'
  BY <1>a, <1>t, <1>16 DEF SetTimer, Calls, Answers
<1>17. ASSUME NEW h \in Handles, TooLate(h) PROVE ServedByRegistry'
  BY <1>b, <1>17 DEF TooLate
<1>18. ASSUME NEW h \in Handles, Fire(h) PROVE ServedByRegistry'
  BY <1>a, <1>t, <1>18 DEF Fire, Calls, Answers
<1>19. ASSUME NEW h \in Handles, NEW answer \in Answers, Answer(h, answer) PROVE ServedByRegistry'
  BY <1>a, <1>t, <1>19 DEF Answer, Alive, Calls, Answers
<1>20. CASE UNCHANGED vars
  BY <1>20 DEF vars, ServedByRegistry, InService, Alive
<1> QED
  BY <1>1, <1>2, <1>3, <1>4, <1>5, <1>6, <1>7, <1>8, <1>9, <1>10, <1>11, <1>12, <1>13, <1>14, <1>15, <1>16, <1>17, <1>18, <1>19, <1>20, <1>21, <1>22 DEF Next, Handle, Block

\* A session that waits for a token, or lives on one, always has a handle at work on it or a thread
\* about to make one, as long as the refreshing was not given up or cut off (see Served), whatever
\* order revivals, answers, timers, binds, log outs and log ins come in.
THEOREM ServedCorrect == Spec => []Served
<1> DEFINE Inv == TypeOK /\ BindingInv /\ ServedByRegistry
<1>1. Init => Inv
  BY TypeInit DEF Init, BindingInv, ServedByRegistry, Live
<1>2. Inv /\ [Next]_vars => Inv'
  BY TypeNext, BindingNext, ServedNext
<1>3. Inv => Served
  BY DEF ServedByRegistry, Served
<1> QED
  BY <1>1, <1>2, <1>3, PTL DEF Spec

=============================================================================
