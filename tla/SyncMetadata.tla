---------------------------- MODULE SyncMetadata ----------------------------
(***************************************************************************)
(* What SyncManager keeps on disk and what it does with it across crashes  *)
(* and launches: the file actions that delete a Realm after a sync error   *)
(* (SyncManager::configure, immediately_run_file_actions, run_file_action, *)
(* SyncFileManager), and the users that are to be remembered or erased     *)
(* (SyncUser's constructor, update_refresh_token, log_out, set_is_admin,   *)
(* SyncMetadataManager).                                                   *)
(*                                                                         *)
(* The process may be killed between any two steps: each transaction of    *)
(* the metadata Realm and each check or operation on a file is a step of   *)
(* its own, but for the removal of a directory or of a Realm with its      *)
(* auxiliary files, which is one step that may fail. Threads of the        *)
(* application run actions at the same time, of one Realm too.             *)
(* The content of a Realm file is the number of its creation; a recovery   *)
(* name is the number of the error it was reserved for.                    *)
(***************************************************************************)
EXTENDS Integers, FiniteSets

CONSTANTS
    Users,       \* identities with their server
    Paths,       \* Realms
    OwnerOf,     \* in whose directory each Realm is
    Runners,     \* threads that run file actions
    MaxFiles,    \* bound: how often Realms are created
    MaxErrors,   \* bound: errors that ask for a file action
    MaxCrashes   \* bound: how often the process is killed

ASSUME OwnerAssumption == OwnerOf \in [Paths -> Users]
ASSUME BoundsAssumption == MaxFiles \in Nat /\ MaxErrors \in Nat /\ MaxCrashes \in Nat

VARIABLES
    \* on disk
    file,      \* the Realm at each path, 0 for none
    copy,      \* what is under each recovery name, 0 for nothing
    whole,     \* the recovery names to which a copy was completed
    action,    \* SyncFileActionMetadata of each path, or NoAction
    row,       \* SyncUserMetadata of each user
    \* in memory
    phase,     \* how far configure has come; the application acts once it is "up"
    todo,      \* paths whose action configure still has to run
    done,      \* completed_actions
    dead,      \* dead_users
    runs,      \* the calls of run_file_action under way, with the action each has read
    user,      \* m_state of the SyncUser, or "none" when there is no object
    inside,    \* what holds the mutex of the user
    admin,     \* set_is_admin is still to be called after a log in
    \* counters and history
    files, errors, crashes,
    failed,    \* files an error was reported for
    wanted,    \* files for which a copy was asked for and not superseded
    spent,     \* paths whose recorded action has taken effect
    reopened,  \* files created while the path's action was spent, or a run of it under way
    crossed,   \* files deleted by a run whose action was no longer the recorded one, or whose
               \* copy a second run of the action wrote over
    revived,   \* users whose row was un-marked although they had logged out
    last       \* the last log in that was begun, or log out that was completed

disk    == <<file, copy, whole, action, row>>
pass    == <<phase, todo, done, dead>>
users   == <<user, inside, admin, revived, last>>
errs    == <<errors, failed, wanted>>
history == <<spent, reopened, crossed>>
vars == <<disk, pass, runs, users, errs, files, crashes, history>>

NoAction == [kind |-> "none", name |-> 0]
Names == 1 .. MaxErrors
Actions == {NoAction} \cup [kind : {"delete"}, name : {0}] \cup [kind : {"backup"}, name : Names]
Runs == [by : Runners, path : Paths, action : Actions, attached : BOOLEAN, origin : 0 .. files,
         stage : {"read", "checked", "opened", "copying", "copied", "ran"}]

TypeOK ==
    /\ file \in [Paths -> 0 .. files] /\ copy \in [Names -> 0 .. files] /\ whole \subseteq Names
    /\ action \in [Paths -> Actions]
    /\ row \in [Users -> {"absent", "blank", "live", "marked"}]
    /\ phase \in {"down", "actions", "erase", "remove", "up"}
    /\ todo \subseteq Paths /\ done \subseteq Paths /\ dead \subseteq Users 
    /\ runs \subseteq Runs /\ \A r, s \in runs : r.by = s.by => r = s
    /\ user \in [Users -> {"none", "active", "out"}]
    /\ inside \in [Users -> {"nobody", "login", "logout"}] /\ admin \subseteq Users
    /\ files \in 0 .. MaxFiles /\ errors \in 0 .. MaxErrors /\ crashes \in 0 .. MaxCrashes
    /\ failed \subseteq 1 .. files /\ wanted \subseteq Paths \X (1 .. files)
    /\ spent \subseteq Paths /\ reopened \subseteq 1 .. files /\ crossed \subseteq 1 .. files
    /\ revived \subseteq Users
    /\ last \in [Users -> {"none", "login", "logout"}]

Init ==
    /\ file = [p \in Paths |-> 0] /\ copy = [n \in Names |-> 0] /\ whole = {}
    /\ action = [p \in Paths |-> NoAction] /\ runs = {}
    /\ row = [u \in Users |-> "absent"]
    /\ phase = "down" /\ todo = {} /\ done = {} /\ dead = {}
    /\ user = [u \in Users |-> "none"] /\ inside = [u \in Users |-> "nobody"] /\ admin = {}
    /\ files = 0 /\ errors = 0 /\ crashes = 0
    /\ failed = {} /\ wanted = {} /\ spent = {} /\ reopened = {} /\ crossed = {} /\ revived = {}
    /\ last = user

-----------------------------------------------------------------------------
\* Killed and launched.

Crash ==
    /\ phase # "down" /\ crashes < MaxCrashes
    /\ crashes' = crashes + 1
    /\ phase' = "down" /\ todo' = {} /\ done' = {} /\ dead' = {}
    /\ runs' = {}
    /\ user' = [u \in Users |-> "none"] /\ inside' = [u \in Users |-> "nobody"] /\ admin' = {}
    /\ UNCHANGED <<disk, errs, files, history, revived, last>>

Pending == {p \in Paths : action[p] # NoAction}

Configure ==
    /\ phase = "down"
    /\ phase' = "actions" /\ todo' = Pending
    /\ UNCHANGED <<disk, done, dead, runs, users, errs, files, crashes, history>>

-----------------------------------------------------------------------------
\* run_file_action, for configure (one path after the other) and for the
\* application's immediatelyHandleError, which takes no lock.

\* get_file_action_metadata, or the next of all_pending_actions: what the run does is read from
\* one version of the metadata.
MayRun(p) ==
    \/ phase = "actions" /\ p \in todo /\ runs = {}
    \/ phase = "up"

ReadAction(t, p) ==
    /\ MayRun(p) /\ action[p] # NoAction /\ \A r \in runs : r.by # t
    /\ runs' = runs \cup {[by |-> t, path |-> p, action |-> action[p], attached |-> TRUE,
                            origin |-> 0, stage |-> "read"]}
    /\ UNCHANGED <<disk, pass, users, errs, files, crashes, history>>

Ends(r) == runs' = runs \ {r}
Becomes(r, next) == runs' = (runs \ {r}) \cup {next}
GoesOn(r, stage) == Becomes(r, [r EXCEPT !.stage = stage]) /\ UNCHANGED pass

Over_Anyway(r, success) ==
    /\ todo' = todo \ {r.path}
    /\ done' = IF phase = "actions" THEN done \cup {r.path} ELSE done
    /\ IF phase = "up" THEN Becomes(r, [r EXCEPT !.stage = "ran"]) ELSE Ends(r)
    /\ UNCHANGED <<phase, dead>>

\* The run is over; configure keeps the actions that succeeded for later.
Over(r, success) ==
    /\ todo' = todo \ {r.path}
    /\ done' = IF phase = "actions" /\ success THEN done \cup {r.path} ELSE done
    /\ IF phase = "up" /\ success THEN Becomes(r, [r EXCEPT !.stage = "ran"]) ELSE Ends(r)
    /\ UNCHANGED <<phase, dead>>

\* An error that File::try_remove throws, before or after the Realm file itself is gone,
\* leaves configure with m_metadata_manager set: nothing is forgotten, and no user is loaded.
Thrown(r) ==
    /\ phase' = "up" /\ todo' = {} /\ done' = {}
    /\ Ends(r)
    /\ UNCHANGED dead

\* The Realm file goes, whatever is recorded for the path by now.
Remove(r) ==
    /\ file' = [file EXCEPT ![r.path] = 0]
    /\ spent' = IF action[r.path] # NoAction THEN spent \cup {r.path} ELSE spent
    /\ crossed' = crossed \cup {f \in {file[r.path]} \ {0} : action[r.path] # r.action}

\* remove_realm
Delete(r) ==
    \/ Remove(r) /\ (Over(r, TRUE) \/ Thrown(r))
    \/ UNCHANGED <<file, spent, crossed>> /\ Thrown(r)

RunDelete(r) ==
    /\ r.stage = "read" /\ r.action.kind = "delete"
    /\ Delete(r)
    /\ UNCHANGED <<copy, whole, action, row, users, errs, files, crashes, reopened>>

\* There is a name, and nothing has it.
Usable(n) == n # 0 /\ copy[n] = 0

\* run_file_action looks whether the original is gone, and whether the name of the copy is taken.
RunBackUp(r) ==
    /\ r.stage = "read" /\ r.action.kind = "backup"
    /\ IF file[r.path] # 0 /\ Usable(r.action.name)
       THEN GoesOn(r, "checked")
       ELSE Over(r, file[r.path] = 0)
    /\ UNCHANGED <<disk, users, errs, files, crashes, history>>

GivesUp_Ignored(r) == GoesOn(r, "copied")
GivesUp(r) == Over(r, FALSE)

\* copy_realm_file looks at the name again, and opens the original.
OpenOriginal(r) ==
    /\ r.stage = "checked"
    /\ \/ /\ file[r.path] # 0 /\ Usable(r.action.name)
          /\ Becomes(r, [r EXCEPT !.stage = "opened", !.origin = file[r.path]])
          /\ UNCHANGED pass
       \/ GivesUp(r)
    /\ UNCHANGED <<disk, users, errs, files, crashes, history>>

\* It creates the copy, or truncates what is there by now; if that fails the name stays free.
CreateCopy(r) ==
    /\ r.stage = "opened"
    /\ \/ /\ copy' = [copy EXCEPT ![r.action.name] = r.origin]
          /\ whole' = whole \ {r.action.name}
          /\ crossed' = crossed \cup ({copy[r.action.name]} \ {0})
          /\ GoesOn(r, "copying")
       \/ GivesUp(r) /\ UNCHANGED <<copy, whole, crossed>>
    /\ UNCHANGED <<file, action, row, users, errs, files, crashes, spent, reopened>>

\* It writes the copy, or gives up in the middle.
Copied(r) ==
    /\ r.stage = "copying"
    /\ \/ whole' = whole \cup {r.action.name} /\ GoesOn(r, "copied")
       \/ GivesUp(r) /\ UNCHANGED whole
    /\ UNCHANGED <<file, copy, action, row, users, errs, files, crashes, history>>

DeleteOriginal(r) ==
    /\ r.stage = "copied"
    /\ Delete(r)
    /\ UNCHANGED <<copy, whole, action, row, users, errs, files, crashes, reopened>>

\* SyncFileActionMetadata::remove
Forget_Kept(p) == UNCHANGED action /\ spent' = spent \ {p}
Forget(p) ==
    /\ action' = [action EXCEPT ![p] = NoAction]
    /\ spent' = spent \ {p}

\* Runs that have read a row that is removed keep the index it had.
Detached(rs, p) == {[s EXCEPT !.attached = s.attached /\ s.path # p] : s \in rs}

\* immediately_run_file_actions removes the row that is there now; if another run removed it
\* before, any row that has its index since. When there is none at it, LogicError is thrown.
ForgetNow(r) ==
    /\ r.stage = "ran"
    /\ \/ \E p \in Pending :
             /\ r.attached => p = r.path
             /\ Forget(p)
             /\ runs' = Detached(runs \ {r}, p)
       \/ ~r.attached /\ Ends(r) /\ UNCHANGED <<action, spent>>
    /\ UNCHANGED <<file, copy, whole, row, pass, users, errs, files, crashes, reopened, crossed>>

-----------------------------------------------------------------------------
\* The rest of configure.

\* When all actions were run, the completed ones are forgotten.
ForgetOne(p) ==
    /\ phase = "actions" /\ todo = {} /\ runs = {} /\ p \in done
    /\ Forget(p)
    /\ done' = done \ {p}
    /\ UNCHANGED <<file, copy, whole, row, phase, todo, dead, runs, users, errs, files,
                   crashes, reopened, crossed>>

\* The users that are not marked, and have a token, are read; they are added at the end.
ActionsOver ==
    /\ phase = "actions" /\ todo = {} /\ done = {} /\ runs = {}
    /\ phase' = "erase"
    /\ UNCHANGED <<disk, todo, done, dead, runs, users, errs, files, crashes, history>>

\* all_users_marked_for_removal
ToErase_Flipped(u) == row[u] = "live"
ToErase(u) == row[u] = "marked"

\* remove_user_directory of a user marked for removal; an error leaves him for the next launch
EraseUser(u) ==
    /\ phase = "erase" /\ ToErase(u) /\ u \notin dead
    /\ file' = [p \in Paths |-> IF OwnerOf[p] = u THEN 0 ELSE file[p]]
    /\ dead' = dead \cup {u}
    /\ wanted' = {w \in wanted : OwnerOf[w[1]] # u}
    /\ spent' = spent \cup {p \in Pending : OwnerOf[p] = u}
    /\ UNCHANGED <<copy, whole, action, row, phase, todo, done, runs, users, errors, failed,
                   files, crashes, reopened, crossed>>

Erased ==
    /\ phase = "erase" /\ phase' = "remove"
    /\ UNCHANGED <<disk, todo, done, dead, runs, users, errs, files, crashes, history>>

\* SyncUserMetadata::remove
RemoveUser(u) ==
    /\ phase = "remove" /\ u \in dead
    /\ row' = [row EXCEPT ![u] = "absent"]
    /\ dead' = dead \ {u}
    /\ UNCHANGED <<file, copy, whole, action, phase, todo, done, runs, users, errs, files,
                   crashes, history>>

\* The users that were read are added: the first launch has none, and the constructor
\* finds each row as it is.
AddUsers ==
    /\ phase = "remove" /\ dead = {} /\ phase' = "up"
    /\ user' = [u \in Users |-> IF row[u] = "live" THEN "active" ELSE "none"]
    /\ UNCHANGED <<disk, todo, done, dead, runs, inside, admin, revived, last, errs, files,
                   crashes, history>>

-----------------------------------------------------------------------------
\* Users, under the mutex of each; the metadata is updated in transactions of its own.

Running == phase = "up"

\* get_or_make_user_metadata that creates the row, or revives it
Made_Kept(s) == IF s = "absent" THEN "blank" ELSE s
Made(s) == CASE s = "absent" -> "blank" [] s = "marked" -> "live" [] OTHER -> s

\* get_user: the constructor of a new SyncUser, or update_refresh_token
LogIn(u) ==
    /\ Running /\ inside[u] = "nobody"
    /\ inside' = [inside EXCEPT ![u] = "login"]
    /\ user' = [user EXCEPT ![u] = "active"]
    /\ row' = [row EXCEPT ![u] = Made(@)]
    /\ last' = [last EXCEPT ![u] = "login"] /\ revived' = revived \ {u}
    /\ UNCHANGED <<file, copy, whole, action, pass, runs, admin, errs, files, crashes, history>>

TokenSet(s) == IF s = "blank" THEN "live" ELSE s

\* set_user_token; the caller goes on to set_is_admin
LoggedIn(u) ==
    /\ inside[u] = "login"
    /\ inside' = [inside EXCEPT ![u] = "nobody"]
    /\ row' = [row EXCEPT ![u] = TokenSet(@)]
    /\ admin' = admin \cup {u}
    /\ UNCHANGED <<file, copy, whole, action, pass, runs, user, revived, last, errs, files,
                   crashes, history>>

SetIsAdmin(u) ==
    /\ u \in admin /\ admin' = admin \ {u}
    /\ row' = [row EXCEPT ![u] = Made(@)]
    /\ revived' = IF row[u] = "marked" THEN revived \cup {u} ELSE revived
    /\ UNCHANGED <<file, copy, whole, action, pass, runs, user, inside, last, errs, files, crashes,
                   history>>

\* mark_for_removal, if there is a row
Mark_Kept(s) == s
Mark(s) == IF s = "absent" THEN s ELSE "marked"

LogOut(u) ==
    /\ inside[u] = "nobody" /\ user[u] = "active"
    /\ inside' = [inside EXCEPT ![u] = "logout"]
    /\ user' = [user EXCEPT ![u] = "out"]
    /\ UNCHANGED <<disk, pass, runs, admin, revived, last, errs, files, crashes, history>>

LoggedOut(u) ==
    /\ inside[u] = "logout"
    /\ inside' = [inside EXCEPT ![u] = "nobody"]
    /\ row' = [row EXCEPT ![u] = Mark(@)]
    /\ last' = [last EXCEPT ![u] = "logout"]
    /\ UNCHANGED <<file, copy, whole, action, pass, runs, user, admin, revived, errs, files,
                   crashes, history>>

-----------------------------------------------------------------------------
\* Realms.

OpenRealm(p) ==
    /\ Running /\ user[OwnerOf[p]] = "active" /\ file[p] = 0 /\ files < MaxFiles
    /\ files' = files + 1
    /\ file' = [file EXCEPT ![p] = files']
    /\ reopened' = IF p \in spent \/ \E r \in runs : r.path = p
                   THEN reopened \cup {files'} ELSE reopened
    /\ UNCHANGED <<copy, whole, action, row, pass, runs, users, errs, crashes, spent, crossed>>

\* get_recovery_file_path: a name nothing has, for a back up only
NameFor(kind, n) == IF kind = "backup" THEN n ELSE 0

\* update_error_and_mark_file_for_deletion: the row of the path is written over.
MarkFile(p, kind) ==
    /\ Running /\ user[OwnerOf[p]] = "active" /\ file[p] # 0 /\ errors < MaxErrors
    /\ errors' = errors + 1
    /\ action' = [action EXCEPT ![p] = [kind |-> kind, name |-> NameFor(kind, errors')]]
    /\ failed' = failed \cup {file[p]}
    /\ wanted' = IF kind = "backup" THEN wanted \cup {<<p, file[p]>>}
                                    ELSE wanted \ {<<p, file[p]>>}
    /\ spent' = spent \ {p}
    /\ UNCHANGED <<file, copy, whole, row, pass, runs, users, files, crashes, reopened, crossed>>

RunAction(r) ==
    \/ RunDelete(r) \/ RunBackUp(r) \/ OpenOriginal(r) \/ CreateCopy(r) \/ Copied(r)
    \/ DeleteOriginal(r) \/ ForgetNow(r)
UserStep(u) == LogIn(u) \/ LoggedIn(u) \/ SetIsAdmin(u) \/ LogOut(u) \/ LoggedOut(u)

Next ==
    \/ Crash \/ Configure \/ ActionsOver \/ Erased \/ AddUsers
    \/ \E r \in runs : RunAction(r)
    \/ \E p \in Paths : (\E t \in Runners : ReadAction(t, p)) \/ ForgetOne(p) \/ OpenRealm(p)
    \/ \E p \in Paths, kind \in {"delete", "backup"} : MarkFile(p, kind)
    \/ \E u \in Users : EraseUser(u) \/ RemoveUser(u) \/ UserStep(u)

Spec == Init /\ [][Next]_vars

-----------------------------------------------------------------------------
Saved(f) == \E n \in whole : copy[n] = f

\* A Realm of which a copy was asked for (an error that backs up before it deletes) is never
\* lost: wherever the process is killed, and however often the action runs, the file is still
\* there or a complete copy of it is. Only its user's removal, or a later error on the same
\* file that asks for no copy, gives it up. Excused, since immediately_run_file_actions takes no
\* lock: a run that carries out an action although another was recorded since it read it, or that
\* writes over the copy of another run of the same action.
NeverLost == \A w \in wanted : file[w[1]] = w[2] \/ Saved(w[2]) \/ w[2] \in crossed

\* Outside the removal of users, only files an error was reported for are deleted. Excused: a
\* Realm opened anew after its action took effect and before the action was forgotten, or while
\* another run of the action was under way, which the next launch or that run deletes.
DeletesOnlyFailed ==
    [][\A p \in Paths :
         file[p] # 0 /\ file'[p] = 0 /\ phase # "erase" => file[p] \in failed \cup reopened]_vars

\* An action is forgotten only when the failed file it is about is gone (or superseded by a
\* Realm opened anew): one that could not be carried out is tried again. Excused: a row removed
\* at the index of one that another run had removed before.
ForgottenOnlyWhenDone ==
    [][\A p \in Paths :
         action[p] # NoAction /\ action'[p] = NoAction
            => \/ file[p] \notin failed \ reopened
               \/ \E r \in runs \ runs' : ~r.attached]_vars

\* Outside log_out and update_refresh_token an active user is remembered on disk, so that the
\* next launch restores him instead of erasing his Realms.
ActiveRemembered == \A u \in Users : user[u] = "active" /\ inside[u] = "nobody" => row[u] = "live"

\* Once log_out has returned the user is not remembered, at this launch or at any later one.
\* Excused: set_is_admin, called after a log in and outside the mutex, un-marks the row of a
\* user who logged out meanwhile.
LoggedOutForgotten ==
    \A u \in Users : last[u] = "logout" /\ inside[u] = "nobody" /\ u \notin revived
        => row[u] \in {"marked", "absent"}

\* The launch erases the directory of a user only if the last thing he did, in this process or
\* one that was killed, was to log out.
ErasedOnlyLoggedOut ==
    [][\A p \in Paths : file[p] # 0 /\ file'[p] = 0 /\ phase = "erase"
         => last[OwnerOf[p]] = "logout"]_vars
=============================================================================
