----------------------------- MODULE ConfigFile -----------------------------
(***************************************************************************)
(* cosmos.config.json and its copy in memory (src/src/utils/utils.go), and *)
(* everybody who reads the file, changes a section and writes the whole    *)
(* file back: the handlers that take ConfigLock, those that do not, the    *)
(* settings page, and the apply loop of the op-log, which installs the     *)
(* replicated sections (src/src/configapi, src/src/constellation).         *)
(*                                                                         *)
(* A section is the set of edits it contains, so that an edit somebody     *)
(* overwrites is seen to be missing.  The node is attached to its log: it  *)
(* publishes, and waits for its own entry to come back.                    *)
(***************************************************************************)
EXTENDS Integers, Sequences, FiniteSets

CONSTANTS
    Writer,     \* requests that change the configuration, each made once
    Kind,       \* what each is: "local", "loose", "domain", "settings"
    SectionOf,  \* the section it edits; "settings" edits a replicated one or none
    Loop,       \* the apply loop
    Nobody,     \* ConfigLock is free
    Torn,       \* a file that has been truncated and not written yet
    MaxCrashes  \* bound: crashes of the process

Section    == {"routes", "openid", "tokens"}
Replicated == {"openid", "tokens"}

ASSUME ConfigAssumption ==
    /\ Kind \in [Writer -> {"local", "loose", "domain", "settings"}]
    /\ SectionOf \in [Writer -> Section]
    /\ \A w \in Writer : /\ Kind[w] \in {"local", "loose"} => SectionOf[w] \notin Replicated
                         /\ Kind[w] = "domain" => SectionOf[w] \in Replicated
                         /\ Kind[w] = "settings" => SectionOf[w] # "tokens"
    /\ Loop \notin Writer /\ Nobody \notin Writer \cup {Loop}
    /\ Torn \notin [Section -> SUBSET Writer] /\ MaxCrashes \in Nat

Process == Writer \cup {Loop}
Content == [Section -> SUBSET Writer]

VARIABLES
    file,       \* cosmos.config.json
    memory,     \* mainConfig
    lock,       \* ConfigLock
    pc, draft,  \* where each process is, and the configuration it holds
    log,        \* the domain entries of the op-log: [section, state, by]
    applied,    \* last_applied_seq
    running,    \* the process is up: it does not come up on a torn file
    crashes

store == <<file, memory>>
oplog == <<log, applied>>
fate  == <<running, crashes>>
vars  == <<store, lock, pc, draft, oplog, fate>>

Blank == [s \in Section |-> {}]

Init ==
    /\ file = Blank /\ memory = Blank
    /\ lock = Nobody
    /\ pc = [p \in Process |-> "new"] /\ draft = [p \in Process |-> Blank]
    /\ log = <<>> /\ applied = 0
    /\ running = TRUE /\ crashes = 0

Go(p, l)      == pc' = [pc EXCEPT ![p] = l]
Holds(p, c)   == draft' = [draft EXCEPT ![p] = c]
Edited(w, c)  == [c EXCEPT ![SectionOf[w]] = @ \cup {w}]
Readable      == running /\ file # Torn      \* ConfigLockInternal is free

-----------------------------------------------------------------------------
(* Reading.                                                                 *)

(* Mutant: a handler that forgets the lock. *)
TakesNoLock(w) == FALSE

TakesLock(w) == Kind[w] # "loose"

(* A route, an alert, a job: read under ConfigLock, which is kept; a backup *)
(* or a certificate: read without it.                                       *)
BeginEdit(w) ==
    /\ Kind[w] \in {"local", "loose"} /\ pc[w] = "new" /\ Readable
    /\ TakesLock(w) => lock = Nobody
    /\ lock' = IF TakesLock(w) THEN w ELSE lock
    /\ Holds(w, Edited(w, file))
    /\ Go(w, "saving")
    /\ UNCHANGED <<store, oplog, fate>>

(* Mutant: the lock is kept until the handler returns. *)
KeptFor(w) == w

LockWhilePublishing(w) == Nobody

(* A token, an OpenID client, a DNS entry: the section is read under the    *)
(* lock, and the lock released before the new state is published.           *)
BeginDomainEdit(w) ==
    /\ Kind[w] = "domain" /\ pc[w] = "new" /\ Readable /\ lock = Nobody
    /\ lock' = LockWhilePublishing(w)
    /\ Holds(w, Edited(w, file))
    /\ Go(w, "publishing")
    /\ UNCHANGED <<store, oplog, fate>>

(* The settings page asks for the configuration ... *)
Fetch(w) ==
    /\ Kind[w] = "settings" /\ pc[w] = "new" /\ Readable
    /\ Holds(w, file)
    /\ Go(w, "fetched")
    /\ UNCHANGED <<store, lock, oplog, fate>>

(* ... and sends it back, changed.  What it never sees comes from the file; *)
(* a replicated section that is not as in the file is published first.      *)
SendSettings(w) ==
    /\ pc[w] = "fetched" /\ Readable
    /\ LET request == [Edited(w, draft[w]) EXCEPT !["tokens"] = file["tokens"]]
       IN  /\ Holds(w, request)
           /\ Go(w, IF request["openid"] # file["openid"] THEN "publishing" ELSE "published")
    /\ UNCHANGED <<store, lock, oplog, fate>>

-----------------------------------------------------------------------------
(* Replicated sections.                                                     *)

(* The section a process publishes. *)
Published(w) == IF Kind[w] = "settings" THEN "openid" ELSE SectionOf[w]

PublishDomainOp(w) ==
    /\ pc[w] = "publishing" /\ running
    /\ log' = Append(log, [section |-> Published(w), state |-> draft[w][Published(w)], by |-> w])
    /\ Go(w, "waiting")
    /\ UNCHANGED <<store, lock, draft, applied, fate>>

(* The apply loop takes the next entry and ConfigLock. *)
ApplyDomain ==
    /\ pc[Loop] = "new" /\ applied < Len(log) /\ Readable /\ lock = Nobody
    /\ lock' = Loop
    /\ LET entry == log[applied + 1]
       IN  Holds(Loop, [file EXCEPT ![entry.section] = entry.state])
    /\ Go(Loop, "saving")
    /\ UNCHANGED <<store, oplog, fate>>

(* The waiter, if it is still there, is told. *)
Told(w) == IF pc[w] # "waiting" THEN pc[w]
           ELSE IF Kind[w] = "settings" THEN "published" ELSE "done"

(* The position follows the file. *)
CommitDomain ==
    /\ pc[Loop] = "loaded" /\ running
    /\ applied' = applied + 1
    /\ LET w == log[applied + 1].by
       IN  pc' = [pc EXCEPT ![Loop] = "new", ![w] = Told(w)]
    /\ UNCHANGED <<store, lock, draft, log, fate>>

(* Mutant: the request is written as it was sent. *)
AsSent(request, current) == request

(* restoreReplicatedDomains: the sections it knows come from the file.      *)
(* API tokens are not among them.                                           *)
RestoreReplicatedDomains(request, current) == [request EXCEPT !["openid"] = current["openid"]]

LockSettings(w) ==
    /\ pc[w] = "published" /\ Readable /\ lock = Nobody
    /\ lock' = w
    /\ Holds(w, RestoreReplicatedDomains(draft[w], file))
    /\ Go(w, "saving")
    /\ UNCHANGED <<store, oplog, fate>>

-----------------------------------------------------------------------------
(* Writing: SetBaseMainConfig.                                              *)

(* SaveConfigTofile truncates the file ... *)
Truncate(p) ==
    /\ pc[p] = "saving" /\ Readable
    /\ file' = Torn
    /\ Go(p, "encoding")
    /\ UNCHANGED <<memory, lock, draft, oplog, fate>>

(* Mutant: the lock goes with the file, before the copy in memory follows. *)
ReleasedWithFile(p) == IF lock = p THEN Nobody ELSE lock

LockAfterEncode(p) == lock

(* ... and writes it. *)
Encode(p) ==
    /\ pc[p] = "encoding" /\ running
    /\ file' = draft[p]
    /\ lock' = LockAfterEncode(p)
    /\ Go(p, "saved")
    /\ UNCHANGED <<memory, draft, oplog, fate>>

(* LoadBaseMainConfig, and the lock is released by whoever has it. *)
Load(p) ==
    /\ pc[p] = "saved" /\ running
    /\ memory' = draft[p]
    /\ lock' = IF lock = p THEN Nobody ELSE lock
    /\ Holds(p, Blank)
    /\ Go(p, IF p = Loop THEN "loaded" ELSE "done")
    /\ UNCHANGED <<file, oplog, fate>>

-----------------------------------------------------------------------------
(* Mutant: the start takes whatever the file is. *)
AsItIs == file

(* ReadConfigFromFile at the start: it ends the process on a torn file. *)
ReadAtStart == IF file = Torn THEN memory ELSE file

(* A crash ends every request; the next start reads the file, or fails.     *)
Crash ==
    /\ running /\ crashes < MaxCrashes
    /\ crashes' = crashes + 1
    /\ running' = (file # Torn)
    /\ memory' = ReadAtStart
    /\ lock' = Nobody
    /\ pc' = [p \in Process |-> IF p = Loop THEN "new"
                                ELSE IF pc[p] \in {"new", "done"} THEN pc[p] ELSE "lost"]
    /\ draft' = [p \in Process |-> Blank]
    /\ UNCHANGED <<file, oplog>>

Writing(w) ==
    \/ BeginEdit(w) \/ BeginDomainEdit(w) \/ SendSettings(w) \/ PublishDomainOp(w) \/ LockSettings(w)
    \/ Truncate(w) \/ Encode(w) \/ Load(w)

Applying == ApplyDomain \/ CommitDomain \/ Truncate(Loop) \/ Encode(Loop) \/ Load(Loop)

Next == Applying \/ Crash \/ \E w \in Writer : Fetch(w) \/ Writing(w)

Spec == Init /\ [][Next]_vars

(* A handler that has begun goes on, and so does the loop.  Weak fairness   *)
(* does for ConfigLock: each request takes it once.                         *)
Fairness == WF_vars(Applying) /\ \A w \in Writer : WF_vars(Writing(w))

FairSpec == Spec /\ Fairness
=============================================================================
