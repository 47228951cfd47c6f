-------------------------- MODULE ConfigFileProofs --------------------------
(***************************************************************************)
(* The file follows the log, and the copy in memory follows the file, for  *)
(* any number of requests of every kind and of crashes.                    *)
(***************************************************************************)
EXTENDS ConfigFileProps, TLAPS

InHand == {"saving", "encoding", "saved"}

(* The loop is on an entry of the log, no request is at its last step, and  *)
(* only those that edit a replicated section publish.                       *)
Shape ==
    /\ pc[Loop] \in {"new", "saving", "encoding", "saved", "loaded"}
    /\ pc[Loop] # "new" => applied < Len(log)
    /\ \A w \in Writer : /\ pc[w] # "loaded"
                         /\ pc[w] = "fetched" => Kind[w] = "settings"
                         /\ pc[w] = "publishing" => Kind[w] \in {"domain", "settings"}

(* The replicated section is the one of the position that was committed or  *)
(* of the entry the loop is installing; of the latter once it is installed. *)
Known(c) ==
    \/ pc[Loop] # "loaded" /\ Leaves(log, "openid", applied, c["openid"])
    \/ applied < Len(log) /\ Leaves(log, "openid", applied + 1, c["openid"])

LockHeld   == \A p \in Process : pc[p] \in InHand => lock = p
FileKnown  == file # Torn => Known(file)
DraftKnown == \A w \in Writer : pc[w] \in {"saving", "encoding"} => Known(draft[w])
LoopAhead  == pc[Loop] \in InHand => Leaves(log, "openid", applied + 1, draft[Loop]["openid"])
SavedIs    == \A p \in Process : pc[p] = "saved" => file = draft[p]
MemoryIs   == (Quiet /\ file # Torn) => memory = file

Guarded == LockHeld /\ FileKnown /\ DraftKnown /\ LoopAhead /\ SavedIs /\ MemoryIs

(* What makes the two properties inductive: ConfigLock is held from the     *)
(* read to the copy in memory, and what a holder is about to write was read *)
(* under it.                                                                *)
IInv == TypeOK /\ Shape /\ (Disciplined => Guarded)

-----------------------------------------------------------------------------
(* A publication changes no state the log has left so far. *)
LEMMA LeavesAppend ==
    ASSUME NEW R, NEW l \in Seq(R), NEW e \in R, NEW s, NEW i \in 0..Len(l), NEW x, Leaves(l, s, i, x)
    PROVE  Leaves(Append(l, e), s, i, x)
<1>1. \A j \in 1..i : Append(l, e)[j] = l[j]
  OBVIOUS
<1>2. CASE x = {} /\ \A j \in 1..i : l[j].section # s
  BY <1>1, <1>2 DEF Leaves
<1>3. ASSUME NEW j \in 1..i, l[j].section = s, l[j].state = x, \A k \in j + 1..i : l[k].section # s
      PROVE  Leaves(Append(l, e), s, i, x)
  <2>1. \A k \in j + 1..i : k \in 1..i
    OBVIOUS
  <2> QED
    BY <1>1, <1>3, <2>1 DEF Leaves
<1> QED
  BY <1>2, <1>3 DEF Leaves

(* The next entry leaves its state in its section, and the others alone. *)
LEMMA LeavesNext ==
    ASSUME NEW l, NEW i \in Nat, NEW s, NEW x,
           \/ l[i + 1].section = s /\ l[i + 1].state = x
           \/ l[i + 1].section # s /\ Leaves(l, s, i, x)
    PROVE  Leaves(l, s, i + 1, x)
<1>1. CASE l[i + 1].section = s /\ l[i + 1].state = x
  <2>1. i + 1 \in 1..i + 1 /\ \A k \in i + 1 + 1..i + 1 : l[k].section # s
    OBVIOUS
  <2> QED
    BY <1>1, <2>1 DEF Leaves
<1>2. CASE l[i + 1].section # s /\ x = {} /\ \A j \in 1..i : l[j].section # s
  <2>1. \A j \in 1..i + 1 : j \in 1..i \/ j = i + 1
    OBVIOUS
  <2> QED
    BY <1>2, <2>1 DEF Leaves
<1>3. ASSUME l[i + 1].section # s, NEW j \in 1..i, l[j].section = s, l[j].state = x,
             \A k \in j + 1..i : l[k].section # s
      PROVE  Leaves(l, s, i + 1, x)
  <2>1. j \in 1..i + 1 /\ \A k \in j + 1..i + 1 : k \in j + 1..i \/ k = i + 1
    OBVIOUS
  <2> QED
    BY <1>3, <2>1 DEF Leaves
<1> QED
  BY <1>1, <1>2, <1>3 DEF Leaves

(* An entry of the log is an entry. *)
LEMMA Element ==
    ASSUME NEW S, NEW l \in Seq(S), NEW i \in 1..Len(l)
    PROVE  l[i] \in S
  OBVIOUS

-----------------------------------------------------------------------------
(* The initial state: an empty log, and a file nobody has edited. *)
LEMMA ConfigInit == Init => IInv
<1> SUFFICES ASSUME Init PROVE IInv
  OBVIOUS
<1>1. TypeOK
  BY ConfigAssumption DEF Init, TypeOK, StoreOK, ProgramOK, LogOK, Stage, Blank, Content, Process
<1>2. Shape
  BY ConfigAssumption DEF Init, Shape, Process
<1>3. Leaves(log, "openid", applied, file["openid"])
  BY DEF Init, Leaves, Blank, Section
<1>4. Guarded
  BY ConfigAssumption, <1>3
     DEF Init, Guarded, LockHeld, FileKnown, DraftKnown, LoopAhead, SavedIs, MemoryIs, Known,
         Process, InHand
<1> QED
  BY <1>1, <1>2, <1>4 DEF IInv

(* A request that skips the lock has begun for good. *)
LEMMA DisciplinedBefore ==
    ASSUME IInv, Next, Disciplined'
    PROVE  Disciplined
<1> SUFFICES ASSUME NEW w \in Writer, Kind[w] = "loose", pc[w] # "new"
             PROVE  FALSE
  BY DEF Disciplined
<1>1. pc'[w] = "new"
  BY DEF Disciplined
<1>2. w \in Process /\ pc \in [Process -> Stage]
  BY DEF IInv, TypeOK, ProgramOK, Process
<1> USE ConfigAssumption DEF Process, Go
<1>3. CASE \E p \in Process : Truncate(p) \/ Encode(p) \/ Load(p)
  BY <1>1, <1>2, <1>3 DEF Truncate, Encode, Load
<1>4. CASE ApplyDomain
  BY <1>1, <1>2, <1>4 DEF ApplyDomain
<1>5. CASE CommitDomain
  BY <1>1, <1>2, <1>5 DEF CommitDomain, Told
<1>6. CASE Crash
  BY <1>1, <1>2, <1>6 DEF Crash
<1>7. CASE \E v \in Writer : \/ BeginEdit(v) \/ BeginDomainEdit(v) \/ Fetch(v) \/ SendSettings(v)
                             \/ PublishDomainOp(v) \/ LockSettings(v)
  BY <1>1, <1>2, <1>7 DEF BeginEdit, BeginDomainEdit, Fetch, SendSettings, PublishDomainOp, LockSettings
<1> QED
  BY <1>3, <1>4, <1>5, <1>6, <1>7 DEF Next, Applying, Writing

(* A request that takes the lock, or that only reads. *)
LEMMA ReadStep ==
    ASSUME IInv, Next, NEW w \in Writer,
           BeginEdit(w) \/ BeginDomainEdit(w) \/ Fetch(w) \/ SendSettings(w) \/ LockSettings(w)
    PROVE  IInv'
<1> USE ConfigAssumption DEF Process
<1> DEFINE new == draft'[w]
<1>1. /\ file \in Content /\ UNCHANGED <<file, memory, log, applied, running, crashes>>
      /\ w \in Process /\ w # Loop
  BY DEF IInv, TypeOK, StoreOK, Readable, BeginEdit, BeginDomainEdit, Fetch, SendSettings, LockSettings,
         store, oplog, fate
<1>2. \A c \in Content : /\ Edited(w, c) \in Content
                         /\ Kind[w] \in {"local", "loose"} => Edited(w, c)["openid"] = c["openid"]
  BY DEF Edited, Content, Section, Replicated
<1>3. ProgramOK'
  <2>1. \A c, f \in Content : /\ [Edited(w, c) EXCEPT !["tokens"] = f["tokens"]] \in Content
                              /\ RestoreReplicatedDomains(c, f) \in Content
    BY <1>2 DEF Content, RestoreReplicatedDomains, Section
  <2>2. draft[w] \in Content
    BY <1>1 DEF IInv, TypeOK, ProgramOK
  <2>3. \E c \in Content : Holds(w, c)
    BY <1>1, <1>2, <2>1, <2>2 DEF BeginEdit, BeginDomainEdit, Fetch, SendSettings, LockSettings
  <2>4. draft' \in [Process -> Content]
    BY <1>1, <2>3 DEF IInv, TypeOK, ProgramOK, Holds
  <2>5. pc' \in [Process -> Stage]
    BY <1>1 DEF IInv, TypeOK, ProgramOK, Stage, Go, BeginEdit, BeginDomainEdit, Fetch, SendSettings, LockSettings
  <2>6. lock' \in Process \cup {Nobody}
    BY <1>1 DEF IInv, TypeOK, ProgramOK, LockWhilePublishing, BeginEdit, BeginDomainEdit, Fetch, SendSettings,
      LockSettings
  <2> QED
    BY <2>4, <2>5, <2>6 DEF ProgramOK
<1>4. TypeOK'
  BY <1>1, <1>3 DEF IInv, TypeOK, StoreOK, LogOK
<1>5. \A p \in Process \ {w} : pc'[p] = pc[p] /\ draft'[p] = draft[p]
  BY <1>1 DEF IInv, TypeOK, ProgramOK, Go, Holds, BeginEdit, BeginDomainEdit, Fetch, SendSettings, LockSettings
<1>6. /\ pc'[w] \notin {"encoding", "saved", "loaded"}
      /\ pc'[w] = "saving" => BeginEdit(w) \/ LockSettings(w)
      /\ pc[w] \notin {"encoding", "saved"}
  BY <1>1 DEF IInv, TypeOK, ProgramOK, Go, BeginEdit, BeginDomainEdit, Fetch, SendSettings, LockSettings
<1>7. Shape'
  <2>1. /\ pc'[w] = "fetched" => Kind[w] = "settings"
        /\ pc'[w] = "publishing" => Kind[w] \in {"domain", "settings"}
    <3>1. pc \in [Process -> Stage]
      BY DEF IInv, TypeOK, ProgramOK
    <3>2. CASE BeginEdit(w) \/ BeginDomainEdit(w) \/ LockSettings(w)
      BY <1>1, <3>1, <3>2 DEF Go, BeginEdit, BeginDomainEdit, LockSettings
    <3>3. CASE Fetch(w)
      BY <1>1, <3>1, <3>3 DEF Go, Fetch
    <3>4. CASE SendSettings(w)
      <4>1. Kind[w] = "settings"
        BY <3>4 DEF SendSettings, IInv, Shape
      <4>2. pc'[w] # "fetched"
        BY <1>1, <3>1, <3>4 DEF Go, SendSettings
      <4> QED
        BY <4>1, <4>2
    <3> QED
      BY <3>2, <3>3, <3>4
  <2> QED
    BY <1>1, <1>5, <1>6, <2>1 DEF IInv, Shape
<1>8. ASSUME Disciplined'
      PROVE  Guarded'
  <2>1. Guarded
    BY <1>8, DisciplinedBefore DEF IInv
  <2>2. \A c : Known(c)' <=> Known(c)
    BY <1>1, <1>5 DEF Known
  <2>3. Quiet' <=> Quiet
    BY <1>5, <1>6 DEF Quiet
  <2>4. BeginEdit(w) => TakesLock(w)
    BY <1>1, <1>8, <1>6 DEF BeginEdit, TakesLock, Disciplined, IInv, TypeOK, ProgramOK, Go
  <2>5. pc'[w] = "saving" => lock = Nobody /\ lock' = w
    BY <1>6, <2>4 DEF BeginEdit, LockSettings
  <2>6. lock' = lock \/ lock = Nobody
    BY <2>4 DEF BeginEdit, BeginDomainEdit, Fetch, SendSettings, LockSettings
  <2>7. LockHeld'
    BY <1>5, <1>6, <2>1, <2>5, <2>6 DEF Guarded, LockHeld, InHand
  <2>8. pc'[w] = "saving" => draft'[w]["openid"] = file["openid"]
    <3>1. draft[w] \in Content
      BY <1>1 DEF IInv, TypeOK, ProgramOK
    <3>2. CASE BeginEdit(w)
      BY <1>1, <1>2, <3>2 DEF BeginEdit, Holds, IInv, TypeOK, ProgramOK
    <3>3. CASE LockSettings(w)
      BY <1>1, <3>1, <3>3 DEF LockSettings, Holds, RestoreReplicatedDomains, Content, Section, IInv, TypeOK, ProgramOK
    <3> QED
      BY <1>6, <3>2, <3>3
  <2>9. FileKnown' /\ DraftKnown'
    <3>1. file # Torn
      BY <1>1 DEF Content
    <3>2. Known(file)
      BY <2>1, <3>1 DEF Guarded, FileKnown
    <3>3. pc'[w] = "saving" => Known(draft'[w])
      BY <2>8, <3>2 DEF Known
    <3>4. \A v \in Writer : pc'[v] \in {"saving", "encoding"} => Known(draft'[v])
      BY <1>5, <1>6, <2>1, <3>3 DEF Guarded, DraftKnown
    <3> QED
      BY <1>1, <1>5, <3>2, <3>4 DEF FileKnown, DraftKnown, Known
  <2>10. LoopAhead' /\ SavedIs' /\ MemoryIs'
    BY <1>1, <1>5, <1>6, <2>1, <2>3 DEF Guarded, LoopAhead, SavedIs, MemoryIs, InHand
  <2> QED
    BY <2>7, <2>9, <2>10 DEF Guarded
<1> QED
  BY <1>4, <1>7, <1>8 DEF IInv

(* A publication: the log grows behind what the file is at. *)
LEMMA PublishStep ==
    ASSUME IInv, Next, NEW w \in Writer, PublishDomainOp(w)
    PROVE  IInv'
<1> USE ConfigAssumption DEF Process
<1> DEFINE R == [section : Replicated, state : SUBSET Writer, by : Writer]
           e == [section |-> Published(w), state |-> draft[w][Published(w)], by |-> w]
<1>1. /\ UNCHANGED <<file, memory, lock, draft, applied, running, crashes>>
      /\ log' = Append(log, e) /\ w \in Process /\ w # Loop
      /\ pc[w] = "publishing" /\ pc' = [pc EXCEPT ![w] = "waiting"]
  BY DEF PublishDomainOp, Go, store, fate
<1>2. log \in Seq(R) /\ applied \in 0..Len(log) /\ pc \in [Process -> Stage]
  BY DEF IInv, TypeOK, LogOK, ProgramOK
<1>3. e \in R
  <2>1. Kind[w] \in {"domain", "settings"}
    BY <1>1 DEF IInv, Shape
  <2>3. draft[w] \in Content
    BY <1>1 DEF IInv, TypeOK, ProgramOK
  <2>2. Published(w) \in Replicated
    BY <1>1, <2>1 DEF Published, Replicated
  <2> QED
    BY <1>1, <2>2, <2>3 DEF Content, Section, Replicated
<1>4. log' \in Seq(R) /\ Len(log') = Len(log) + 1
  BY <1>1, <1>2, <1>3
<1>5. TypeOK'
  BY <1>1, <1>2, <1>4 DEF IInv, TypeOK, StoreOK, ProgramOK, LogOK, Stage
<1>6. \A p \in Process : pc'[p] = IF p = w THEN "waiting" ELSE pc[p]
  BY <1>1, <1>2
<1>7. Shape'
  BY <1>1, <1>2, <1>4, <1>6 DEF IInv, Shape
<1>8. ASSUME Disciplined'
      PROVE  Guarded'
  <2>1. Guarded
    BY <1>8, DisciplinedBefore DEF IInv
  <2>2. \A i \in 0..Len(log) : \A x : Leaves(log, "openid", i, x) => Leaves(log', "openid", i, x)
    BY <1>1, <1>2, <1>3, LeavesAppend
  <2>3. ASSUME NEW c, Known(c)
        PROVE  Known(c)'
    <3>1. pc'[Loop] = pc[Loop] /\ applied' = applied /\ applied \in 0..Len(log)
      BY <1>1, <1>2, <1>6
    <3>2. CASE pc[Loop] # "loaded" /\ Leaves(log, "openid", applied, c["openid"])
      BY <2>2, <3>1, <3>2 DEF Known
    <3>3. CASE applied < Len(log) /\ Leaves(log, "openid", applied + 1, c["openid"])
      <4>1. applied + 1 \in 0..Len(log) /\ applied < Len(log')
        BY <1>2, <1>4, <3>3
      <4> QED
        BY <2>2, <3>1, <3>3, <4>1 DEF Known
    <3> QED
      BY <2>3, <3>2, <3>3 DEF Known
  <2>4. LoopAhead'
    BY <1>1, <1>2, <1>6, <2>1, <2>2 DEF IInv, Shape, Guarded, LoopAhead, InHand
  <2>5. FileKnown'
    BY <1>1, <2>1, <2>3 DEF Guarded, FileKnown, Known
  <2>6. DraftKnown'
    BY <1>1, <1>6, <2>1, <2>3 DEF Guarded, DraftKnown, Known
  <2>7. LockHeld' /\ SavedIs'
    BY <1>1, <1>6, <2>1 DEF Guarded, LockHeld, SavedIs, InHand
  <2>8. MemoryIs'
    BY <1>1, <1>6, <2>1 DEF Guarded, MemoryIs, Quiet
  <2> QED
    BY <2>4, <2>5, <2>6, <2>7, <2>8 DEF Guarded
<1> QED
  BY <1>5, <1>7, <1>8 DEF IInv

(* The loop takes an entry: what it writes is what the log says up to it. *)
LEMMA ApplyStep ==
    ASSUME IInv, Next, ApplyDomain
    PROVE  IInv'
<1> USE ConfigAssumption DEF Process
<1> DEFINE entry == log[applied + 1]
           R == [section : Replicated, state : SUBSET Writer, by : Writer]
<1>1. /\ UNCHANGED <<file, memory, log, applied, running, crashes>> /\ lock = Nobody /\ lock' = Loop
      /\ file \in Content /\ pc[Loop] = "new" /\ applied < Len(log)
      /\ pc' = [pc EXCEPT ![Loop] = "saving"]
      /\ draft' = [draft EXCEPT ![Loop] = [file EXCEPT ![entry.section] = entry.state]]
  BY DEF ApplyDomain, Go, Holds, Readable, store, oplog, fate, IInv, TypeOK, StoreOK
<1>2. log \in Seq(R) /\ applied \in 0..Len(log) /\ pc \in [Process -> Stage] /\ draft \in [Process -> Content]
  BY DEF IInv, TypeOK, LogOK, ProgramOK
<1>3. entry \in R
  <2>1. applied + 1 \in 1..Len(log)
    BY <1>1, <1>2
  <2>2. log \in Seq(R)
    BY <1>2
  <2> HIDE DEF R
  <2>3. \A i \in 1..Len(log) : log[i] \in R
    BY <2>2, Element
  <2> QED
    BY <2>1, <2>3
<1>4. [file EXCEPT ![entry.section] = entry.state] \in Content
  BY <1>1, <1>3 DEF Content, Section, Replicated
<1>5. TypeOK'
  BY <1>1, <1>2, <1>4 DEF IInv, TypeOK, StoreOK, ProgramOK, LogOK, Stage
<1>6. \A p \in Process : /\ pc'[p] = IF p = Loop THEN "saving" ELSE pc[p]
                         /\ p # Loop => draft'[p] = draft[p]
  BY <1>1, <1>2
<1>7. Shape'
  BY <1>1, <1>6 DEF IInv, Shape
<1>8. ASSUME Disciplined'
      PROVE  Guarded'
  <2>1. Guarded
    BY <1>8, DisciplinedBefore DEF IInv
  <2>2. file # Torn
    BY <1>1 DEF Content
  <2>3. Leaves(log, "openid", applied + 1, draft'[Loop]["openid"])
    <3>1. draft'[Loop]["openid"] = IF entry.section = "openid" THEN entry.state ELSE file["openid"]
      BY <1>1, <1>2, <1>3 DEF Content, Section, Replicated
    <3>2. CASE entry.section = "openid"
      <4>1. log[applied + 1].section = "openid" /\ log[applied + 1].state = draft'[Loop]["openid"]
        BY <3>1, <3>2
      <4>2. applied \in Nat
        BY <1>2
      <4> QED
        BY <4>1, <4>2, LeavesNext
    <3>3. CASE entry.section # "openid" /\ Leaves(log, "openid", applied, file["openid"])
      BY <1>2, <3>1, <3>3, LeavesNext
    <3> QED
      BY <2>1, <2>2, <3>1, <3>2, <3>3 DEF Guarded, FileKnown, Known
  <2>4. \A c : Known(c)' <=> Known(c)
    BY <1>1, <1>6 DEF Known
  <2>5. FileKnown'
    BY <1>1, <1>6, <2>1 DEF Guarded, FileKnown, Known
  <2>6. DraftKnown'
    BY <1>1, <1>6, <2>1 DEF Guarded, DraftKnown, Known
  <2>7. LoopAhead'
    BY <1>1, <2>3 DEF LoopAhead
  <2>8. LockHeld'
    BY <1>1, <1>6, <2>1 DEF Guarded, LockHeld, InHand
  <2>9. SavedIs' /\ MemoryIs'
    BY <1>1, <1>6, <2>1 DEF Guarded, SavedIs, MemoryIs, Quiet
  <2> QED
    BY <2>5, <2>6, <2>7, <2>8, <2>9 DEF Guarded
<1> QED
  BY <1>5, <1>7, <1>8 DEF IInv

(* The position follows: nobody holds a state from before the entry. *)
LEMMA CommitStep ==
    ASSUME IInv, Next, CommitDomain
    PROVE  IInv'
<1> USE ConfigAssumption DEF Process
<1> DEFINE R == [section : Replicated, state : SUBSET Writer, by : Writer]
           by == log[applied + 1].by
<1>1. /\ UNCHANGED <<file, memory, lock, draft, log, running, crashes>>
      /\ applied' = applied + 1 /\ pc[Loop] = "loaded"
  BY DEF CommitDomain, store, fate
<1>2. log \in Seq(R) /\ applied \in 0..Len(log) /\ pc \in [Process -> Stage] /\ applied < Len(log)
  BY <1>1 DEF IInv, TypeOK, LogOK, ProgramOK, Shape
<1>3. by \in Writer
  <2>1. applied + 1 \in 1..Len(log)
    BY <1>2
  <2>2. \A i \in 1..Len(log) : log[i] \in R
    BY <1>2, Element
  <2> QED
    BY <2>1, <2>2
<1>4. /\ pc' \in [Process -> Stage] /\ pc'[Loop] = "new"
      /\ \A w \in Writer : pc'[w] = pc[w] \/ (pc[w] = "waiting" /\ pc'[w] \in {"published", "done"})
  <2>1. pc' = [pc EXCEPT ![Loop] = "new", ![by] = Told(by)]
    BY DEF CommitDomain
  <2>2. by # Loop /\ by \in Process /\ Loop \in Process
    BY <1>3
  <2>3. \A p \in Process : pc'[p] = IF p = by
                                    THEN IF pc[by] # "waiting" THEN pc[by]
                                         ELSE IF Kind[by] = "settings" THEN "published" ELSE "done"
                                    ELSE IF p = Loop THEN "new" ELSE pc[p]
    BY <1>2, <2>1, <2>2 DEF Told
  <2>4. \A p \in Process : pc'[p] \in Stage
    BY <1>2, <2>3 DEF Stage
  <2>5. pc' \in [Process -> Stage]
    BY <1>2, <2>1, <2>4
  <2>6. ASSUME NEW w \in Writer
        PROVE  pc'[w] = pc[w] \/ (pc[w] = "waiting" /\ pc'[w] \in {"published", "done"})
    <3>1. w \in Process /\ w # Loop
      OBVIOUS
    <3>2. CASE w # by \/ pc[by] # "waiting"
      BY <2>3, <3>1, <3>2
    <3>3. CASE w = by /\ pc[by] = "waiting"
      <4>1. pc'[w] = IF Kind[by] = "settings" THEN "published" ELSE "done"
        BY <2>3, <3>1, <3>3
      <4> QED
        BY <3>3, <4>1
    <3> QED
      BY <3>2, <3>3
  <2>7. pc'[Loop] = "new"
    BY <2>2, <2>3
  <2> QED
    BY <2>5, <2>6, <2>7
<1>5. TypeOK'
  BY <1>1, <1>2, <1>4 DEF IInv, TypeOK, StoreOK, ProgramOK, LogOK
<1>6. Shape'
  BY <1>1, <1>2, <1>4 DEF IInv, Shape
<1>7. ASSUME Disciplined'
      PROVE  Guarded'
  <2>1. Guarded
    BY <1>7, DisciplinedBefore DEF IInv
  <2>2. \A c : Known(c) => Leaves(log, "openid", applied + 1, c["openid"])
    BY <1>1 DEF Known
  <2>3. FileKnown'
    BY <1>1, <1>4, <2>1, <2>2 DEF Guarded, FileKnown, Known
  <2>4. DraftKnown'
    BY <1>1, <1>4, <2>1, <2>2 DEF Guarded, DraftKnown, Known
  <2>5. LoopAhead'
    BY <1>4 DEF LoopAhead, InHand
  <2>6. \A p \in Process : pc'[p] \in InHand => pc'[p] = pc[p]
    BY <1>4 DEF InHand
  <2>7. LockHeld' /\ SavedIs'
    BY <1>1, <2>1, <2>6 DEF Guarded, LockHeld, SavedIs, InHand
  <2>8. Quiet' => Quiet
    BY <1>1, <1>4 DEF Quiet
  <2>9. MemoryIs'
    BY <1>1, <2>1, <2>8 DEF Guarded, MemoryIs
  <2> QED
    BY <2>3, <2>4, <2>5, <2>7, <2>9 DEF Guarded
<1> QED
  BY <1>5, <1>6, <1>7 DEF IInv

(* The file is truncated, written and read back by whoever holds the lock. *)
LEMMA WriteStep ==
    ASSUME IInv, Next, NEW p \in Process, Truncate(p) \/ Encode(p) \/ Load(p)
    PROVE  IInv'
<1>1. /\ pc \in [Process -> Stage] /\ draft \in [Process -> Content]
      /\ file \in Content \cup {Torn} /\ memory \in Content
  BY DEF IInv, TypeOK, ProgramOK, StoreOK
<1>2. UNCHANGED <<log, applied, running, crashes>>
  BY DEF Truncate, Encode, Load, oplog, fate
<1>3. Torn \notin Content /\ Blank \in Content /\ Loop \in Process
  BY ConfigAssumption DEF Content, Blank, Process
<1>4. CASE Truncate(p)
  <2>1. /\ file' = Torn /\ UNCHANGED <<memory, lock, draft>>
        /\ pc[p] = "saving" /\ pc' = [pc EXCEPT ![p] = "encoding"]
    BY <1>4 DEF Truncate, Go
  <2>2. \A q \in Process : pc'[q] = IF q = p THEN "encoding" ELSE pc[q]
    BY <1>1, <2>1
  <2>3. TypeOK'
    BY <1>1, <1>2, <2>1 DEF IInv, TypeOK, StoreOK, ProgramOK, LogOK, Stage
  <2>4. Shape'
    BY <1>2, <1>3, <2>1, <2>2 DEF IInv, Shape, Process
  <2>5. ASSUME Disciplined'
        PROVE  Guarded'
    <3>1. Guarded
      BY <2>5, DisciplinedBefore DEF IInv
    <3>2. LockHeld' /\ SavedIs'
      <4>1. \A q \in Process : pc[q] = "saved" => q = p
        BY <2>1, <3>1 DEF Guarded, LockHeld, InHand
      <4> QED
        BY <2>1, <2>2, <3>1, <4>1 DEF Guarded, LockHeld, SavedIs, InHand
    <3>3. \A c : Known(c) => Known(c)'
      BY <1>2, <1>3, <2>1, <2>2 DEF Known
    <3>4. DraftKnown'
      BY <1>2, <2>1, <2>2, <3>1, <3>3 DEF Guarded, DraftKnown, Known, Process
    <3>5. FileKnown' /\ MemoryIs'
      BY <2>1 DEF FileKnown, MemoryIs
    <3>6. LoopAhead'
      BY <1>2, <1>3, <2>1, <2>2, <3>1 DEF Guarded, LoopAhead, InHand
    <3> QED
      BY <3>1, <3>2, <3>4, <3>5, <3>6 DEF Guarded
  <2> QED
    BY <2>3, <2>4, <2>5 DEF IInv
<1>5. CASE Encode(p)
  <2>1. /\ file' = draft[p] /\ UNCHANGED <<memory, lock, draft>>
        /\ pc[p] = "encoding" /\ pc' = [pc EXCEPT ![p] = "saved"]
    BY <1>5 DEF Encode, LockAfterEncode, Go
  <2>2. \A q \in Process : pc'[q] = IF q = p THEN "saved" ELSE pc[q]
    BY <1>1, <2>1
  <2>3. TypeOK'
    BY <1>1, <1>2, <2>1 DEF IInv, TypeOK, StoreOK, ProgramOK, LogOK, Stage
  <2>4. Shape'
    BY <1>2, <1>3, <2>1, <2>2 DEF IInv, Shape, Process
  <2>5. ASSUME Disciplined'
        PROVE  Guarded'
    <3>1. Guarded
      BY <2>5, DisciplinedBefore DEF IInv
    <3>2. \A q \in Process : pc[q] \in InHand => q = p
      BY <2>1, <3>1 DEF Guarded, LockHeld, InHand
    <3>3. LockHeld' /\ SavedIs'
      BY <2>1, <2>2, <3>1, <3>2 DEF Guarded, LockHeld, SavedIs, InHand
    <3>4. \A c : Known(c)' <=> Known(c)
      BY <1>2, <1>3, <2>1, <2>2 DEF Known
    <3>5. Known(draft[p])
      <4>1. CASE p = Loop
        BY <2>1, <3>1, <4>1 DEF Guarded, LoopAhead, InHand, Known, IInv, Shape
      <4>2. CASE p \in Writer
        BY <2>1, <3>1, <4>2 DEF Guarded, DraftKnown
      <4> QED
        BY <4>1, <4>2 DEF Process
    <3>6. FileKnown'
      BY <1>2, <1>3, <2>1, <2>2, <3>5 DEF FileKnown, Known
    <3>7. DraftKnown'
      BY <1>2, <1>3, <2>1, <2>2, <3>1 DEF Guarded, DraftKnown, Known, Process
    <3>8. LoopAhead'
      BY <1>2, <1>3, <2>1, <2>2, <3>1 DEF Guarded, LoopAhead, InHand
    <3>9. MemoryIs'
      BY <2>2 DEF MemoryIs, Quiet
    <3> QED
      BY <3>3, <3>6, <3>7, <3>8, <3>9 DEF Guarded
  <2> QED
    BY <2>3, <2>4, <2>5 DEF IInv
<1>6. CASE Load(p)
  <2> DEFINE l == IF p = Loop THEN "loaded" ELSE "done"
  <2>1. /\ memory' = draft[p] /\ UNCHANGED file /\ pc[p] = "saved"
        /\ lock' = IF lock = p THEN Nobody ELSE lock
        /\ pc' = [pc EXCEPT ![p] = l] /\ draft' = [draft EXCEPT ![p] = Blank]
    BY <1>6 DEF Load, Go, Holds
  <2>2. \A q \in Process : /\ pc'[q] = IF q = p THEN l ELSE pc[q]
                           /\ q # p => draft'[q] = draft[q]
    BY <1>1, <2>1
  <2>3. TypeOK'
    BY <1>1, <1>2, <1>3, <2>1 DEF IInv, TypeOK, StoreOK, ProgramOK, LogOK, Stage
  <2>4. Shape'
    BY ConfigAssumption, <1>2, <1>3, <2>1, <2>2 DEF IInv, Shape, Process
  <2>5. ASSUME Disciplined'
        PROVE  Guarded'
    <3>1. Guarded
      BY <2>5, DisciplinedBefore DEF IInv
    <3>2. \A q \in Process : pc[q] \in InHand => q = p
      BY <2>1, <3>1 DEF Guarded, LockHeld, InHand
    <3>3. \A q \in Process : pc'[q] \notin InHand
      BY <2>2, <3>2 DEF InHand
    <3>4. LockHeld' /\ SavedIs' /\ LoopAhead' /\ DraftKnown'
      BY <1>3, <3>3 DEF LockHeld, SavedIs, LoopAhead, DraftKnown, InHand, Process
    <3>5. file = draft[p]
      BY <2>1, <3>1 DEF Guarded, SavedIs
    <3>6. FileKnown'
      <4>1. CASE p = Loop
        <5>1. Leaves(log, "openid", applied + 1, file["openid"]) /\ applied < Len(log)
          BY <2>1, <3>1, <3>5, <4>1 DEF Guarded, LoopAhead, InHand, IInv, Shape
        <5> QED
          BY <1>2, <2>1, <5>1 DEF FileKnown, Known
      <4>2. CASE p # Loop
        BY <1>2, <1>3, <2>1, <2>2, <3>1, <4>2 DEF Guarded, FileKnown, Known
      <4> QED
        BY <4>1, <4>2
    <3>7. MemoryIs'
      BY <2>1, <3>5 DEF MemoryIs
    <3> QED
      BY <3>4, <3>6, <3>7 DEF Guarded
  <2> QED
    BY <2>3, <2>4, <2>5 DEF IInv
<1> QED
  BY <1>4, <1>5, <1>6

(* A crash leaves nobody in the middle of anything but the file. *)
LEMMA CrashStep ==
    ASSUME IInv, Next, Crash
    PROVE  IInv'
<1> USE ConfigAssumption DEF Process
<1>1. /\ UNCHANGED <<file, log, applied>>
      /\ lock' = Nobody /\ crashes' = crashes + 1 /\ running' \in BOOLEAN
      /\ memory' = ReadAtStart /\ draft' = [p \in Process |-> Blank]
      /\ \A w \in Writer : pc'[w] \in {"new", "done", "lost"}
      /\ pc'[Loop] = "new"
  BY DEF Crash, oplog
<1>2. pc' \in [Process -> Stage]
  BY DEF Crash, Stage, IInv, TypeOK, ProgramOK
<1>3. TypeOK'
  BY <1>1, <1>2 DEF IInv, TypeOK, StoreOK, ProgramOK, LogOK, ReadAtStart, Content, Blank
<1>4. Shape'
  BY <1>1 DEF Shape
<1>5. ASSUME Disciplined'
      PROVE  Guarded'
  <2>1. Guarded
    BY <1>5, DisciplinedBefore DEF IInv
  <2>2. FileKnown'
    BY <1>1, <2>1 DEF Guarded, FileKnown, Known
  <2>3. LockHeld' /\ DraftKnown' /\ LoopAhead' /\ SavedIs'
    BY <1>1 DEF LockHeld, DraftKnown, LoopAhead, SavedIs, InHand
  <2>4. MemoryIs'
    BY <1>1 DEF MemoryIs, ReadAtStart
  <2> QED
    BY <2>2, <2>3, <2>4 DEF Guarded
<1> QED
  BY <1>3, <1>4, <1>5 DEF IInv

-----------------------------------------------------------------------------
(* Every step keeps the invariant. *)
LEMMA ConfigStep == IInv /\ [Next]_vars => IInv'
<1> SUFFICES ASSUME IInv, [Next]_vars PROVE IInv'
  OBVIOUS
<1>1. CASE UNCHANGED vars
  BY <1>1 DEF vars, store, oplog, fate, IInv, TypeOK, StoreOK, ProgramOK, LogOK, Shape, Disciplined,
              Guarded, LockHeld, FileKnown, DraftKnown, LoopAhead, SavedIs, MemoryIs, Known, Quiet
<1>2. CASE Next
  <2>1. CASE Applying
    BY <1>2, <2>1, ApplyStep, CommitStep, WriteStep DEF Applying, Process
  <2>2. CASE Crash
    BY <1>2, <2>2, CrashStep
  <2>3. ASSUME NEW w \in Writer, Fetch(w) \/ Writing(w)
        PROVE  IInv'
    BY <1>2, <2>3, ReadStep, PublishStep, WriteStep DEF Writing, Process
  <2> QED
    BY <1>2, <2>1, <2>2, <2>3 DEF Next
<1> QED
  BY <1>1, <1>2

(* The invariant holds throughout. *)
THEOREM ConfigInvariant == Spec => []IInv
<1> QED
  BY ConfigInit, ConfigStep, PTL DEF Spec

(* Among those who take ConfigLock nobody takes the OpenID section back     *)
(* behind the committed position (set.go:100-118), for every number of       *)
(* requests, publications and crashes.                                      *)
THEOREM NothingRolledBack == Spec => []RestoredNotBehind
<1>1. IInv => RestoredNotBehind
  BY DEF IInv, RestoredNotBehind, Guarded, FileKnown, Known, Follows
<1> QED
  BY <1>1, ConfigInvariant, PTL

(* GetMainConfig returns what the file says whenever no write is half done  *)
(* (utils.go, SetBaseMainConfig).                                           *)
THEOREM MemoryIsTheFile == Spec => []MemoryFollowsFile
<1>1. IInv => MemoryFollowsFile
  BY DEF IInv, MemoryFollowsFile, Guarded, MemoryIs
<1> QED
  BY <1>1, ConfigInvariant, PTL

(* The shape of the state, for every number of requests and crashes. *)
THEOREM ConfigTypes == Spec => []TypeOK
<1>1. IInv => TypeOK
  BY DEF IInv
<1> QED
  BY <1>1, ConfigInvariant, PTL

-----------------------------------------------------------------------------
(* Local edits.  What was answered is in the file, and in whatever a holder *)
(* of ConfigLock is about to write over it.                                 *)

NoSettings == \A w \in Writer : Kind[w] = "settings" => pc[w] = "new"

(* Only the settings page is at its own stages. *)
Sent ==
    \A w \in Writer : /\ pc[w] = "published" => Kind[w] = "settings"
                      /\ pc[w] = "waiting" => Kind[w] \in {"domain", "settings"}

DoneIn(c) == \A w \in Writer : (Kind[w] = "local" /\ pc[w] = "done") => w \in c[SectionOf[w]]

Kept ==
    /\ file # Torn => DoneIn(file)
    /\ \A p \in Process : pc[p] \in {"saving", "encoding"} => DoneIn(draft[p])
    /\ \A w \in Writer : (Kind[w] = "local" /\ pc[w] \in InHand) => w \in draft[w][SectionOf[w]]

EditInv == IInv /\ Sent /\ ((Disciplined /\ NoSettings) => Kept)

(* A request of the settings page has begun for good. *)
LEMMA NoSettingsBefore ==
    ASSUME IInv, Next, NoSettings'
    PROVE  NoSettings
<1> SUFFICES ASSUME NEW w \in Writer, Kind[w] = "settings", pc[w] # "new"
             PROVE  FALSE
  BY DEF NoSettings
<1>1. pc'[w] = "new"
  BY DEF NoSettings
<1>2. w \in Process /\ pc \in [Process -> Stage]
  BY DEF IInv, TypeOK, ProgramOK, Process
<1> USE ConfigAssumption DEF Process, Go
<1>3. CASE \E p \in Process : Truncate(p) \/ Encode(p) \/ Load(p)
  BY <1>1, <1>2, <1>3 DEF Truncate, Encode, Load
<1>4. CASE ApplyDomain
  BY <1>1, <1>2, <1>4 DEF ApplyDomain
<1>5. CASE CommitDomain
  BY <1>1, <1>2, <1>5 DEF CommitDomain, Told
<1>6. CASE Crash
  BY <1>1, <1>2, <1>6 DEF Crash
<1>7. CASE \E v \in Writer : \/ BeginEdit(v) \/ BeginDomainEdit(v) \/ Fetch(v) \/ SendSettings(v)
                             \/ PublishDomainOp(v) \/ LockSettings(v)
  BY <1>1, <1>2, <1>7 DEF BeginEdit, BeginDomainEdit, Fetch, SendSettings, PublishDomainOp, LockSettings
<1> QED
  BY <1>3, <1>4, <1>5, <1>6, <1>7 DEF Next, Applying, Writing

(* A request that takes the lock, that only reads, or that publishes. *)
LEMMA RequestKeeps ==
    ASSUME EditInv, Next, NEW w \in Writer,
           \/ BeginEdit(w) \/ BeginDomainEdit(w) \/ Fetch(w) \/ SendSettings(w) \/ LockSettings(w)
           \/ PublishDomainOp(w)
    PROVE  Sent' /\ ((Disciplined /\ NoSettings)' => Kept')
<1> USE ConfigAssumption DEF Process
<1>1. /\ file' = file /\ w \in Process /\ w # Loop
      /\ pc \in [Process -> Stage] /\ draft \in [Process -> Content] /\ file \in Content \cup {Torn}
  BY DEF EditInv, IInv, TypeOK, ProgramOK, StoreOK, BeginEdit, BeginDomainEdit, Fetch, SendSettings,
         LockSettings, PublishDomainOp, store
<1>2. \A p \in Process \ {w} : pc'[p] = pc[p] /\ draft'[p] = draft[p]
  BY <1>1 DEF Go, Holds, BeginEdit, BeginDomainEdit, Fetch, SendSettings, LockSettings, PublishDomainOp
<1>3. /\ pc'[w] = "published" => SendSettings(w)
      /\ pc'[w] = "waiting" => PublishDomainOp(w)
      /\ pc'[w] \notin {"encoding", "saved", "done"}
      /\ pc'[w] = "saving" => BeginEdit(w) \/ LockSettings(w)
      /\ pc[w] \notin {"saving", "encoding", "saved", "done"}
  BY <1>1 DEF Go, BeginEdit, BeginDomainEdit, Fetch, SendSettings, LockSettings, PublishDomainOp
<1>4. Sent'
  <2>1. SendSettings(w) => Kind[w] = "settings"
    BY DEF SendSettings, EditInv, IInv, Shape
  <2>2. PublishDomainOp(w) => Kind[w] \in {"domain", "settings"}
    BY DEF PublishDomainOp, EditInv, IInv, Shape
  <2> QED
    BY <1>1, <1>2, <1>3, <2>1, <2>2 DEF EditInv, Sent
<1>5. ASSUME Disciplined', NoSettings'
      PROVE  Kept'
  <2>1. Kept
    BY <1>5, DisciplinedBefore, NoSettingsBefore DEF EditInv
  <2>2. ~LockSettings(w)
    BY <1>5, NoSettingsBefore DEF LockSettings, EditInv, Sent, NoSettings
  <2>3. \A c : DoneIn(c)' <=> DoneIn(c)
    BY <1>1, <1>2, <1>3 DEF DoneIn
  <2>4. ASSUME pc'[w] = "saving"
        PROVE  draft'[w] = Edited(w, file) /\ file \in Content /\ file # Torn
    BY <1>1, <1>3, <2>2, <2>4 DEF BeginEdit, Holds, Readable, Content
  <2>5. ASSUME NEW c \in Content, DoneIn(c)
        PROVE  DoneIn(Edited(w, c)) /\ w \in Edited(w, c)[SectionOf[w]]
    BY <2>5 DEF DoneIn, Edited, Content
  <2>6. ASSUME NEW p \in Process, pc'[p] \in {"saving", "encoding"}
        PROVE  DoneIn(draft[p])'
    <3>1. DoneIn(draft'[p])
      BY <1>2, <1>3, <2>1, <2>4, <2>5, <2>6 DEF Kept
    <3> QED
      BY <1>1, <1>2, <1>3, <3>1 DEF DoneIn
  <2>7. ASSUME NEW v \in Writer, Kind[v] = "local", pc'[v] \in InHand
        PROVE  v \in draft'[v][SectionOf[v]]
    BY <1>1, <1>2, <1>3, <2>1, <2>4, <2>5, <2>7 DEF Kept, InHand
  <2>8. file' # Torn => DoneIn(file)'
    BY <1>1, <1>2, <1>3, <2>1 DEF Kept, DoneIn
  <2> QED
    BY <1>1, <2>6, <2>7, <2>8 DEF Kept
<1> QED
  BY <1>4, <1>5

(* The loop changes replicated sections, and answers no local edit. *)
LEMMA LoopKeeps ==
    ASSUME EditInv, Next, ApplyDomain \/ CommitDomain
    PROVE  Sent' /\ ((Disciplined /\ NoSettings)' => Kept')
<1> USE ConfigAssumption DEF Process
<1> DEFINE R == [section : Replicated, state : SUBSET Writer, by : Writer]
           entry == log[applied + 1]
<1>1. /\ file' = file /\ pc \in [Process -> Stage] /\ draft \in [Process -> Content]
      /\ file \in Content \cup {Torn} /\ log \in Seq(R) /\ applied \in 0..Len(log)
  BY DEF EditInv, IInv, TypeOK, ProgramOK, StoreOK, LogOK, ApplyDomain, CommitDomain, store
<1>2. applied < Len(log)
  BY DEF ApplyDomain, CommitDomain, EditInv, IInv, Shape
<1>3. entry \in R
  <2>1. applied + 1 \in 1..Len(log)
    BY <1>1, <1>2
  <2>2. log \in Seq(R)
    BY <1>1
  <2> HIDE DEF R
  <2>3. \A i \in 1..Len(log) : log[i] \in R
    BY <2>2, Element
  <2> QED
    BY <2>1, <2>3
<1>4. CASE ApplyDomain
  <2>1. /\ \A p \in Process : pc'[p] = (IF p = Loop THEN "saving" ELSE pc[p])
        /\ \A p \in Process : p # Loop => draft'[p] = draft[p]
        /\ draft'[Loop] = [file EXCEPT ![entry.section] = entry.state]
        /\ file \in Content /\ file # Torn
    BY <1>1, <1>4 DEF ApplyDomain, Go, Holds, Readable, Content
  <2>2. Sent'
    BY <2>1 DEF EditInv, Sent
  <2>3. ASSUME Disciplined', NoSettings'
        PROVE  Kept'
    <3>1. Kept
      BY <2>3, DisciplinedBefore, NoSettingsBefore DEF EditInv
    <3>2. DoneIn(draft'[Loop])
      BY <1>3, <2>1, <3>1 DEF Kept, DoneIn, Content, Section, Replicated
    <3>3. ASSUME NEW p \in Process, pc'[p] \in {"saving", "encoding"}
          PROVE  DoneIn(draft[p])'
      BY <2>1, <3>1, <3>2, <3>3 DEF Kept, DoneIn
    <3> QED
      BY <1>1, <2>1, <3>1, <3>3 DEF Kept, DoneIn, InHand
  <2> QED
    BY <2>2, <2>3
<1>5. CASE CommitDomain
  <2>1. /\ draft' = draft /\ entry.by \in Writer
        /\ \A p \in Process : pc'[p] = IF p = entry.by THEN Told(p) ELSE IF p = Loop THEN "new" ELSE pc[p]
    <3>1. pc' = [pc EXCEPT ![Loop] = "new", ![entry.by] = Told(entry.by)] /\ draft' = draft
      BY <1>5 DEF CommitDomain
    <3>2. entry.by \in Writer /\ entry.by # Loop
      BY <1>3
    <3> HIDE DEF entry
    <3> QED
      BY <1>1, <3>1, <3>2
  <2>2. \A w \in Writer : \/ pc'[w] = pc[w]
                          \/ /\ pc[w] = "waiting"
                             /\ pc'[w] = IF Kind[w] = "settings" THEN "published" ELSE "done"
    <3> HIDE DEF entry
    <3> QED
      BY <2>1 DEF Told
  <2>3. Sent'
    BY <2>2 DEF EditInv, Sent
  <2>4. ASSUME Disciplined', NoSettings'
        PROVE  Kept'
    <3>1. Kept
      BY <2>4, DisciplinedBefore, NoSettingsBefore DEF EditInv
    <3>2. \A w \in Writer : Kind[w] = "local" => pc'[w] = pc[w]
      BY <2>2 DEF EditInv, Sent
    <3>3. \A p \in Process : pc'[p] \in InHand => pc'[p] = pc[p]
      <4>1. pc'[Loop] = "new"
        <5> HIDE DEF entry
        <5> QED
          BY <2>1
      <4> QED
        BY <2>2, <4>1 DEF InHand
    <3> QED
      BY <1>1, <2>1, <3>1, <3>2, <3>3 DEF Kept, DoneIn, InHand
  <2> QED
    BY <2>3, <2>4
<1> QED
  BY <1>4, <1>5

(* Whoever writes holds the lock, and writes what it read under it. *)
LEMMA WriteKeeps ==
    ASSUME EditInv, Next, NEW p \in Process, Truncate(p) \/ Encode(p) \/ Load(p)
    PROVE  Sent' /\ ((Disciplined /\ NoSettings)' => Kept')
<1> USE ConfigAssumption DEF Process
<1>1. pc \in [Process -> Stage] /\ draft \in [Process -> Content]
  BY DEF EditInv, IInv, TypeOK, ProgramOK
<1>2. /\ \A q \in Process \ {p} : pc'[q] = pc[q] /\ draft'[q] = draft[q]
      /\ pc'[p] = CASE Truncate(p) -> "encoding" [] Encode(p) -> "saved"
                    [] Load(p) -> IF p = Loop THEN "loaded" ELSE "done"
      /\ ~Load(p) => draft' = draft
  BY <1>1 DEF Truncate, Encode, Load, Go, Holds
<1>3. pc'[p] \notin {"published", "waiting", "saving"}
  BY <1>2
<1>4. Sent'
  BY <1>2, <1>3 DEF EditInv, Sent
<1>5. ASSUME Disciplined', NoSettings'
      PROVE  Kept'
  <2>1. Kept /\ Guarded
    BY <1>5, DisciplinedBefore, NoSettingsBefore DEF EditInv, IInv
  <2>2. p \in Process /\ pc[p] \in InHand /\ \A q \in Process : pc[q] \in InHand => q = p
    BY <2>1 DEF Guarded, LockHeld, InHand, Truncate, Encode, Load
  <2>3. CASE Truncate(p) \/ Encode(p)
    <3>1. \A c : DoneIn(c)' <=> DoneIn(c)
      <4>1. pc'[p] # "done" /\ pc[p] # "done"
        BY <1>1, <2>3 DEF Truncate, Encode, Go
      <4>2. \A w \in Writer : pc'[w] = "done" <=> pc[w] = "done"
        BY <1>2, <4>1
      <4> QED
        BY <4>2 DEF DoneIn
    <3>2. draft' = draft /\ (file' = Torn \/ (file' = draft[p] /\ pc[p] = "encoding"))
      BY <2>3 DEF Truncate, Encode
    <3>3. file' # Torn => DoneIn(file)'
      BY <2>1, <3>1, <3>2 DEF Kept, DoneIn
    <3>4. \A q \in Process : pc'[q] \in {"saving", "encoding"} => DoneIn(draft[q])'
      <4>1. \A q \in Process : pc'[q] \in {"saving", "encoding"} => pc[q] \in {"saving", "encoding"}
        BY <1>2, <2>3 DEF Truncate, Encode
      <4> QED
        BY <2>1, <3>1, <3>2, <4>1 DEF Kept, DoneIn
    <3>5. \A w \in Writer : pc'[w] \in InHand => pc[w] \in InHand
      BY <1>2, <2>2
    <3> QED
      BY <2>1, <3>2, <3>3, <3>4, <3>5 DEF Kept
  <2>4. CASE Load(p)
    <3>1. file = draft[p] /\ file' = file /\ pc[p] = "saved" /\ pc'[p] \notin InHand
      BY <1>2, <2>1, <2>4 DEF Guarded, SavedIs, Load, Truncate, Encode, InHand
    <3>2. \A q \in Process : pc'[q] \notin InHand
      BY <1>2, <2>2, <3>1 DEF InHand
    <3>3. file' # Torn => DoneIn(file)'
      <4>1. ASSUME NEW w \in Writer, Kind[w] = "local", pc'[w] = "done", file # Torn
            PROVE  w \in file[SectionOf[w]]
        <5>1. CASE w = p
          BY <2>1, <3>1, <4>1, <5>1 DEF Kept, InHand
        <5>2. CASE w # p
          BY <1>2, <2>1, <4>1, <5>2 DEF Kept, DoneIn
        <5> QED
          BY <5>1, <5>2
      <4> QED
        BY <3>1, <4>1 DEF DoneIn
    <3> QED
      BY <3>2, <3>3 DEF Kept, InHand
  <2> QED
    BY <2>3, <2>4
<1> QED
  BY <1>4, <1>5

(* A crash answers nobody. *)
LEMMA CrashKeeps ==
    ASSUME EditInv, Next, Crash
    PROVE  Sent' /\ ((Disciplined /\ NoSettings)' => Kept')
<1> USE ConfigAssumption DEF Process
<1>1. /\ file' = file
      /\ \A w \in Writer : pc'[w] = IF pc[w] \in {"new", "done"} THEN pc[w] ELSE "lost"
      /\ \A p \in Process : pc'[p] \notin InHand
  BY DEF Crash, InHand
<1>2. Sent'
  BY <1>1 DEF Sent
<1>3. ASSUME Disciplined', NoSettings'
      PROVE  Kept'
  <2>1. Kept
    BY <1>3, DisciplinedBefore, NoSettingsBefore DEF EditInv
  <2>2. file' # Torn => DoneIn(file)'
    BY <1>1, <2>1 DEF Kept, DoneIn
  <2> QED
    BY <1>1, <2>2 DEF Kept, InHand
<1> QED
  BY <1>2, <1>3

LEMMA EditStep == EditInv /\ [Next]_vars => EditInv'
<1> SUFFICES ASSUME EditInv, [Next]_vars PROVE EditInv'
  OBVIOUS
<1>1. IInv'
  BY ConfigStep DEF EditInv
<1>2. CASE UNCHANGED vars
  BY <1>1, <1>2 DEF vars, store, oplog, fate, EditInv, Sent, Disciplined, NoSettings, Kept, DoneIn
<1>3. CASE Next
  <2>1. CASE Applying
    BY <1>1, <1>3, <2>1, LoopKeeps, WriteKeeps DEF Applying, Process, EditInv
  <2>2. CASE Crash
    BY <1>1, <1>3, <2>2, CrashKeeps DEF EditInv
  <2>3. ASSUME NEW w \in Writer, Fetch(w) \/ Writing(w)
        PROVE  EditInv'
    BY <1>1, <1>3, <2>3, RequestKeeps, WriteKeeps DEF Writing, Process, EditInv
  <2> QED
    BY <1>3, <2>1, <2>2, <2>3 DEF Next
<1> QED
  BY <1>2, <1>3

(* An edit of a local section that was answered stays, whatever the other   *)
(* handlers that take ConfigLock and the apply loop write over it, crashes  *)
(* included, as long as no settings page is sent (routes.go, alerts, jobs). *)
THEOREM AnsweredEditsStay == Spec => []LocalEditsStay
<1>1. Init => EditInv
  <2> SUFFICES ASSUME Init PROVE EditInv
    OBVIOUS
  <2>1. \A p \in Process : pc[p] = "new"
    BY DEF Init
  <2> QED
    BY <2>1, ConfigInit DEF EditInv, Sent, Kept, DoneIn, InHand, Process
<1>2. EditInv => LocalEditsStay
  BY DEF EditInv, Kept, DoneIn, NoSettings, LocalEditsStay
<1> QED
  BY <1>1, <1>2, EditStep, PTL DEF Spec
=============================================================================
