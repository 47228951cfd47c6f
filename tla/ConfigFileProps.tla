--------------------------- MODULE ConfigFileProps ---------------------------
(* What the configuration promises to those who change it. *)
EXTENDS ConfigFile

StoreOK == file \in Content \cup {Torn} /\ memory \in Content

Stage == {"new", "fetched", "publishing", "waiting", "published", "saving", "encoding", "saved",
          "loaded", "done", "lost"}

ProgramOK ==
    /\ lock \in Process \cup {Nobody}
    /\ pc \in [Process -> Stage]
    /\ draft \in [Process -> Content]

LogOK ==
    /\ log \in Seq([section : Replicated, state : SUBSET Writer, by : Writer])
    /\ applied \in 0..Len(log)

TypeOK == StoreOK /\ ProgramOK /\ LogOK /\ running \in BOOLEAN /\ crashes \in Nat

(* Nobody who skips ConfigLock has read the file yet. *)
Disciplined == \A w \in Writer : Kind[w] = "loose" => pc[w] = "new"

Quiet == \A p \in Process : pc[p] \notin {"encoding", "saved"}

(* x is the state that the entries up to position i leave in section s. *)
Leaves(l, s, i, x) ==
    \/ x = {} /\ \A j \in 1..i : l[j].section # s
    \/ \E j \in 1..i : /\ l[j].section = s /\ l[j].state = x
                       /\ \A k \in j + 1..i : l[k].section # s

(* The file is where the log is, or one entry ahead of it. *)
Follows(s) == \/ Leaves(log, s, applied, file[s])
              \/ applied < Len(log) /\ Leaves(log, s, applied + 1, file[s])

(* "the local write can never roll back what the apply loop just installed" *)
(* (set.go:101): among those who take ConfigLock nobody takes a replicated   *)
(* section that restoreReplicatedDomains knows back behind the position     *)
(* that has been committed, whatever the client sent and however long the   *)
(* publication took, crashes included.                                      *)
RestoredNotBehind == (Disciplined /\ file # Torn) => Follows("openid")

(* The same for API tokens, which set.go:102 says get "Same treatment".      *)
TokensNotBehind == (Disciplined /\ file # Torn) => Follows("tokens")

(* An edit of a local section that was answered is in the file, as long as  *)
(* no settings page, which sends every local section, is on its way.        *)
LocalEditsStay ==
    (Disciplined /\ (\A w \in Writer : Kind[w] = "settings" => pc[w] = "new") /\ file # Torn)
        => \A w \in Writer : (Kind[w] = "local" /\ pc[w] = "done") => w \in file[SectionOf[w]]

(* What GetMainConfig returns is what the file says, when no write is half  *)
(* done: the two stores of SetBaseMainConfig are one for whoever locks.     *)
MemoryFollowsFile == (Disciplined /\ Quiet /\ file # Torn) => memory = file

(* Every request that was begun is answered or dies with the process: a     *)
(* handler never waits for its entry with ConfigLock in hand, which the     *)
(* apply loop needs to install it (api_dns.go:151).                         *)
EditsEnd == \A w \in Writer : pc[w] # "new" /\ pc[w] # "fetched" ~> (pc[w] \in {"done", "lost"} \/ ~running)
=============================================================================
