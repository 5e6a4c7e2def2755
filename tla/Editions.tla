------------------------------- MODULE Editions -------------------------------
(***************************************************************************)
(* The editions of one workflow: drafted, checked and activated, retired   *)
(* and started (services/workflow_execution.py over                        *)
(* repositories/workflow.py), and the check itself                         *)
(* (workflows/validation.py).                                              *)
(*                                                                         *)
(* A document is its graph, what it reads, what it names and its size. The *)
(* database locks a row from its first write to the commit; a statement    *)
(* sees what was committed when it began and looks again at a row it had   *)
(* to wait for. The engine that walks a definition is in WorkflowRuns.     *)
(***************************************************************************)
EXTENDS Integers, Sequences, FiniteSets, SequencesExt

CONSTANTS
    Editors,          \* requests in flight
    FirstDrafts,      \* documents the stored edition may have
    LaterDrafts,      \* documents offered after it
    MaxEditions,      \* how many editions are ever stored
    Installed,        \* tools and agents the organization can use
    MaxSteps,         \* workflow_max_steps
    MaxBytes          \* workflow_max_definition_bytes

VARIABLES
    stored,           \* workflows: the editions, by id
    edit,             \* what each request in flight has read and locked
    started           \* the editions runs were created on

editionVars == <<stored, edit, started>>

-----------------------------------------------------------------------------
(* What a document says.                                                   *)
Steps(d) == DOMAIN d.next

Parsed(d) ==
    /\ d.entry \in Steps(d)
    /\ \A s \in Steps(d) : d.next[s] \subseteq Steps(d)

TooLarge(d) == Cardinality(Steps(d)) > MaxSteps \/ d.bytes > MaxBytes

NamesUnknown(d) == d.names \notin SUBSET Installed

(* Steps read the input of the run or the output of other steps.           *)
BadReference(d) ==
    \E s \in Steps(d) : \E r \in d.reads[s] : r = s \/ r \notin Steps(d) \cup {"input"}

(* _reachable_from: from the entry on, until nothing is pending.           *)
Surveys(d) == [seen : SUBSET Steps(d), pending : SUBSET Steps(d)]

Visit(d, w) ==
    LET s    == CHOOSE x \in w.pending : TRUE
        seen == w.seen \cup {s}
    IN [seen |-> seen, pending |-> (w.pending \cup d.next[s]) \ seen]

Reachable(d) ==
    LET from[w \in Surveys(d)] == IF w.pending = {} THEN w.seen ELSE from[Visit(d, w)]
    IN from[[seen |-> {}, pending |-> {d.entry}]]

(* The depth-first walk: the path, the transitions each step has still to  *)
(* explore, and the steps that are finished.                               *)
Walks(d) == [path : Seq(Steps(d)), remaining : [Steps(d) -> SUBSET Steps(d)], finished : SUBSET Steps(d)]

Current(w) == Last(w.path)
Target(w)  == CHOOSE x \in w.remaining[Current(w)] : TRUE
OnPath(w)  == {w.path[i] : i \in DOMAIN w.path}

ClosesCycle(w) == w.path # <<>> /\ w.remaining[Current(w)] # {} /\ Target(w) \in OnPath(w)

Explore(w) ==
    IF w.remaining[Current(w)] = {}
    THEN [w EXCEPT !.path = Front(@), !.finished = @ \cup {Current(w)}]
    ELSE [w EXCEPT !.remaining[Current(w)] = @ \ {Target(w)},
                   !.path = IF Target(w) \in w.finished THEN @ ELSE Append(@, Target(w))]

FindsCycle(d) ==
    LET finds[w \in Walks(d)] ==
            IF w.path = <<>> \/ ClosesCycle(w) THEN ClosesCycle(w) ELSE finds[Explore(w)]
    IN finds[[path |-> <<d.entry>>, remaining |-> d.next, finished |-> {}]]

HasTerminalPath(d, reachable) == \E s \in reachable : d.next[s] = {}

\* Fault: cycles are not looked for.
BadGraphUnwalked(d) == Steps(d) # Reachable(d) \/ ~HasTerminalPath(d, Reachable(d))

BadGraph(d) ==
    \/ Steps(d) # Reachable(d)
    \/ FindsCycle(d)
    \/ ~HasTerminalPath(d, Reachable(d))

Validated(d) == ~(TooLarge(d) \/ NamesUnknown(d) \/ BadReference(d) \/ BadGraph(d))

-----------------------------------------------------------------------------
NoEdit == [pc |-> "idle"]
Ids  == 1 .. Len(stored)

Done(p) == edit' = [edit EXCEPT ![p] = NoEdit]

(* Rows another request has written and not committed.                     *)
Held(q) == IF edit[q].pc = "commit" THEN edit[q].others ELSE {}
LockedBefore(p) == UNION {Held(q) : q \in Editors \ {p}}

(* create: the next version is read, and the draft inserted with it; the   *)
(* unique key refuses a version that was taken meanwhile.                  *)
NextVersion == 1 + (IF stored = <<>> THEN 0
                    ELSE CHOOSE v \in {stored[i].version : i \in Ids} :
                             \A i \in Ids : stored[i].version <= v)

Create(p, d) ==
    /\ edit[p] = NoEdit /\ Len(stored) < MaxEditions
    /\ Parsed(d)
    /\ edit' = [edit EXCEPT ![p] = [pc |-> "insert", doc |-> d, version |-> NextVersion]]
    /\ UNCHANGED <<stored, started>>

InsertDraft(p) ==
    /\ edit[p].pc = "insert" /\ Len(stored) < MaxEditions
    /\ stored' = IF \E i \in Ids : stored[i].version = edit[p].version THEN stored
                 ELSE Append(stored, [version |-> edit[p].version, doc |-> edit[p].doc, status |-> "draft"])
    /\ Done(p)
    /\ UNCHANGED started

(* activate: the row is read and its document checked, and its new status  *)
(* stays in the session, which does not flush by itself. One statement     *)
(* retires the other active editions: it finds them when it begins, waits  *)
(* for their rows and skips those that are active no more. The row's own   *)
(* status is written last, with the commit, unless it was so when read.    *)
(* What is activated once the statement has begun is late for it, which is *)
(* kept for the property only.                                             *)
Activate(p, i) ==
    /\ edit[p] = NoEdit
    /\ Validated(stored[i].doc)
    /\ edit' = [edit EXCEPT ![p] = [pc |-> "retire", id |-> i, seen |-> stored[i].status]]
    /\ UNCHANGED <<stored, started>>

\* Fault: only the editions before it are retired.
DeactivateOlder(p) ==
    /\ edit[p].pc = "retire"
    /\ edit' = [edit EXCEPT ![p] =
          [pc |-> "lock", id |-> @.id, seen |-> @.seen, late |-> {},
           others |-> {i \in Ids : i < edit[p].id /\ stored[i].status = "active"}]]
    /\ UNCHANGED <<stored, started>>

DeactivateOthers(p) ==
    /\ edit[p].pc = "retire"
    /\ edit' = [edit EXCEPT ![p] =
          [pc |-> "lock", id |-> @.id, seen |-> @.seen, late |-> {},
           others |-> {i \in Ids : i # edit[p].id /\ stored[i].status = "active"}]]
    /\ UNCHANGED <<stored, started>>

LockOthers(p) ==
    /\ edit[p].pc = "lock"
    /\ edit[p].others \cap LockedBefore(p) = {}
    /\ edit' = [edit EXCEPT ![p].pc = "commit",
                            ![p].others = {i \in @ : stored[i].status = "active"}]
    /\ UNCHANGED <<stored, started>>

Overtaken(q, i) ==
    IF edit[q].pc \in {"lock", "commit"} /\ edit[q].id # i
    THEN [edit[q] EXCEPT !.late = @ \cup {i}] ELSE edit[q]

CommitActivation(p) ==
    LET e == edit[p] IN
    /\ e.pc = "commit"
    /\ e.seen # "active" => e.id \notin LockedBefore(p)
    /\ stored' = [i \in Ids |->
          IF i = e.id /\ e.seen # "active" THEN [stored[i] EXCEPT !.status = "active"]
          ELSE IF i \in e.others THEN [stored[i] EXCEPT !.status = "inactive"]
          ELSE stored[i]]
    /\ edit' = [q \in Editors |->
          IF q = p THEN NoEdit
          ELSE IF e.seen # "active" THEN Overtaken(q, e.id)
          ELSE edit[q]]
    /\ UNCHANGED started

Deactivate(p, i) ==
    /\ edit[p] = NoEdit
    /\ edit' = [edit EXCEPT ![p] = [pc |-> "deactivate", id |-> i, seen |-> stored[i].status]]
    /\ UNCHANGED <<stored, started>>

CommitDeactivation(p) ==
    LET e == edit[p] IN
    /\ e.pc = "deactivate"
    /\ e.seen # "inactive" => e.id \notin LockedBefore(p)
    /\ stored' = IF e.seen = "inactive" THEN stored ELSE [stored EXCEPT ![e.id].status = "inactive"]
    /\ Done(p)
    /\ UNCHANGED started

(* start: the edition is active when it is read, and the run is created    *)
(* after the sweep.                                                        *)
StartOn(p, i) ==
    /\ edit[p] = NoEdit /\ i \notin started
    /\ stored[i].status = "active"
    /\ edit' = [edit EXCEPT ![p] = [pc |-> "run", id |-> i]]
    /\ UNCHANGED <<stored, started>>

CreateRun(p) ==
    /\ edit[p].pc = "run"
    /\ started' = started \cup {edit[p].id}
    /\ Done(p)
    /\ UNCHANGED stored

(* The request dies, or the database picks it to end a deadlock.           *)
AbortEdit(p) ==
    /\ edit[p] # NoEdit
    /\ Done(p)
    /\ UNCHANGED <<stored, started>>

EditionsInit ==
    /\ \E d \in FirstDrafts : Parsed(d) /\ stored = <<[version |-> 1, doc |-> d, status |-> "draft"]>>
    /\ edit = [p \in Editors |-> NoEdit]
    /\ started = {}

EditionsNext ==
    \E p \in Editors :
        \/ \E d \in LaterDrafts : Create(p, d)
        \/ \E i \in Ids : Activate(p, i) \/ Deactivate(p, i) \/ StartOn(p, i)
        \/ InsertDraft(p) \/ DeactivateOthers(p) \/ LockOthers(p) \/ CommitActivation(p)
        \/ CommitDeactivation(p) \/ CreateRun(p) \/ AbortEdit(p)

EditionsSpec == EditionsInit /\ [][EditionsNext]_editionVars

-----------------------------------------------------------------------------
EditionsTypeOK ==
    /\ Len(stored) <= MaxEditions
    /\ \A i \in Ids : /\ stored[i].version \in 1 .. MaxEditions
                      /\ stored[i].status \in {"draft", "active", "inactive"}
    /\ \A p \in Editors : edit[p].pc \in {"idle", "insert", "retire", "lock", "commit", "deactivate", "run"}
    /\ started \subseteq Ids

(* What a run needs of a document, said without a walk: its steps can be   *)
(* ranked so that each transition leads down, every step but the entry is  *)
(* led to, and no step reads itself or what is not there.                  *)
Ends(d) ==
    /\ \E rank \in [Steps(d) -> 1 .. Cardinality(Steps(d))] :
          \A s \in Steps(d) : \A t \in d.next[s] : rank[t] < rank[s]
    /\ \A s \in Steps(d) \ {d.entry} : \E t \in Steps(d) : s \in d.next[t]
    /\ \A s \in Steps(d) : d.reads[s] \subseteq (Steps(d) \ {s}) \cup {"input"}

(* However editions are drafted, activated and retired side by side, the   *)
(* version a run records names one document, and a run on it ends.         *)
RunsAreOnOneSoundEdition ==
    /\ \A i, j \in Ids : stored[i].version = stored[j].version => i = j
    /\ \A i \in Ids : stored[i].status = "active" \/ i \in started => Ends(stored[i].doc)

(* An activation leaves another edition active beside its own only if that *)
(* one was activated after the statement that retires the others began.    *)
OthersStayOnlyUnseen ==
    [][\A p \in Editors : CommitActivation(p) =>
          \A i \in Ids : i # edit[p].id /\ stored'[i].status = "active" => i \in edit[p].late]_editionVars

(* services/workflow_execution.py:178-180: activating a version says which *)
(* edition is current, so no two are.                                      *)
OneEditionIsCurrent ==
    \A i, j \in Ids : stored[i].status = "active" /\ stored[j].status = "active" => i = j

(* services/workflow_execution.py:159: an activation makes the version the *)
(* runnable one. At least one that retires the edition before it does.     *)
ActivationMakesRunnable ==
    [][\A p \in Editors : CommitActivation(p) /\ edit[p].others # {} =>
          stored'[edit[p].id].status = "active"]_editionVars
=============================================================================
