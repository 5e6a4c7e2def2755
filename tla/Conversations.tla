----------------------------- MODULE Conversations -----------------------------
(***************************************************************************)
(* The turns of conversations: how a run reads and numbers them            *)
(* (repositories/conversation.py), attaches to a conversation and reports  *)
(* its answer (services/agent_execution.py), stores what it does           *)
(* (services/run_journal.py) and is resumed from what was stored           *)
(* (services/approvals.py).                                                *)
(*                                                                         *)
(* Two runs may advance one conversation. Each append reads the next       *)
(* position, then writes and commits; a row is stamped with the start of   *)
(* its transaction. Who may decide, and what a tool does, are in AgentRuns.*)
(***************************************************************************)
EXTENDS Integers, Sequences, FiniteSetsExt

CONSTANTS
    Callers,          \* requests in flight
    TalkRuns,         \* agent runs
    Talks,            \* conversations
    TalkKeys,         \* idempotency keys
    NoKey,            \* no Idempotency-Key header
    NoTalk,           \* no conversation named
    MaxReplayed,      \* MAX_REPLAYED_MESSAGES
    MaxCalls          \* how many tools a run may ask for

VARIABLES
    turns,            \* messages: the rows
    runs,             \* agent_runs: the columns a conversation depends on
    call,             \* what each request in flight holds
    clock             \* the transactions begun so far

turnVars == <<turns, runs, call, clock>>

Kinds  == {"user", "request", "result", "answer"}
Rows   == [talk : Talks, sequence : Nat \ {0}, created_at : Nat, run : TalkRuns, nth : Nat \ {0},
           kind : Kinds, tool : 0 .. MaxCalls]
Runs   == [key : TalkKeys \cup {NoKey}, talk : Talks, tools : 0 .. MaxCalls,
           status : {"running", "awaiting_approval", "completed"}]
None   == [status |-> "none"]
NoCall == [pc |-> "idle"]

(* The turns that are appended together, and what a request holds.         *)
Batches == {<<"user">>, <<"user", "user">>, <<"request">>, <<"result">>, <<"answer">>}
Told    == [pc : {"told"}, run : TalkRuns, replayed : BOOLEAN, answer : Rows \cup {None}]
Working == [pc : {"position", "store", "model", "completed", "awaiting_approval"},
            run : TalkRuns, kinds : Batches, sent : Seq(Rows), created_at : Nat, sequence : Nat]

-----------------------------------------------------------------------------
(* The order a conversation is replayed in, and how much of it is read.    *)
\* Fault: sorted the other way, to read the newest turns.
PrecedesNewest(a, b) == \/ a.sequence > b.sequence
                        \/ a.sequence = b.sequence /\ a.created_at > b.created_at

Precedes(a, b) == \/ a.sequence < b.sequence
                  \/ a.sequence = b.sequence /\ a.created_at < b.created_at

(* The i-th turn is the one that i - 1 others precede.                     *)
RowsOf(t)  == {m \in turns : m.talk = t}
Place(t, m) == Cardinality({x \in RowsOf(t) : Precedes(x, m)})
InOrder(t) == [i \in 1 .. Cardinality(RowsOf(t)) |->
                  CHOOSE m \in RowsOf(t) : Place(t, m) = i - 1]

\* Fault: the newest turns are read, not the oldest.
NewestMessages(t) ==
    LET all  == InOrder(t)
        over == Len(all) - MaxReplayed
    IN SubSeq(all, IF over > 0 THEN over + 1 ELSE 1, Len(all))

Messages(t) == LET all == InOrder(t)
               IN SubSeq(all, 1, IF Len(all) < MaxReplayed THEN Len(all) ELSE MaxReplayed)

NextSequence(t) == 1 + Max({0} \cup {m.sequence : m \in RowsOf(t)})

(* The agent's answer: the last assistant turn read that is no request.    *)
FinalResponse(t) ==
    LET said    == Messages(t)
        answers == {i \in DOMAIN said : said[i].kind = "answer"}
    IN IF answers = {} THEN None ELSE said[Max(answers)]

(* What a reply says of a run.                                             *)
View(r, replayed) ==
    [pc |-> "told", run |-> r, replayed |-> replayed,
     answer |-> IF runs'[r].status = "completed" THEN FinalResponse(runs'[r].talk) ELSE None]

(* The request a paused run waits on, found by its execution.              *)
PendingRequest(rows, r) ==
    {i \in DOMAIN rows :
        rows[i].kind = "request" /\ rows[i].run = r /\ rows[i].tool = runs[r].tools}

Free(p) == call[p].pc \in {"idle", "told"}

(* A request about to append turns of these kinds for its run; one that    *)
(* has opened a transaction stamps them with its start.                    *)
Appending(r, kinds, sent, begun) ==
    [pc |-> "position", run |-> r, kinds |-> kinds, sent |-> sent, created_at |-> begun, sequence |-> 0]

-----------------------------------------------------------------------------
(* start: the key finds the run it already made, or a new run joins a new  *)
(* conversation - all of whose turns the client asserts - or a stored one, *)
(* to which it adds one user turn.                                         *)
Replay(p, r) ==
    /\ Free(p)
    /\ runs[r] # None /\ runs[r].key # NoKey
    /\ UNCHANGED <<turns, runs, clock>>
    /\ call' = [call EXCEPT ![p] = View(r, TRUE)]

StartRun(p, r, k, t) ==
    /\ Free(p)
    /\ runs[r] = None
    /\ k # NoKey => \A x \in TalkRuns : runs[x] # None => runs[x].key # k
    /\ t \in Talks => \E x \in TalkRuns : runs[x] # None /\ runs[x].talk = t
    /\ \E new \in IF t \in Talks THEN {t}
                  ELSE {c \in Talks : \A x \in TalkRuns : runs[x] # None => runs[x].talk # c},
          said \in IF t \in Talks THEN {<<"user">>} ELSE {<<"user">>, <<"user", "user">>} :
          /\ runs' = [runs EXCEPT ![r] = [key |-> k, talk |-> new, tools |-> 0, status |-> "running"]]
          /\ call' = [call EXCEPT ![p] =
                Appending(r, said, IF t \in Talks THEN Messages(t) ELSE <<>>, clock + 1)]
    /\ clock' = clock + 1
    /\ UNCHANGED turns

(* append_all: the position is read, and the rows are written from it on.  *)
Position(p) ==
    /\ call[p].pc = "position"
    /\ LET c == call[p]
           begins == IF c.created_at = 0 THEN 1 ELSE 0 IN
       /\ call' = [call EXCEPT ![p] =
             [c EXCEPT !.pc = "store", !.sequence = NextSequence(runs[c.run].talk),
                       !.created_at = @ + begins * (clock + 1)]]
       /\ clock' = clock + begins
    /\ UNCHANGED <<turns, runs>>

(* The rows an append writes.                                              *)
Staged(c) ==
    LET nth == Cardinality({m \in turns : m.run = c.run}) IN
    {[talk |-> runs[c.run].talk, sequence |-> c.sequence + i - 1, created_at |-> c.created_at,
      run |-> c.run, nth |-> nth + i, kind |-> c.kinds[i], tool |-> runs[c.run].tools] :
        i \in DOMAIN c.kinds}

Store(p, next) ==
    LET c == call[p] IN
    /\ c.pc = "store"
    /\ turns' = turns \cup Staged(c)
    /\ next \in CASE c.kinds[1] = "answer"  -> {"completed"}
                  [] c.kinds[1] = "request" -> {"awaiting_approval", "result"}
                  [] OTHER -> {"model"}
    /\ call' = [call EXCEPT ![p] =
          IF next = "result" THEN Appending(c.run, <<"result">>, c.sent, 0)
          ELSE [@ EXCEPT !.pc = next]]
    /\ UNCHANGED <<runs, clock>>

(* A step of the loop: an answer, or a tool, while the budget lasts.       *)
Decide(p, kind) ==
    LET c == call[p]
        r == runs[c.run] IN
    /\ c.pc = "model"
    /\ kind \in {"answer"} \cup (IF r.tools < MaxCalls THEN {"request"} ELSE {})
    /\ runs' = [runs EXCEPT ![c.run].tools = IF kind = "request" THEN @ + 1 ELSE @]
    /\ call' = [call EXCEPT ![p] = Appending(c.run, <<kind>>, c.sent, 0)]
    /\ UNCHANGED <<turns, clock>>

(* The run is over or waits for a person, and the reply says so.           *)
Close(p) ==
    LET r == call[p].run IN
    /\ call[p].pc \in {"completed", "awaiting_approval"}
    /\ UNCHANGED <<turns, clock>>
    /\ runs' = [runs EXCEPT ![r].status = call[p].pc]
    /\ call' = [call EXCEPT ![p] = View(r, FALSE)]

(* A person has answered: the run goes on from the stored conversation, if *)
(* its request is still among the turns that are read back.                *)
Resume(p, r) ==
    LET rows == Messages(runs[r].talk) IN
    /\ Free(p)
    /\ runs[r] # None /\ runs[r].status = "awaiting_approval"
    /\ PendingRequest(rows, r) # {}
    /\ runs' = [runs EXCEPT ![r].status = "running"]
    /\ call' = [call EXCEPT ![p] = Appending(r, <<"result">>, rows, 0)]
    /\ UNCHANGED <<turns, clock>>

RefuseResume(p, r) ==                      \* ApprovalNotResumableError
    /\ Free(p)
    /\ runs[r] # None /\ runs[r].status = "awaiting_approval"
    /\ PendingRequest(Messages(runs[r].talk), r) = {}
    /\ call' = [call EXCEPT ![p] = NoCall]
    /\ UNCHANGED <<turns, runs, clock>>

ConversationsInit ==
    /\ turns = {}
    /\ runs = [r \in TalkRuns |-> None]
    /\ call = [p \in Callers |-> NoCall]
    /\ clock = 0

ConversationsNext ==
    \E p \in Callers :
        \/ \E r \in TalkRuns : Replay(p, r) \/ Resume(p, r) \/ RefuseResume(p, r)
        \/ \E r \in TalkRuns, k \in TalkKeys \cup {NoKey}, t \in Talks \cup {NoTalk} : StartRun(p, r, k, t)
        \/ Position(p) \/ Close(p)
        \/ \E next \in {"model", "completed", "awaiting_approval", "result"} : Store(p, next)
        \/ \E kind \in {"answer", "request"} : Decide(p, kind)

ConversationsSpec == ConversationsInit /\ [][ConversationsNext]_turnVars

-----------------------------------------------------------------------------
ConversationsTypeOK ==
    /\ turns \subseteq Rows
    /\ runs \in [TalkRuns -> Runs \cup {None}]
    /\ call \in [Callers -> {NoCall} \cup Told \cup Working]
    /\ clock \in Nat

(* Whoever else writes to the conversation, the turns of one run are read  *)
(* back in the order it wrote them.                                        *)
RunTurnsInOrder ==
    \A t \in Talks : LET all == InOrder(t) IN
        \A i, j \in DOMAIN all : i < j /\ all[i].run = all[j].run => all[i].nth < all[j].nth

(* A model is never sent the result of a tool before, or without, the turn *)
(* that asked for it, however little of the conversation is read back.     *)
ResultsFollowTheirRequests ==
    \A p \in Callers : "sent" \in DOMAIN call[p] =>
        LET sent == call[p].sent IN
        \A j \in DOMAIN sent : sent[j].kind = "result" =>
            \E i \in 1 .. j - 1 : /\ sent[i].kind = "request"
                                  /\ sent[i].run = sent[j].run /\ sent[i].tool = sent[j].tool

(* What services/agent_execution.py:419-421 says: the answer is read from  *)
(* the conversation, and that lets a replay return the original one.       *)
ReplayReturnsOwnAnswer ==
    \A p \in Callers :
        call[p].pc = "told" /\ call[p].replayed /\ call[p].answer # None
          => call[p].answer.run = call[p].run
=============================================================================
