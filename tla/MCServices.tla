------------------------------ MODULE MCServices ------------------------------
(* Small instances of the components beside the two machines, side by side *)
(* and never mixed: one is chosen at the start and the others stand still. *)
(* What they share is a database, and each has its own tables in it.       *)
EXTENDS Memberships, Conversations, MCModelCalls, MCEditions, MCSchema

VARIABLE part                                      \* the component that moves

Parts == {"schema", "members", "conversations", "calls", "editions"}

\* A part that stands still holds nothing.
NoMembers ==
    /\ account = [u \in Users |-> "absent"] /\ org = [o \in Orgs |-> "absent"]
    /\ seat = [c \in Orgs \X Users |-> NoSeat] /\ tokens = {}
    /\ req = [p \in Members |-> Idle] /\ begun = 0 /\ byHand = 0

NoEditions == stored = <<>> /\ edit = [p \in Editors |-> NoEdit] /\ started = {}

Start ==
    /\ part \in Parts
    /\ IF part = "members" THEN Init ELSE NoMembers
    /\ SchemaInit
    /\ ConversationsInit
    /\ ModelCallsInit /\ (part # "calls" => vendor = "openai" /\ configured = {})
    /\ IF part = "editions" THEN EditionsInit ELSE NoEditions

\* Members, Callers, Generations and Editors are the same two requests here, and TalkRuns and
\* Orgs the same two names, each part knowing them by its own. Sound for every property: none
\* is about liveness.
Symmetry == Permutations(Callers) \cup Permutations(Orgs) \cup Permutations(Users)

\* A run that is asked for again uses no tool here: a replay only reads, whatever it meets.
KeyedRunsAskNothing ==
    \A r \in TalkRuns : runs'[r] # None /\ runs'[r].key # NoKey => runs'[r].tools = 0

MoveOn ==
    \/ part = "members" /\ Next
         /\ UNCHANGED <<part, schemaVars, turnVars, callVars, editionVars>>
    \/ part = "schema" /\ SchemaNext
         /\ UNCHANGED <<part, vars, turnVars, callVars, editionVars>>
    \/ part = "conversations" /\ ConversationsNext /\ KeyedRunsAskNothing
         /\ UNCHANGED <<part, vars, schemaVars, callVars, editionVars>>
    \/ part = "calls" /\ ModelCallsNext
         /\ UNCHANGED <<part, vars, schemaVars, turnVars, editionVars>>
    \/ part = "editions" /\ EditionsNext
         /\ UNCHANGED <<part, vars, schemaVars, turnVars, callVars>>

ServicesSpec == Start /\ [][MoveOn]_<<part, vars, schemaVars, turnVars, callVars, editionVars>>

-----------------------------------------------------------------------------
TypesOK ==
    /\ part = "members" => TypeOK
    /\ SchemaTypeOK
    /\ ConversationsTypeOK
    /\ ModelCallsTypeOK
    /\ EditionsTypeOK
=============================================================================
