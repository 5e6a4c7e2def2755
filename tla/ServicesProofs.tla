---------------------------- MODULE ServicesProofs ----------------------------
(***************************************************************************)
(* The parts that MCServices puts side by side, proved: each behaves in it *)
(* as its own specification says, so what is proved of a part alone holds  *)
(* of the whole; and the types of all of them.                             *)
(***************************************************************************)
EXTENDS MCServices, PeopleProofs, ModelCallsProofs, EditionsProofs, SchemaProofs

-----------------------------------------------------------------------------
whole == <<part, vars, schemaVars, turnVars, callVars, editionVars>>

\* The part that moves is chosen once, and no other moves.
LEMMA OnePartMoves ==
    ASSUME [MoveOn]_whole
    PROVE  /\ part' = part
           /\ [SchemaNext]_schemaVars /\ [ConversationsNext]_turnVars /\ [ModelCallsNext]_callVars
           /\ [Next]_vars /\ [EditionsNext]_editionVars
           /\ part # "members" => UNCHANGED vars
           /\ part # "editions" => UNCHANGED editionVars
<1>1. CASE part = "members" /\ Next /\ UNCHANGED <<part, schemaVars, turnVars, callVars, editionVars>>
  BY <1>1
<1>2. CASE part = "schema" /\ SchemaNext /\ UNCHANGED <<part, vars, turnVars, callVars, editionVars>>
  BY <1>2
<1>3. CASE part = "conversations" /\ ConversationsNext /\ KeyedRunsAskNothing
           /\ UNCHANGED <<part, vars, schemaVars, callVars, editionVars>>
  BY <1>3
<1>4. CASE part = "calls" /\ ModelCallsNext /\ UNCHANGED <<part, vars, schemaVars, turnVars, editionVars>>
  BY <1>4
<1>5. CASE part = "editions" /\ EditionsNext /\ UNCHANGED <<part, vars, schemaVars, turnVars, callVars>>
  BY <1>5
<1>6. CASE UNCHANGED whole
  BY <1>6 DEF whole
<1> QED BY <1>1, <1>2, <1>3, <1>4, <1>5, <1>6 DEF MoveOn

\* Every part behaves as if it were alone: the services share one database
\* (core/database.py), and none writes to a table of another's.
THEOREM PartsBehaveAsAlone ==
    ServicesSpec => /\ SchemaSpec /\ ConversationsSpec /\ ModelCallsSpec
                    /\ part = "members" => Spec
                    /\ part = "editions" => EditionsSpec
<1>1. Start => /\ SchemaInit /\ ConversationsInit /\ ModelCallsInit
               /\ part = "members" => Init
               /\ part = "editions" => EditionsInit
  BY DEF Start
<1>2. [MoveOn]_whole => /\ [SchemaNext]_schemaVars /\ [ConversationsNext]_turnVars
                        /\ [ModelCallsNext]_callVars /\ [Next]_vars /\ [EditionsNext]_editionVars
  BY OnePartMoves
<1> QED BY <1>1, <1>2, PTL
        DEF ServicesSpec, whole, SchemaSpec, ConversationsSpec, ModelCallsSpec, Spec, EditionsSpec

\* Whichever part moves, all of them stay of their types.
THEOREM ServicesTypes ==
    ASSUME MaxReplayed \in Nat, MaxCalls \in Nat,
           MaxSeries \in Nat \ {0}, MaxRetries \in Nat, BaseDelay \in Nat, MaxDelay \in Nat,
           Hints \subseteq Int, DraftsAssumption, MaxEditions \in Nat \ {0}
    PROVE  ServicesSpec => []TypesOK
<1>1. ServicesSpec => [](SchemaTypeOK /\ ConversationsTypeOK /\ ModelCallsTypeOK)
  <2>1. TalkInv => ConversationsTypeOK
    BY DEF TalkInv
  <2> QED BY <2>1, PartsBehaveAsAlone, SchemaTypes, ConversationsInvariant, CallsStayBounded, PTL
<1>2. ServicesSpec => [](part = "members" => TypeOK)
  <2>1. ~(part = "members") /\ [MoveOn]_whole => ~(part = "members")'
    BY OnePartMoves
  <2> QED BY <2>1, PartsBehaveAsAlone, TypeCorrect, PTL DEF ServicesSpec, whole
<1>3. ServicesSpec => []EditionsTypeOK
  <2>1. Start => part = "editions" \/ NoEditions
    BY DEF Start
  <2>2. ~(part = "editions") /\ NoEditions /\ [MoveOn]_whole
          => ~(part = "editions")' /\ NoEditions'
    BY OnePartMoves DEF NoEditions, editionVars
  <2>3. NoEditions => EditionsTypeOK
    BY DEF NoEditions, EditionsTypeOK, Ids, NoEdit
  <2> QED BY <2>1, <2>2, <2>3, PartsBehaveAsAlone, EditionsStayNumbered, PTL DEF ServicesSpec, whole
<1>4. (SchemaTypeOK /\ ConversationsTypeOK /\ ModelCallsTypeOK) /\ (part = "members" => TypeOK)
        /\ EditionsTypeOK => TypesOK
  BY DEF TypesOK
<1> QED BY <1>1, <1>2, <1>3, <1>4, PTL
=============================================================================
