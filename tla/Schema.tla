-------------------------------- MODULE Schema --------------------------------
(***************************************************************************)
(* The tables, their keys and references, the migrations that build and    *)
(* undo them one revision at a time (src/backend/alembic/versions), the    *)
(* schema the ORM declares (src/backend/app/models), and what deletions do *)
(* to the rows the services write.                                         *)
(*                                                                         *)
(* A table keeps the columns that carry a reference, belong to a unique    *)
(* key or are touched by a later revision; a column that is NOT NULL and   *)
(* has no default is in must, any other in opt. Indexes, lengths and types *)
(* are left out. A migration is one transaction: it applies as a whole or  *)
(* not at all.                                                             *)
(***************************************************************************)
EXTENDS Integers, Sequences, FiniteSets, SequencesExt

CONSTANT Written       \* part of the product -> the rows one use of it writes, in order

\* A use writes finitely many rows, and "NULL" is neither an id nor a value: a column that
\* holds NULL is left out of v.
ASSUME WrittenAssumption ==
    \A p \in DOMAIN Written :
        /\ IsFiniteSet(DOMAIN Written[p])
        /\ \A i \in DOMAIN Written[p] :
              LET r == Written[p][i] IN r.id # "NULL" /\ \A c \in DOMAIN r.v : r.v[c] # "NULL"

VARIABLES
    rev,               \* how many revisions are applied
    db,                \* the schema: tables, numbered references, checks
    rows,              \* id -> [t |-> table, v |-> column -> value]
    refused            \* the kinds of statement the database has refused

schemaVars == <<rev, db, rows, refused>>

-----------------------------------------------------------------------------
(* References. One that carries the tenant pairs its column with           *)
(* organization_id and refers to the pair (id, organization_id).           *)
To(c, t, on)     == [col |-> c, to |-> t, tenant |-> FALSE, on |-> on]
Within(c, t, on) == [col |-> c, to |-> t, tenant |-> TRUE,  on |-> on]
Org              == To("organization_id", "organizations", "cascade")
OrgKey           == {"id", "organization_id"}

(* One table: plain columns (NOT NULL), nullable ones, unique keys and     *)
(* references; a referring column is NOT NULL unless it is in opt.         *)
Table(t, plain, opt, keys, refs) ==
    [op |-> "table", t |-> t, opt |-> opt, keys |-> keys,
     must |-> (plain \cup {refs[i].col : i \in DOMAIN refs}) \ opt,
     refs |-> refs]

Drop(t)            == [op |-> "drop", t |-> t]
AddColumns(t, must, opt)  == [op |-> "add", t |-> t, must |-> must, opt |-> opt]
RemoveColumns(t, cols)    == [op |-> "remove", t |-> t, cols |-> cols]
Relax(t, c)        == [op |-> "relax", t |-> t, col |-> c]
Require(t, c)      == [op |-> "require", t |-> t, col |-> c]
UniqueKey(t, k)          == [op |-> "key", t |-> t, key |-> k]
DropKey(t, k)      == [op |-> "drop_key", t |-> t, key |-> k]
Ref(t, r)          == [op |-> "ref", t |-> t, ref |-> r]
DropRef(t, r)      == [op |-> "drop_ref", t |-> t, ref |-> r]
Check(t, n)        == [op |-> "check", t |-> t, check |-> n]
DropCheck(t, n)    == [op |-> "drop_check", t |-> t, check |-> n]
Empty(t)           == [op |-> "empty", t |-> t]
PurgeAll(t)        == [op |-> "purge", t |-> t, null |-> "id"]
\* Fault: the WHERE is lost.
PurgeEvery(t, c)   == [op |-> "purge", t |-> t, null |-> "id"]
PurgeNull(t, c)    == [op |-> "purge", t |-> t, null |-> c]
\* Fault: the DELETE is forgotten.
KeepSuperseded(t)  == [op |-> "keep", t |-> t]
PurgeSuperseded(t) == [op |-> "superseded", t |-> t]

-----------------------------------------------------------------------------
(* The initial application schema, in the order it creates its tables.     *)
Platform == <<
    Table("organizations", {"slug"}, {}, {{"slug"}}, <<>>),
    Table("tools", {"name"}, {}, {{"name"}}, <<>>),
    Table("users", {"email"}, {}, {{"email"}}, <<>>),
    Table("agents", {"name"}, {}, {{"organization_id", "name"}}, <<Org>>) >>

Records == <<
    Table("audit_events", {}, {"user_id", "resource_id"}, {}, <<Org, To("user_id", "users", "null")>>),
    Table("documents", {"storage_key"}, {"uploaded_by"}, {{"storage_key"}},
          <<Org, To("uploaded_by", "users", "null")>>),
    Table("organization_members", {}, {}, {{"organization_id", "user_id"}},
          <<Org, To("user_id", "users", "cascade")>>) >>

Chats == <<
    Table("workflows", {"name"}, {"enabled"}, {{"organization_id", "name"}}, <<Org>>),
    Table("agent_tools", {}, {}, {{"agent_id", "tool_id"}},
          <<To("agent_id", "agents", "cascade"), To("tool_id", "tools", "cascade")>>),
    Table("conversations", {}, {}, {},
          <<To("agent_id", "agents", "cascade"), Org, To("user_id", "users", "restrict")>>) >>

OldRunStatuses  == {"pending", "running", "succeeded", "failed", "cancelled"}
OldStepStatuses == {"pending", "running", "succeeded", "failed", "skipped"}

Flows == <<
    Table("workflow_runs", {}, {}, {}, <<Org, To("workflow_id", "workflows", "cascade")>>),
    Check("workflow_runs", OldRunStatuses),
    Table("workflow_steps", {"step_order"}, {}, {{"workflow_id", "step_order"}},
          <<To("workflow_id", "workflows", "cascade")>>) >>

Questions == <<
    Table("approvals", {}, {"agent_id", "tool_id", "conversation_id", "approved_by"}, {},
          <<To("agent_id", "agents", "cascade"), To("approved_by", "users", "null"),
            To("conversation_id", "conversations", "cascade"), Org,
            To("requested_by", "users", "restrict"), To("tool_id", "tools", "restrict")>>) >>

Turns == <<
    Table("messages", {}, {}, {}, <<To("conversation_id", "conversations", "cascade")>>),
    Table("workflow_step_runs", {}, {}, {},
          <<To("workflow_run_id", "workflow_runs", "cascade"),
            To("workflow_step_id", "workflow_steps", "cascade")>>),
    Check("workflow_step_runs", OldStepStatuses) >>

UndoInitial == <<
    Drop("workflow_step_runs"), Drop("messages"), Drop("approvals"), Drop("workflow_steps"),
    Drop("workflow_runs"), Drop("conversations"), Drop("agent_tools"), Drop("workflows"),
    Drop("organization_members"), Drop("documents"), Drop("audit_events"), Drop("agents"),
    Drop("users"), Drop("tools"), Drop("organizations") >>

(* Business operations.                                                    *)
Customers == <<
    Table("customers", {"reference"}, {}, {OrgKey, {"organization_id", "reference"}}, <<Org>>),
    Table("shipments", {"reference"}, {}, {OrgKey, {"organization_id", "reference"}},
          <<Within("customer_id", "customers", "cascade"), Org>>) >>

Bills == <<
    Table("invoices", {"number"}, {"shipment_id"}, {{"organization_id", "number"}},
          <<Within("customer_id", "customers", "cascade"), Org,
            Within("shipment_id", "shipments", "cascade")>>) >>

Charges == <<
    Table("shipment_charges", {}, {}, {}, <<Org, Within("shipment_id", "shipments", "cascade")>>) >>

UndoBusiness == <<Drop("shipment_charges"), Drop("invoices"), Drop("shipments"), Drop("customers")>>

(* Durable agent execution and approvals. The key of conversations has to  *)
(* exist before agent_runs refers to it, and to outlive it on the way down.*)
RunTables == <<
    Relax("conversations", "agent_id"),
    UniqueKey("conversations", OrgKey),
    AddColumns("messages", {}, {"tool_metadata", "sequence"}),
    Table("agent_runs", {"agent_id"}, {"conversation_id", "idempotency_key"},
          {OrgKey, {"organization_id", "idempotency_key"}},
          <<Within("conversation_id", "conversations", "cascade"), Org,
            To("user_id", "users", "restrict")>>) >>

ExecutionTables == <<
    Table("agent_steps", {"step_number"}, {}, {{"run_id", "step_number"}},
          <<Org, Within("run_id", "agent_runs", "cascade")>>),
    Table("tool_executions", {"step_number"}, {}, {OrgKey, {"run_id", "step_number"}},
          <<Org, Within("run_id", "agent_runs", "cascade")>>),
    AddColumns("approvals", {}, {"run_id", "tool_execution_id", "tool_name"}),
    UniqueKey("approvals", {"tool_execution_id"}),
    Ref("approvals", Within("run_id", "agent_runs", "cascade")),
    Ref("approvals", Within("tool_execution_id", "tool_executions", "cascade")) >>

UndoExecution == <<
    DropRef("approvals", Within("tool_execution_id", "tool_executions", "cascade")),
    DropRef("approvals", Within("run_id", "agent_runs", "cascade")),
    DropKey("approvals", {"tool_execution_id"}),
    RemoveColumns("approvals", {"tool_name", "tool_execution_id", "run_id"}),
    Drop("tool_executions"), Drop("agent_steps"), Drop("agent_runs"),
    RemoveColumns("messages", {"sequence", "tool_metadata"}),
    DropKey("conversations", OrgKey),
    PurgeNull("conversations", "agent_id"),
    Require("conversations", "agent_id") >>

(* The workflow engine.                                                    *)
RunStatuses  == OldRunStatuses \cup {"awaiting_approval"}
StepStatuses == OldStepStatuses \cup {"awaiting_approval", "cancelled"}

Widen(t, from, to) == <<DropCheck(t, from), Check(t, to)>>

VersionWorkflows == <<
    Empty("workflow_runs"), Empty("workflow_step_runs"),
    AddColumns("workflows", {}, {"version", "status", "definition"}),
    DropKey("workflows", {"organization_id", "name"}),
    UniqueKey("workflows", {"organization_id", "name", "version"}),
    UniqueKey("workflows", OrgKey),
    Check("workflows", {"version_positive"}),
    RemoveColumns("workflows", {"enabled"}) >>

ReshapeRuns ==
    <<DropRef("workflow_runs", To("workflow_id", "workflows", "cascade")),
      AddColumns("workflow_runs", {"user_id"},
          {"workflow_version", "current_step", "step_count", "input_data", "output_data",
           "idempotency_key", "request_id", "error_code"})>>
    \o Widen("workflow_runs", OldRunStatuses, RunStatuses) \o
    <<Ref("workflow_runs", To("user_id", "users", "restrict")),
      Ref("workflow_runs", Within("workflow_id", "workflows", "cascade")),
      UniqueKey("workflow_runs", {"organization_id", "idempotency_key"}),
      UniqueKey("workflow_runs", OrgKey),
      Check("workflow_runs", {"step_count_not_negative"}),
      Check("workflow_runs", {"workflow_version_positive"})>>

ReshapeStepRuns ==
    <<DropRef("workflow_step_runs", To("workflow_run_id", "workflow_runs", "cascade")),
      AddColumns("workflow_step_runs", {"organization_id", "step_key", "step_type", "position"},
          {"agent_run_id", "error_code"}),
      Relax("workflow_step_runs", "workflow_step_id")>>
    \o Widen("workflow_step_runs", OldStepStatuses, StepStatuses) \o
    <<Ref("workflow_step_runs", Org),
      Ref("workflow_step_runs", Within("workflow_run_id", "workflow_runs", "cascade")),
      Ref("workflow_step_runs", Within("agent_run_id", "agent_runs", "null")),
      UniqueKey("workflow_step_runs", {"workflow_run_id", "step_key"}),
      UniqueKey("workflow_step_runs", {"workflow_run_id", "position"}),
      UniqueKey("workflow_step_runs", OrgKey),
      Check("workflow_step_runs", {"position_positive"})>>

LinkCallers == <<
    AddColumns("tool_executions", {}, {"workflow_step_run_id"}),
    Relax("tool_executions", "run_id"),
    UniqueKey("tool_executions", {"workflow_step_run_id"}),
    Ref("tool_executions", Within("workflow_step_run_id", "workflow_step_runs", "cascade")),
    Check("tool_executions", {"exactly_one_caller"}),
    AddColumns("approvals", {}, {"workflow_run_id", "workflow_step_run_id"}),
    UniqueKey("approvals", {"workflow_step_run_id"}),
    Ref("approvals", Within("workflow_run_id", "workflow_runs", "cascade")),
    Ref("approvals", Within("workflow_step_run_id", "workflow_step_runs", "cascade")) >>

UnlinkCallers == <<
    PurgeAll("workflow_runs"),
    PurgeNull("tool_executions", "run_id"),
    DropRef("approvals", Within("workflow_step_run_id", "workflow_step_runs", "cascade")),
    DropRef("approvals", Within("workflow_run_id", "workflow_runs", "cascade")),
    DropKey("approvals", {"workflow_step_run_id"}),
    RemoveColumns("approvals", {"workflow_step_run_id", "workflow_run_id"}),
    DropCheck("tool_executions", {"exactly_one_caller"}),
    DropRef("tool_executions", Within("workflow_step_run_id", "workflow_step_runs", "cascade")),
    DropKey("tool_executions", {"workflow_step_run_id"}),
    Require("tool_executions", "run_id"),
    RemoveColumns("tool_executions", {"workflow_step_run_id"}) >>

RestoreStepRuns ==
    <<DropCheck("workflow_step_runs", {"position_positive"}),
      DropKey("workflow_step_runs", OrgKey),
      DropKey("workflow_step_runs", {"workflow_run_id", "position"}),
      DropKey("workflow_step_runs", {"workflow_run_id", "step_key"}),
      DropRef("workflow_step_runs", Within("agent_run_id", "agent_runs", "null")),
      DropRef("workflow_step_runs", Within("workflow_run_id", "workflow_runs", "cascade")),
      DropRef("workflow_step_runs", Org)>>
    \o Widen("workflow_step_runs", StepStatuses, OldStepStatuses) \o
    <<Require("workflow_step_runs", "workflow_step_id"),
      RemoveColumns("workflow_step_runs",
             {"error_code", "agent_run_id", "position", "step_type", "step_key", "organization_id"}),
      Ref("workflow_step_runs", To("workflow_run_id", "workflow_runs", "cascade"))>>

RestoreRuns ==
    <<DropCheck("workflow_runs", {"workflow_version_positive"}),
      DropCheck("workflow_runs", {"step_count_not_negative"}),
      DropKey("workflow_runs", OrgKey),
      DropKey("workflow_runs", {"organization_id", "idempotency_key"}),
      DropRef("workflow_runs", Within("workflow_id", "workflows", "cascade")),
      DropRef("workflow_runs", To("user_id", "users", "restrict"))>>
    \o Widen("workflow_runs", RunStatuses, OldRunStatuses) \o
    <<RemoveColumns("workflow_runs",
             {"error_code", "request_id", "idempotency_key", "output_data", "input_data",
              "step_count", "current_step", "user_id", "workflow_version"}),
      Ref("workflow_runs", To("workflow_id", "workflows", "cascade"))>>

RestoreWorkflows == <<
    AddColumns("workflows", {}, {"enabled"}),
    DropCheck("workflows", {"version_positive"}),
    DropKey("workflows", OrgKey),
    DropKey("workflows", {"organization_id", "name", "version"}),
    PurgeSuperseded("workflows"),
    UniqueKey("workflows", {"organization_id", "name"}),
    RemoveColumns("workflows", {"definition", "status", "version"}) >>

(* Human in the loop; usage of direct generation.                          *)
Reviewed     == <<AddColumns("approvals", {}, {"summary", "summary_fields", "decision_reason"})>>
\* Fault: one of the three columns is forgotten on the way down.
UndoReviewedInPart == <<RemoveColumns("approvals", {"decision_reason", "summary_fields"})>>
UndoReviewed == <<RemoveColumns("approvals", {"decision_reason", "summary_fields", "summary"})>>

\* Fault: the account takes its usage with it.
UsageGoesWithUser == <<
    Table("generation_usage", {}, {}, {OrgKey}, <<Org, To("user_id", "users", "cascade")>>) >>
Usage == <<
    Table("generation_usage", {}, {}, {OrgKey}, <<Org, To("user_id", "users", "restrict")>>) >>
UndoUsage == <<Drop("generation_usage")>>

(* The chain of revisions: what upgrade() and downgrade() of each run.     *)
Up == << <<>>,
         Platform \o Records \o Chats \o Flows \o Questions \o Turns,
         Customers \o Bills \o Charges,
         RunTables \o ExecutionTables,
         VersionWorkflows \o ReshapeRuns \o ReshapeStepRuns \o LinkCallers,
         Reviewed,
         Usage >>

Down == << <<>>, UndoInitial, UndoBusiness, UndoExecution,
           UnlinkCallers \o RestoreStepRuns \o RestoreRuns \o RestoreWorkflows,
           UndoReviewed, UndoUsage >>

Latest == Len(Up)

-----------------------------------------------------------------------------
(* Rows. Columns absent from v are NULL.                                   *)
Value(r, c)      == IF c \in DOMAIN r.v THEN r.v[c] ELSE "NULL"
Without(r, cols) == [r EXCEPT !.v = [c \in DOMAIN r.v \ cols |-> r.v[c]]]
In(rs, t)        == {q \in DOMAIN rs : rs[q].t = t}

(* What a deletion does. It fires, for each row and in the order their     *)
(* constraints were created, the references to it: cascade deletes the     *)
(* referring rows, whose own events wait for those queued before, null     *)
(* clears the referring columns - all of them, which organization_id does  *)
(* not allow - and restrict refuses. An event is a deleted row and a       *)
(* reference; queue is the deletions whose events have still to fire.      *)
Clears(r) == IF r.tenant THEN {r.col, "organization_id"} ELSE {r.col}

Columns(d)       == UNION {Clears(f.ref) : f \in d.refs}
Events(d, rs)    == (DOMAIN rs) \X d.refs
Deletions(d, rs) == [gone : SUBSET DOMAIN rs, cleared : SUBSET ((DOMAIN rs) \X Columns(d)), ok : BOOLEAN,
                     fired : SUBSET Events(d, rs), queue : Seq(SUBSET DOMAIN rs)]

Due(d, rs, w) == {e \in (Head(w.queue) \X d.refs) \ w.fired : e[2].ref.to = rs[e[1]].t}

First(due) == LET q == CHOOSE x \in {e[1] : e \in due} : TRUE
              IN CHOOSE e \in due : e[1] = q /\ \A f \in due : f[1] = q => e[2].n <= f[2].n

Referring(rs, w, e) ==
    {q \in In(rs, e[2].from) \ w.gone :
        Value(rs[q], e[2].ref.col) = e[1] /\ <<q, e[2].ref.col>> \notin w.cleared}

Fire(d, rs, w) ==
    LET due == Due(d, rs, w)
        e   == First(due)
        f   == e[2]
        hit == Referring(rs, w, e)
        on  == [w EXCEPT !.fired = @ \cup {e}]
    IN CASE due = {} -> [w EXCEPT !.queue = Tail(@)]
         [] due # {} /\ hit = {} -> on
         [] due # {} /\ hit # {} /\ f.ref.on = "cascade" ->
                [on EXCEPT !.gone = @ \cup hit, !.queue = Append(@, hit)]
         [] due # {} /\ hit # {} /\ f.ref.on = "null"
              /\ Clears(f.ref) \cap d.tables[f.from].must = {} ->
                [on EXCEPT !.cleared = @ \cup (hit \X Clears(f.ref))]
         [] OTHER -> [on EXCEPT !.ok = FALSE]

Deleted(d, rs, first) ==
    LET ends[w \in Deletions(d, rs)] == IF w.queue = <<>> \/ ~w.ok THEN w ELSE ends[Fire(d, rs, w)]
    IN ends[[gone |-> first, cleared |-> {}, ok |-> TRUE, fired |-> {}, queue |-> <<first>>]]

Left(rs, w) == [q \in DOMAIN rs \ w.gone |-> Without(rs[q], {c \in DOMAIN rs[q].v : <<q, c>> \in w.cleared})]

Erase(d, rs, first) == LET w == Deleted(d, rs, first) IN [rows |-> Left(rs, w), ok |-> w.ok]

(* A row fits a schema that has its table and columns and all it requires; *)
(* two rows of a table never share a full value of one of its keys; and a  *)
(* row refers, within its tenant if the reference says so, to a row that   *)
(* is there.                                                               *)
Fits(d, r) ==
    /\ r.t \in DOMAIN d.tables
    /\ DOMAIN r.v \subseteq d.tables[r.t].must \cup d.tables[r.t].opt
    /\ d.tables[r.t].must \subseteq DOMAIN r.v

Clash(rs, key, p, q) ==
    /\ rs[p].t = rs[q].t /\ key \subseteq DOMAIN rs[p].v
    /\ \A c \in key : Value(rs[q], c) = rs[p].v[c]

Agree(rs, t, key) == "id" \notin key => \A p, q \in In(rs, t) : p # q => ~Clash(rs, key, p, q)

Refers(rs, q, f) ==
    Value(rs[q], f.col) \in {"NULL"} \cup
        {p \in In(rs, f.to) : f.tenant => Value(rs[p], "organization_id") = Value(rs[q], "organization_id")}

Admitted(d, rs, q) ==
    LET r == rs[q] IN
    /\ Fits(d, r)
    /\ \A key \in d.tables[r.t].keys : Agree(rs, r.t, key)
    /\ \A f \in d.refs : f.from = r.t => Refers(rs, q, f.ref)

-----------------------------------------------------------------------------
(* Whether the database accepts a statement in this schema and these rows. *)
CanRefer(d, r) == r.to \in DOMAIN d.tables /\ (r.tenant => OrgKey \in d.tables[r.to].keys)

Legal(d, rs, o) ==
    LET tab == d.tables[o.t]
        all == tab.must \cup tab.opt
    IN /\ o.op = "table" <=> o.t \notin DOMAIN d.tables
       /\ o.op = "table" => \A i \in DOMAIN o.refs : CanRefer(d, o.refs[i])
       /\ o.op = "drop" => \A f \in d.refs : f.ref.to = o.t => f.from = o.t
       /\ o.op = "add" => (o.must \cup o.opt) \cap all = {} /\ (o.must # {} => In(rs, o.t) = {})
       /\ o.op = "remove" => /\ o.cols \subseteq all
                             /\ o.cols \cap OrgKey # {} => \A f \in d.refs : f.ref.tenant => f.ref.to # o.t
       /\ o.op = "relax" => o.col \in tab.must
       /\ o.op = "require" => o.col \in tab.opt /\ \A q \in In(rs, o.t) : o.col \in DOMAIN rs[q].v
       /\ o.op = "key" => o.key \subseteq all \cup {"id"} /\ Agree(rs, o.t, o.key)
       /\ o.op = "drop_key" => /\ o.key \in tab.keys
                               /\ o.key = OrgKey => \A f \in d.refs : f.ref.tenant => f.ref.to # o.t
       /\ o.op = "ref" => /\ o.ref.col \in all /\ CanRefer(d, o.ref)
                          /\ \A q \in In(rs, o.t) : Refers(rs, q, o.ref)
       /\ o.op = "drop_ref" => \E f \in d.refs : f.from = o.t /\ f.ref = o.ref
       /\ o.op = "drop_check" => <<o.t, o.check>> \in d.checks
       /\ o.op = "empty" => In(rs, o.t) = {}

(* The schema after a statement. Dropping a table or a column takes the    *)
(* keys, references and checks on it along; a new reference comes last.    *)
Altered(tab, o) ==
    CASE o.op = "table"    -> [must |-> o.must, opt |-> o.opt, keys |-> o.keys]
      [] o.op = "add"      -> [must |-> tab.must \cup o.must, opt |-> tab.opt \cup o.opt, keys |-> tab.keys]
      [] o.op = "remove"   -> [must |-> tab.must \ o.cols, opt |-> tab.opt \ o.cols,
                               keys |-> {k \in tab.keys : k \cap o.cols = {}}]
      [] o.op = "relax"    -> [must |-> tab.must \ {o.col}, opt |-> tab.opt \cup {o.col}, keys |-> tab.keys]
      [] o.op = "require"  -> [must |-> tab.must \cup {o.col}, opt |-> tab.opt \ {o.col}, keys |-> tab.keys]
      [] o.op = "key"      -> [must |-> tab.must, opt |-> tab.opt, keys |-> tab.keys \cup {o.key}]
      [] o.op = "drop_key" -> [must |-> tab.must, opt |-> tab.opt, keys |-> tab.keys \ {o.key}]
      [] OTHER -> tab

NewRefs(o) == CASE o.op = "table" -> o.refs [] o.op = "ref" -> <<o.ref>> [] OTHER -> <<>>

DropsRef(o, f) ==
    /\ f.from = o.t
    /\ \/ o.op = "drop"
       \/ o.op = "remove" /\ Clears(f.ref) \cap o.cols # {}
       \/ o.op = "drop_ref" /\ f.ref = o.ref

Alter(d, o) ==
    LET tables == CASE o.op = "table" -> DOMAIN d.tables \cup {o.t}
                    [] o.op = "drop"  -> DOMAIN d.tables \ {o.t}
                    [] OTHER          -> DOMAIN d.tables
        new    == NewRefs(o)
    IN [tables |-> [t \in tables |-> IF t = o.t THEN Altered(d.tables[t], o) ELSE d.tables[t]],
        refs   |-> {f \in d.refs : ~DropsRef(o, f)}
                     \cup {[n |-> d.last + i, from |-> o.t, ref |-> new[i]] : i \in DOMAIN new},
        last   |-> d.last + Len(new),
        checks |-> CASE o.op = "drop"       -> {c \in d.checks : c[1] # o.t}
                     [] o.op = "check"      -> d.checks \cup {<<o.t, o.check>>}
                     [] o.op = "drop_check" -> d.checks \ {<<o.t, o.check>>}
                     [] OTHER               -> d.checks]

(* The rows after it. A row older than the version column is version 1.    *)
VersionOf(r) == IF Value(r, "version") = "2" THEN 2 ELSE 1

Superseded(rs, t) ==
    {p \in In(rs, t) : \E q \in In(rs, t) :
        /\ Value(rs[q], "name") = Value(rs[p], "name")
        /\ Value(rs[q], "organization_id") = Value(rs[p], "organization_id")
        /\ VersionOf(rs[p]) < VersionOf(rs[q])}

Affect(d, rs, o) ==
    CASE o.op = "drop" -> [rows |-> [q \in {p \in DOMAIN rs : rs[p].t # o.t} |-> rs[q]], ok |-> TRUE]
      [] o.op = "remove" -> [rows |-> [q \in DOMAIN rs |->
                                IF rs[q].t = o.t THEN Without(rs[q], o.cols) ELSE rs[q]], ok |-> TRUE]
      [] o.op = "purge" -> Erase(d, rs, {q \in In(rs, o.t) : Value(rs[q], o.null) = "NULL"})
      [] o.op = "superseded" -> Erase(d, rs, Superseded(rs, o.t))
      [] OTHER -> [rows |-> rs, ok |-> TRUE]

Execute(s, o) ==
    IF s.ok /\ Legal(s.d, s.rows, o)
    THEN LET done == Affect(s.d, s.rows, o) IN [d |-> Alter(s.d, o), rows |-> done.rows, ok |-> done.ok]
    ELSE [d |-> s.d, rows |-> s.rows, ok |-> FALSE]

Run(d, rs, ops) ==
    LET after[i \in 0 .. Len(ops)] ==
            IF i = 0 THEN [d |-> d, rows |-> rs, ok |-> TRUE] ELSE Execute(after[i - 1], ops[i])
    IN after[Len(ops)]

Nothing == [tables |-> [t \in {} |-> {}], refs |-> {}, last |-> 0, checks |-> {}]
NoRows  == [q \in {} |-> {}]

(* The schemas a fresh database has, before the first revision and after   *)
(* each.                                                                   *)
FreshUpto[n \in 0 .. Latest] ==
    IF n = 0 THEN <<Nothing>>
    ELSE LET past == FreshUpto[n - 1] IN Append(past, Run(Last(past), NoRows, Up[n]).d)

FreshSchema == FreshUpto[Latest]

-----------------------------------------------------------------------------
(* What the ORM declares, model by model.                                  *)
TenantModels == {
    Table("organizations", {"slug"}, {}, {{"slug"}}, <<>>),
    Table("organization_members", {}, {}, {{"organization_id", "user_id"}},
          <<Org, To("user_id", "users", "cascade")>>) }
UserModel == Table("users", {"email"}, {}, {{"email"}}, <<>>)
AgentModels == {
    Table("agents", {"name"}, {}, {{"organization_id", "name"}}, <<Org>>),
    Table("tools", {"name"}, {}, {{"name"}}, <<>>),
    Table("agent_tools", {}, {}, {{"agent_id", "tool_id"}},
          <<To("agent_id", "agents", "cascade"), To("tool_id", "tools", "cascade")>>) }
ChatModels == {
    Table("conversations", {}, {"agent_id"}, {OrgKey},
          <<Org, To("user_id", "users", "restrict"), To("agent_id", "agents", "cascade")>>),
    Table("messages", {}, {"sequence", "tool_metadata"}, {},
          <<To("conversation_id", "conversations", "cascade")>>) }
RunModels == {
    Table("agent_runs", {"agent_id"}, {"conversation_id", "idempotency_key"},
          {OrgKey, {"organization_id", "idempotency_key"}},
          <<Org, To("user_id", "users", "restrict"), Within("conversation_id", "conversations", "cascade")>>),
    Table("agent_steps", {"step_number"}, {}, {{"run_id", "step_number"}},
          <<Org, Within("run_id", "agent_runs", "cascade")>>) }
ExecutionModel ==
    Table("tool_executions", {"step_number"}, {"run_id", "workflow_step_run_id"},
          {OrgKey, {"run_id", "step_number"}, {"workflow_step_run_id"}},
          <<Org, Within("run_id", "agent_runs", "cascade"),
            Within("workflow_step_run_id", "workflow_step_runs", "cascade")>>)
ApprovalModel ==
    Table("approvals", {},
          {"agent_id", "tool_id", "conversation_id", "approved_by", "run_id", "tool_execution_id", "tool_name",
           "workflow_run_id", "workflow_step_run_id", "summary", "summary_fields", "decision_reason"},
          {{"tool_execution_id"}, {"workflow_step_run_id"}},
          <<Org, To("requested_by", "users", "restrict"), To("agent_id", "agents", "cascade"),
            To("tool_id", "tools", "restrict"), To("conversation_id", "conversations", "cascade"),
            To("approved_by", "users", "null"), Within("run_id", "agent_runs", "cascade"),
            Within("tool_execution_id", "tool_executions", "cascade"),
            Within("workflow_run_id", "workflow_runs", "cascade"),
            Within("workflow_step_run_id", "workflow_step_runs", "cascade")>>)
WorkflowModels == {
    Table("workflows", {"name"}, {"version", "status", "definition"},
          {OrgKey, {"organization_id", "name", "version"}}, <<Org>>),
    Table("workflow_steps", {"step_order"}, {}, {{"workflow_id", "step_order"}},
          <<To("workflow_id", "workflows", "cascade")>>) }
WorkflowRunModel ==
    Table("workflow_runs", {},
          {"workflow_version", "current_step", "step_count", "input_data", "output_data",
           "idempotency_key", "request_id", "error_code"},
          {OrgKey, {"organization_id", "idempotency_key"}},
          <<Org, To("user_id", "users", "restrict"), Within("workflow_id", "workflows", "cascade")>>)
StepRunModel ==
    Table("workflow_step_runs", {"step_key", "step_type", "position"},
          {"workflow_step_id", "agent_run_id", "error_code"},
          {OrgKey, {"workflow_run_id", "step_key"}, {"workflow_run_id", "position"}},
          <<Org, To("workflow_step_id", "workflow_steps", "cascade"),
            Within("workflow_run_id", "workflow_runs", "cascade"),
            Within("agent_run_id", "agent_runs", "null")>>)
BusinessModels == {
    Table("customers", {"reference"}, {}, {OrgKey, {"organization_id", "reference"}}, <<Org>>),
    Table("shipments", {"reference"}, {}, {OrgKey, {"organization_id", "reference"}},
          <<Org, Within("customer_id", "customers", "cascade")>>) }
BillingModels == {
    Table("shipment_charges", {}, {}, {}, <<Org, Within("shipment_id", "shipments", "cascade")>>),
    Table("invoices", {"number"}, {"shipment_id"}, {{"organization_id", "number"}},
          <<Org, Within("customer_id", "customers", "cascade"), Within("shipment_id", "shipments", "cascade")>>) }
DocumentModel ==
    Table("documents", {"storage_key"}, {"uploaded_by"}, {{"storage_key"}},
          <<Org, To("uploaded_by", "users", "null")>>)
AuditModel ==
    Table("audit_events", {}, {"user_id", "resource_id"}, {}, <<Org, To("user_id", "users", "null")>>)
GenerationModel ==
    Table("generation_usage", {}, {}, {OrgKey}, <<Org, To("user_id", "users", "restrict")>>)

Declared == TenantModels \cup AgentModels \cup ChatModels \cup RunModels \cup WorkflowModels
              \cup BusinessModels \cup BillingModels
              \cup {UserModel, ExecutionModel, ApprovalModel, WorkflowRunModel, StepRunModel,
                    DocumentModel, AuditModel, GenerationModel}

-----------------------------------------------------------------------------
(* A row is [id, t, v]; a value that is the id of a row refers to it.       *)
WrittenIds == UNION {{Written[f][i].id : i \in DOMAIN Written[f]} : f \in DOMAIN Written}

SchemaInit ==
    /\ rev = 0 /\ db = Nothing
    /\ rows = NoRows
    /\ refused = {}

(* alembic upgrade +1 and downgrade -1, in one transaction each. Only the  *)
(* order of the references matters, so they are numbered from 1 again.     *)
Renumbered(d) ==
    [tables |-> d.tables,
     refs   |-> {[n |-> Cardinality({g \in d.refs : g.n <= f.n}), from |-> f.from, ref |-> f.ref] : f \in d.refs},
     last   |-> Cardinality(d.refs),
     checks |-> d.checks]

Migrate(ops, to) ==
    LET done == Run(db, rows, ops) IN
    IF done.ok
    THEN /\ rev' = to /\ db' = Renumbered(done.d) /\ rows' = done.rows
         /\ UNCHANGED refused
    ELSE /\ refused' = refused \cup {"migration"}
         /\ UNCHANGED <<rev, db, rows>>

Upgrade   == rev < Latest /\ Migrate(Up[rev + 1], rev + 1)
Downgrade == rev > 0 /\ Migrate(Down[rev], rev - 1)

(* A part of the product is used, if the rows it writes fit the schema.    *)
Use(p) ==
    LET new  == Written[p]
        news == {new[i].id : i \in DOMAIN new}
        all  == [q \in DOMAIN rows \cup news |->
                    IF q \in news THEN LET i == CHOOSE j \in DOMAIN new : new[j].id = q
                                       IN [t |-> new[i].t, v |-> new[i].v]
                    ELSE rows[q]]
    IN /\ news \cap DOMAIN rows = {}
       /\ \A q \in news : Admitted(db, all, q)
       /\ rows' = all
       /\ UNCHANGED <<rev, db, refused>>

(* A row is deleted by hand: a tenant is off-boarded, or a person leaves,  *)
(* which the database may refuse; a refusal of the first is noted.         *)
Delete(t, noted) ==
    \E id \in In(rows, t) :
        LET done == Erase(db, rows, {id}) IN
        IF done.ok THEN rows' = done.rows /\ UNCHANGED <<rev, db, refused>>
                   ELSE refused' = refused \cup noted /\ UNCHANGED <<rev, db, rows>>

SchemaNext ==
    \/ Upgrade
    \/ Downgrade
    \/ \E f \in DOMAIN Written : Use(f)
    \/ Delete("organizations", {"offboarding"})
    \/ Delete("users", {})

SchemaSpec == SchemaInit /\ [][SchemaNext]_schemaVars

-----------------------------------------------------------------------------
(* Every row is one the product wrote, and one the database would admit    *)
(* again, however it was migrated and whatever was deleted since: it fits, *)
(* repeats no key, and what it refers to is there and of its tenant.       *)
RowsAdmitted == \A q \in DOMAIN rows : Admitted(db, rows, q)

SchemaTypeOK ==
    /\ rev \in 0 .. Latest
    /\ DOMAIN rows \subseteq WrittenIds
    /\ RowsAdmitted
    /\ refused \subseteq {"migration", "offboarding"}

Links(d) == {[from |-> f.from, ref |-> f.ref] : f \in d.refs}

AsFresh ==
    /\ db.tables = FreshSchema[rev + 1].tables
    /\ db.checks = FreshSchema[rev + 1].checks
    /\ Links(db) = Links(FreshSchema[rev + 1])

AsDeclared ==
    /\ DOMAIN db.tables = {m.t : m \in Declared}
    /\ \A m \in Declared :
          /\ \/ db.tables[m.t] = [must |-> m.must, opt |-> m.opt, keys |-> m.keys]
             \/ m.t = "agent_tools"               \* its key is the primary key
          /\ {f.ref : f \in {g \in Links(db) : g.from = m.t}} = ToSet(m.refs)

(* A schema is a function of its revision: whatever was migrated up and    *)
(* down before, and whatever it held, it is the one a fresh database has;  *)
(* and at the last revision it is what the models declare - the columns,   *)
(* keys and references of every table, and no other table.                 *)
RoundTrip == AsFresh /\ (rev = Latest => AsDeclared)

(* Every migration applies, in both directions and over the rows of every  *)
(* feature, and off-boarding a tenant is one statement the database takes. *)
StatementsApply == refused = {}

(* A downgrade removes only rows the older schema has no place for - they  *)
(* do not fit, or a row that is kept has their key - and those that belong *)
(* to them.                                                                *)
DowngradeSparesOlderRows ==
    [][rev' < rev =>
        \A q \in DOMAIN rows \ DOMAIN rows' :
            \/ ~Fits(db', rows[q])
            \/ \E p \in DOMAIN rows', key \in db'.tables[rows[q].t].keys : Clash(rows, key, p, q)
            \/ \E c \in DOMAIN rows[q].v : rows[q].v[c] \in DOMAIN rows \ DOMAIN rows']_schemaVars

(* A person leaving must not erase the record of what was asked and done:  *)
(* with the account only its memberships go.                               *)
LeavingErasesNoRecord ==
    [][\A u \in In(rows, "users") \ DOMAIN rows' : rev' = rev =>
          \A q \in DOMAIN rows \ (DOMAIN rows' \cup {u}) : rows[q].t = "organization_members"]_schemaVars

(* alembic/versions/20260915_0753:30-34: the downgrade of the workflow      *)
(* engine removes runs; the definitions survive it.                        *)
DefinitionsSurvive ==
    [][rev' < rev /\ "workflows" \in DOMAIN db'.tables =>
          In(rows, "workflows") \subseteq DOMAIN rows']_schemaVars
=============================================================================
