------------------------------ MODULE MCSchema ------------------------------
(* Small instances of Schema: the rows of each part of the product.        *)
EXTENDS Schema, TLC

\* The rows one use of each part of the product writes.
Row(id, t, v) == [id |-> id, t |-> t, v |-> v]

Uses == [
    tenant |-> <<
        Row("org", "organizations", [slug |-> "acme"]),
        Row("user", "users", [email |-> "u@acme"]),
        Row("boss", "users", [email |-> "b@acme"]),
        Row("seat", "organization_members", [organization_id |-> "org", user_id |-> "boss"]),
        Row("event", "audit_events", [organization_id |-> "org", user_id |-> "boss"]) >>,
    chat |-> <<                          \* before runs were durable a conversation named its agent
        Row("agent", "agents", [organization_id |-> "org", name |-> "a"]),
        Row("chat", "conversations", [organization_id |-> "org", user_id |-> "user", agent_id |-> "agent"]),
        Row("turn", "messages", [conversation_id |-> "chat"]) >>,
    agent |-> <<                         \* an agent, and the business it works on
        Row("customer", "customers", [organization_id |-> "org", reference |-> "c"]),
        Row("shipment", "shipments", [organization_id |-> "org", reference |-> "s", customer_id |-> "customer"]),
        Row("charge", "shipment_charges", [organization_id |-> "org", shipment_id |-> "shipment"]),
        Row("invoice", "invoices", [organization_id |-> "org", number |-> "i", customer_id |-> "customer",
                                    shipment_id |-> "shipment"]),
        Row("talk", "conversations", [organization_id |-> "org", user_id |-> "user"]),
        Row("said", "messages", [conversation_id |-> "talk"]),
        Row("run", "agent_runs", [organization_id |-> "org", user_id |-> "user", agent_id |-> "platform",
                                  conversation_id |-> "talk"]),
        Row("step", "agent_steps", [organization_id |-> "org", run_id |-> "run", step_number |-> "1"]),
        Row("call", "tool_executions", [organization_id |-> "org", run_id |-> "run", step_number |-> "1"]),
        Row("asked", "approvals", [organization_id |-> "org", requested_by |-> "user", approved_by |-> "boss",
                                   conversation_id |-> "talk", run_id |-> "run", tool_execution_id |-> "call"]) >>,
    workflow |-> <<
        Row("v1", "workflows", [organization_id |-> "org", name |-> "w", version |-> "1"]),
        Row("v2", "workflows", [organization_id |-> "org", name |-> "w", version |-> "2"]),
        Row("flow", "workflow_runs", [organization_id |-> "org", user_id |-> "user", workflow_id |-> "v2"]),
        Row("talk2", "conversations", [organization_id |-> "org", user_id |-> "user"]),
        Row("run2", "agent_runs", [organization_id |-> "org", user_id |-> "user", agent_id |-> "platform",
                                   conversation_id |-> "talk2"]),
        Row("ask", "workflow_step_runs", [organization_id |-> "org", workflow_run_id |-> "flow", step_key |-> "ask",
                                          step_type |-> "agent_step", position |-> "1", agent_run_id |-> "run2"]),
        Row("act", "workflow_step_runs", [organization_id |-> "org", workflow_run_id |-> "flow", step_key |-> "act",
                                          step_type |-> "tool_call", position |-> "2"]),
        Row("acted", "tool_executions", [organization_id |-> "org", step_number |-> "2", workflow_step_run_id |-> "act"]),
        Row("gate", "approvals", [organization_id |-> "org", requested_by |-> "user", tool_execution_id |-> "acted",
                                  workflow_run_id |-> "flow", workflow_step_run_id |-> "act"]) >>,
    generation |-> <<
        Row("spent", "generation_usage", [organization_id |-> "org", user_id |-> "user"]) >> ]
=============================================================================
