-------------------------- MODULE RevisionsOffice --------------------------
(***************************************************************************)
(* The first revisions: companies, users and roles, clients, orders and    *)
(* invoices, tiers, tasks, the first workflow engine.                      *)
(*                                                                         *)
(* One definition per revision under alembic/versions: what upgrade() and  *)
(* downgrade() ask of the server, in their order.  Neighbouring statements *)
(* of one kind on one table are written as one.  A revision whose id       *)
(* starts with a digit is named r_<id>; a long upgrade() has a definition  *)
(* of its own.                                                             *)
(***************************************************************************)
EXTENDS SchemaOps

\* initial_schema_with_uuid
f612571eaad0_up ==
  << Create("permission", {"id", "created_at", "name", "resource", "action", "description"}, None),
     Attach("permission", [permission_name_key |-> {"name"}]),
     Create("role", {"id", "created_at", "name", "description", "is_system"}, None),
     Attach("role", [role_name_key |-> {"name"}]),
     Create("tier", {"id", "created_at", "name", "price", "billing_cycle", "features",
       "stripe_price_id", "is_active"}, None),
     Attach("tier", [tier_name_key |-> {"name"}]),
     Create("company", {"id", "created_at", "name", "email", "phone", "active", "start_date",
       "tier_id", "tax_id", "address"}, [tier_id |-> "tier"]),
     Attach("company", [company_name_key |-> {"name"}]),
     Create("role_permission", {"role_id", "permission_id"}, [permission_id |-> "permission",
       role_id |-> "role"]),
     Create("custom_field", {"id", "created_at", "table", "field_name", "field_type", "field_value",
       "company_id"}, [company_id |-> "company"]),
     Create("payment_method", Stamped \cup {"type", "last4", "expiry_month", "expiry_year", "brand",
       "is_default", "is_active", "company_id", "stripe_payment_method_id"},
       [company_id |-> "company"]),
     Attach("payment_method",
       [payment_method_stripe_payment_method_id_key |-> {"stripe_payment_method_id"}]),
     Create("product", {"id", "created_at", "name", "price", "description", "stock", "company_id"},
       [company_id |-> "company"]),
     Create("subscription", Stamped \cup {"status", "billing_type", "current_period_start",
       "current_period_end", "cancel_at_period_end", "canceled_at", "trial_end", "company_id",
       "tier_id", "stripe_subscription_id", "stripe_customer_id"}, [company_id |-> "company",
       tier_id |-> "tier"]),
     Attach("subscription", [subscription_company_id_key |-> {"company_id"},
       subscription_stripe_subscription_id_key |-> {"stripe_subscription_id"}]),
     Create("user", {"id", "created_at", "name", "email", "age", "password_hash", "active",
       "company_id", "is_super_admin"}, [company_id |-> "company"]),
     Attach("user", [user_email_key |-> {"email"}]),
     Create("audit_log", {"id", "created_at", "user_id", "action", "resource_type", "resource_id",
       "details", "ip_address"}, [user_id |-> "user"]),
     Create("billing_invoice", {"id", "created_at", "invoice_number", "invoice_date", "due_date",
       "paid_at", "subtotal", "tax", "total", "status", "payment_type", "manual_payment_method",
       "manual_payment_note", "marked_paid_by_user_id", "subscription_id", "payment_method_id",
       "stripe_invoice_id", "stripe_payment_intent_id", "billing_reason", "notes"},
       [marked_paid_by_user_id |-> "user", payment_method_id |-> "payment_method",
       subscription_id |-> "subscription"]),
     Attach("billing_invoice", [billing_invoice_invoice_number_key |-> {"invoice_number"},
       billing_invoice_stripe_invoice_id_key |-> {"stripe_invoice_id"}]),
     Create("client", {"id", "created_at", "name", "tax_id", "address", "phone", "email", "contact",
       "observations", "company_id", "advisor_id"}, [advisor_id |-> "user",
       company_id |-> "company"]),
     Create("notification", {"id", "created_at", "status", "name", "email", "age", "password_hash",
       "company_id", "user_id"}, [company_id |-> "company", user_id |-> "user"]),
     Attach("notification", [notification_email_key |-> {"email"}]),
     Create("user_invitation", {"id", "created_at", "expires_at", "email", "token", "status",
       "name", "company_id", "invited_by_user_id", "accepted_user_id"},
       [accepted_user_id |-> "user", company_id |-> "company", invited_by_user_id |-> "user"]),
     Attach("user_invitation", [user_invitation_token_key |-> {"token"}]),
     Create("user_role", {"user_id", "role_id"}, [role_id |-> "role", user_id |-> "user"]),
     NewType("recurrenceenum", {"DAILY", "WEEKLY", "MONTHLY", "YEARLY"}),
     NewType("recurringorderstatus", {"ACTIVE", "PAUSED", "INACTIVE", "CANCELLED"}),
     Create("recurring_order", {"id", "created_at", "recurrence", "recurrence_end",
       "last_generated_at", "next_generation_date", "status", "client_id", "company_id"},
       [client_id |-> "client", company_id |-> "company"]),
     Create("user_invitation_role", {"invitation_id", "role_id"},
       [invitation_id |-> "user_invitation", role_id |-> "role"]),
     Create("order", {"id", "created_at", "date", "total", "paid", "generation_date", "company_id",
       "client_id", "recurring_order_id"}, [client_id |-> "client", company_id |-> "company",
       recurring_order_id |-> "recurring_order"]),
     Create("recurring_order_item", {"id", "created_at", "recurring_order_id", "product_id",
       "quantity"}, [product_id |-> "product", recurring_order_id |-> "recurring_order"]),
     Create("invoice", {"id", "created_at", "issue_date", "subtotal", "tax", "total", "details",
       "company_id", "order_id"}, [company_id |-> "company", order_id |-> "order"]),
     Create("order_item", {"id", "created_at", "order_id", "product_id", "quantity"},
       [order_id |-> "order", product_id |-> "product"]) >>

f612571eaad0 == Revision("f612571eaad0", {}, f612571eaad0_up,
    << Drop("order_item"), Drop("invoice"), Drop("recurring_order_item"), Drop("order"),
       Drop("user_invitation_role"), Drop("recurring_order"), Drop("user_role"),
       Drop("user_invitation"), Drop("notification"), Drop("client"), Drop("billing_invoice"),
       Drop("audit_log"), Drop("user"), Drop("subscription"), Drop("product"),
       Drop("payment_method"), Drop("custom_field"), Drop("role_permission"), Drop("company"),
       Drop("tier"), Drop("role"), Drop("permission") >>)

\* Replace CustomField with CustomFieldDefinition and ClientCustomFieldValue tables
r_1e745f682fff == Revision("1e745f682fff", {"f612571eaad0"},
    << NewType("customfieldtype", {"TEXT", "NUMBER", "EMAIL", "PHONE", "URL", "DATE", "BOOLEAN"}),
       Create("custom_field_definition", {"id", "created_at", "field_name", "field_key",
         "field_type", "is_required", "display_order", "company_id"}, [company_id |-> "company"]),
       Create("client_custom_field_value", {"id", "created_at", "value", "client_id",
         "field_definition_id"}, [client_id |-> "client",
         field_definition_id |-> "custom_field_definition"]),
       Drop("custom_field") >>,
    << Create("custom_field", {"id", "created_at", "table", "field_name", "field_type",
         "field_value", "company_id"}, [company_id |-> "company"]),
       Drop("client_custom_field_value"), Drop("custom_field_definition") >>)

\* refactor_order_date_fields_to_due_date_and_payment_date
r_2f76adc5966b == Revision("2f76adc5966b", {"1e745f682fff"},
    << Add("order", {"due_date", "payment_date"}),
       DropCols("order", {"generation_date", "date"}) >>,
    << AddRequired("order", {"date"}),
       Add("order", {"generation_date"}),
       DropCols("order", {"payment_date", "due_date"}) >>)

\* add_is_valid_to_invoice_and_revert_payment_permission
daf2fe3f9539 == Revision("daf2fe3f9539", {"2f76adc5966b"},
    << AddFilled("invoice", {"is_valid"}) >>,
    << DropCols("invoice", {"is_valid"}) >>)

\* change_price_and_monetary_fields_to_float
r_99ec581fb9d3 == Revision("99ec581fb9d3", {"daf2fe3f9539"},
    << Alter("product", {"price"}),
       Alter("order", {"total"}),
       Alter("invoice", {"subtotal", "tax", "total"}) >>,
    << Alter("invoice", {"total", "tax", "subtotal"}),
       Alter("order", {"total"}),
       Alter("product", {"price"}) >>)

\* Use GT Time Zone
r_3896482c00ab == Revision("3896482c00ab", {"99ec581fb9d3"},
    <<>>,
    <<>>)

\* Use GT Time Zone Correctly
c33eed8ebb8d_up ==
  << Alter("audit_log", {"created_at"}),
     Alter("billing_invoice", {"created_at", "invoice_date", "due_date", "paid_at"}),
     Alter("client", {"created_at"}),
     Alter("client_custom_field_value", {"created_at"}),
     Alter("company", {"created_at", "start_date"}),
     Alter("custom_field_definition", {"created_at"}),
     Alter("invoice", {"created_at", "issue_date"}),
     Alter("notification", {"created_at"}),
     Alter("order", {"created_at", "due_date", "payment_date"}),
     Alter("order_item", {"created_at"}),
     Alter("payment_method", {"created_at", "updated_at"}),
     Alter("permission", {"created_at"}),
     Alter("product", {"created_at"}),
     Alter("recurring_order", {"created_at", "recurrence_end", "last_generated_at",
       "next_generation_date"}),
     Alter("recurring_order_item", {"created_at"}),
     Alter("role", {"created_at"}),
     Alter("subscription", {"created_at", "updated_at", "current_period_start",
       "current_period_end", "canceled_at", "trial_end"}),
     Alter("tier", {"created_at"}),
     Alter("user", {"created_at"}),
     Alter("user_invitation", {"created_at", "expires_at"}) >>

c33eed8ebb8d == Revision("c33eed8ebb8d", {"3896482c00ab"}, c33eed8ebb8d_up,
    << Alter("user_invitation", {"expires_at", "created_at"}),
       Alter("user", {"created_at"}),
       Alter("tier", {"created_at"}),
       Alter("subscription", {"trial_end", "canceled_at", "current_period_end",
         "current_period_start", "updated_at", "created_at"}),
       Alter("role", {"created_at"}),
       Alter("recurring_order_item", {"created_at"}),
       Alter("recurring_order", {"next_generation_date", "last_generated_at", "recurrence_end",
         "created_at"}),
       Alter("product", {"created_at"}),
       Alter("permission", {"created_at"}),
       Alter("payment_method", {"updated_at", "created_at"}),
       Alter("order_item", {"created_at"}),
       Alter("order", {"payment_date", "due_date", "created_at"}),
       Alter("notification", {"created_at"}),
       Alter("invoice", {"issue_date", "created_at"}),
       Alter("custom_field_definition", {"created_at"}),
       Alter("company", {"start_date", "created_at"}),
       Alter("client_custom_field_value", {"created_at"}),
       Alter("client", {"created_at"}),
       Alter("billing_invoice", {"paid_at", "due_date", "invoice_date", "created_at"}),
       Alter("audit_log", {"created_at"}) >>)

\* add_status_to_order
r_384a24a274db == Revision("384a24a274db", {"c33eed8ebb8d"},
    << NewType("orderstatus", {"ACTIVE", "CANCELLED"}),
       NeedsType({"orderstatus"}),
       AddFilled("order", {"status"}) >>,
    << DropCols("order", {"status"}), DropType({"orderstatus"}) >>)

\* add_orders_change_status_permission
r_9e6f5200dac4 == Revision("9e6f5200dac4", {"384a24a274db"},
    << Rows([permission |-> {"action", "created_at", "description", "id", "name", "resource"},
         role_permission |-> {"permission_id", "role_id"}, role |-> {"id", "name"}]) >>,
    << Rows([role_permission |-> {"permission_id"}, permission |-> {"id", "name"}]) >>)

\* Task module
r_7ddfc76c44dd == Revision("7ddfc76c44dd", {"9e6f5200dac4"},
    << NewType("taskstatecolor", {"GRAY", "RED", "ORANGE", "YELLOW", "GREEN", "BLUE", "PURPLE",
         "PINK"}),
       Create("task_state", Stamped \cup {"name", "color", "position", "company_id"},
         [company_id |-> "company"]),
       Create("task", Stamped \cup {"name", "description", "position", "due_date", "company_id",
         "task_state_id", "created_by"}, [company_id |-> "company", created_by |-> "user",
         task_state_id |-> "task_state"]),
       Create("task_assignee", {"task_id", "user_id"}, [task_id |-> "task", user_id |-> "user"]) >>,
    << Drop("task_assignee"), Drop("task"), Drop("task_state") >>)

\* Workflow module
r_98df8301ae46 == Revision("98df8301ae46", {"7ddfc76c44dd"},
    << Create("workflow", Stamped \cup {"name", "description", "is_active", "company_id"},
         [company_id |-> "company"]),
       NewType("executionstatus", {"PENDING", "RUNNING", "COMPLETED", "FAILED", "SKIPPED"}),
       Create("workflow_execution", {"id", "created_at", "started_at", "completed_at", "status",
         "trigger_event", "error", "workflow_id"}, [workflow_id |-> "workflow"]),
       NewType("stepactiontype", {"UPDATE_FIELD", "CREATE_ENTITY"}),
       Create("workflow_step", {"id", "created_at", "name", "description", "action_type",
         "action_config", "position_x", "position_y", "workflow_id"}, [workflow_id |-> "workflow"]),
       NewType("triggereventtype", {"CREATED", "UPDATED", "DELETED"}),
       Create("workflow_trigger", {"id", "created_at", "resource_type", "event_type",
         "field_conditions", "workflow_id"}, [workflow_id |-> "workflow"]),
       Create("workflow_step_edge", {"id", "created_at", "from_step_id", "to_step_id",
         "workflow_id"}, [from_step_id |-> "workflow_step", to_step_id |-> "workflow_step",
         workflow_id |-> "workflow"]),
       Create("workflow_step_execution", {"id", "created_at", "started_at", "completed_at",
         "status", "result", "error", "execution_id", "step_id"},
         [execution_id |-> "workflow_execution", step_id |-> "workflow_step"]) >>,
    << Drop("workflow_step_execution"), Drop("workflow_step_edge"), Drop("workflow_trigger"),
       Drop("workflow_step"), Drop("workflow_execution"), Drop("workflow") >>)

\* add pending_role_ids to notifications
r_0f529c470393 == Revision("0f529c470393", {"98df8301ae46"},
    << Add("notification", {"pending_role_ids"}) >>,
    << DropCols("notification", {"pending_role_ids"}) >>)

\* Notification model
r_9464159c360b == Revision("9464159c360b", {"0f529c470393"},
    <<>>,
    <<>>)

\* task_enhancements_and_template
r_77905552a1b8 == Revision("77905552a1b8", {"9464159c360b"},
    << NewTypeMissing("tasklinkedobjecttype", {"CLIENT", "ORDER", "RECURRING_ORDER"}),
       Create("task_template", Stamped \cup {"name", "task_name", "description",
         "due_date_offset_days", "default_assignee_ids", "company_id", "created_by"},
         [company_id |-> "company", created_by |-> "user"]),
       Add("task", {"time_spent_minutes", "linked_object_type", "linked_object_id"}),
       NeedsType({"tasklinkedobjecttype"}) >>,
    << DropCols("task", {"linked_object_id", "linked_object_type", "time_spent_minutes"}),
       Drop("task_template"), DropTypePresent({"tasklinkedobjecttype"}) >>)

\* add_company_id_to_role
b3c4d5e6f7a8 == Revision("b3c4d5e6f7a8", {"77905552a1b8"},
    << Add("role", {"company_id"}),
       Reference("role", [company_id |-> "company"]),
       Attach("role", [ix_role_company_id |-> {"company_id"}]),
       Detach("role", {"role_name_key"}) >>,
    << Detach("role", {"ix_role_company_id"}),
       Unreference("role", {"company_id"}),
       DropCols("role", {"company_id"}),
       Attach("role", [role_name_key |-> {"name"}]) >>)

\* add_linked_object_type_to_task_template
a2f968506210 == Revision("a2f968506210", {"b3c4d5e6f7a8"},
    << NeedsType({"tasklinkedobjecttype"}),
       Add("task_template", {"linked_object_type"}) >>,
    << DropCols("task_template", {"linked_object_type"}) >>)

\* add_integration_table_and_http_request_step_type
c865c4c8e97a == Revision("c865c4c8e97a", {"a2f968506210"},
    << NewType("integrationauthtype", {"NONE", "API_KEY", "BEARER_TOKEN", "BASIC_AUTH"}),
       Create("integration", Stamped \cup {"name", "description", "base_url", "auth_type",
         "credentials", "company_id"}, [company_id |-> "company"]),
       Labels("stepactiontype", {"HTTP_REQUEST"}) >>,
    << Drop("integration"), DropTypePresent({"integrationauthtype"}) >>)

\* add_integrations_permissions
d4e5f6a7b8c9 == Revision("d4e5f6a7b8c9", {"c865c4c8e97a"},
    << Rows([permission |-> {"action", "created_at", "description", "id", "name", "resource"},
         role_permission |-> {"permission_id", "role_id"}, role |-> {"id", "name"}]) >>,
    << Rows([role_permission |-> {"permission_id"}, permission |-> {"id", "name"}]) >>)

\* add_tier_modules_yearly_price_sub_billing_cycle
r_37bcd9539daa == Revision("37bcd9539daa", {"d4e5f6a7b8c9"},
    << AddFilled("subscription", {"billing_cycle"}),
       Add("tier", {"price_yearly", "modules"}),
       Alter("tier", {"price"}) >>,
    << Alter("tier", {"price"}),
       DropCols("tier", {"modules", "price_yearly"}),
       DropCols("subscription", {"billing_cycle"}) >>)

\* add_tier_change_request_table
r_090ee4ba0ead == Revision("090ee4ba0ead", {"37bcd9539daa"},
    << Create("tier_change_request", {"id", "created_at", "company_id", "requested_by_user_id",
         "current_tier_id", "requested_tier_id", "reason", "status", "reviewed_by_user_id",
         "reviewed_at", "note"}, [company_id |-> "company", current_tier_id |-> "tier",
         requested_by_user_id |-> "user", requested_tier_id |-> "tier",
         reviewed_by_user_id |-> "user"]) >>,
    << Drop("tier_change_request") >>)

\* add unique index on order recurring_order_id due_date
f9a8f43a1cbb == Revision("f9a8f43a1cbb", {"090ee4ba0ead"},
    << Rows([order |-> {"created_at", "due_date", "id", "paid", "recurring_order_id", "status"}]),
       Attach("order", [uq_order_active_recurring_due_date |-> {"recurring_order_id", "due_date",
         "status"}]) >>,
    << Detach("order", {"uq_order_active_recurring_due_date"}) >>)

\* add_email_verification_and_password_reset
r_5cc0e3f33187 == Revision("5cc0e3f33187", {"f9a8f43a1cbb"},
    << AddFilled("user", {"email_verified"}),
       Create("email_verification_token", {"id", "created_at", "token", "expires_at", "used_at",
         "last_sent_at", "user_id"}, [user_id |-> "user"]),
       Attach("email_verification_token", [email_verification_token_token_key |-> {"token"}]),
       Create("password_reset_token", {"id", "created_at", "token", "expires_at", "used_at",
         "last_sent_at", "user_id"}, [user_id |-> "user"]),
       Attach("password_reset_token", [password_reset_token_token_key |-> {"token"}]) >>,
    << Drop("password_reset_token"), Drop("email_verification_token"),
       DropCols("user", {"email_verified"}) >>)

\* add tenant (company_id) and hot-path indexes (PERF-1)
a1f2b3c4d5e6 == Revision("a1f2b3c4d5e6", {"5cc0e3f33187"},
    << AttachMissing("client", [ix_client_company_id |-> {"company_id"}]),
       AttachMissing("product", [ix_product_company_id |-> {"company_id"}]),
       AttachMissing("recurring_order", [ix_recurring_order_company_id |-> {"company_id"},
         ix_recurring_order_status_company |-> {"status", "company_id"}]),
       AttachMissing("order", [ix_order_company_id |-> {"company_id"},
         ix_order_company_overdue |-> {"company_id", "due_date", "paid", "status"}]),
       AttachMissing("invoice", [ix_invoice_company_id |-> {"company_id"}]),
       AttachMissing("custom_field_definition",
         [ix_custom_field_definition_company_id |-> {"company_id"}]),
       AttachMissing("task_state", [ix_task_state_company_id |-> {"company_id"}]),
       AttachMissing("task", [ix_task_company_id |-> {"company_id"}]),
       AttachMissing("task_template", [ix_task_template_company_id |-> {"company_id"}]),
       AttachMissing("integration", [ix_integration_company_id |-> {"company_id"}]),
       AttachMissing("workflow", [ix_workflow_company_id |-> {"company_id"}]),
       AttachMissing("notification", [ix_notification_company_id |-> {"company_id"}]),
       AttachMissing("user_invitation", [ix_user_invitation_company_id |-> {"company_id"}]),
       AttachMissing("payment_method", [ix_payment_method_company_id |-> {"company_id"}]),
       AttachMissing("tier_change_request",
         [ix_tier_change_request_company_id |-> {"company_id"}]) >>,
    << DetachPresent("client", {"ix_client_company_id"}),
       DetachPresent("product", {"ix_product_company_id"}),
       DetachPresent("recurring_order", {"ix_recurring_order_company_id",
         "ix_recurring_order_status_company"}),
       DetachPresent("order", {"ix_order_company_id", "ix_order_company_overdue"}),
       DetachPresent("invoice", {"ix_invoice_company_id"}),
       DetachPresent("custom_field_definition", {"ix_custom_field_definition_company_id"}),
       DetachPresent("task_state", {"ix_task_state_company_id"}),
       DetachPresent("task", {"ix_task_company_id"}),
       DetachPresent("task_template", {"ix_task_template_company_id"}),
       DetachPresent("integration", {"ix_integration_company_id"}),
       DetachPresent("workflow", {"ix_workflow_company_id"}),
       DetachPresent("notification", {"ix_notification_company_id"}),
       DetachPresent("user_invitation", {"ix_user_invitation_company_id"}),
       DetachPresent("payment_method", {"ix_payment_method_company_id"}),
       DetachPresent("tier_change_request", {"ix_tier_change_request_company_id"}) >>)

OfficeRevisions ==
  << f612571eaad0, r_1e745f682fff, r_2f76adc5966b, daf2fe3f9539, r_99ec581fb9d3, r_3896482c00ab,
     c33eed8ebb8d, r_384a24a274db, r_9e6f5200dac4, r_7ddfc76c44dd, r_98df8301ae46, r_0f529c470393,
     r_9464159c360b, r_77905552a1b8, b3c4d5e6f7a8, a2f968506210, c865c4c8e97a, d4e5f6a7b8c9,
     r_37bcd9539daa, r_090ee4ba0ead, f9a8f43a1cbb, r_5cc0e3f33187, a1f2b3c4d5e6 >>
=============================================================================
