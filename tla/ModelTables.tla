---------------------------- MODULE ModelTables ----------------------------
(***************************************************************************)
(* The SQLAlchemy models (database_utils/models): for every mapped class   *)
(* its table, its columns (those of Base and the mixins too), the table    *)
(* each foreign key points at, its unique columns and the names of the     *)
(* indexes and constraints it declares (index=True by the name SQLAlchemy  *)
(* gives it); for every Python enum stored in a native type, the labels it *)
(* writes. Relationships, properties and column types are left out.        *)
(***************************************************************************)
EXTENDS SchemaOps

Model(table, cols, refs, unique, on) ==
  [table |-> table, cols |-> cols, refs |-> refs @@ None, unique |-> unique, on |-> on]
Enum(type, labels) == [type |-> type, labels |-> labels]

RolePermission == Model("role_permission", {"role_id", "permission_id"}, [role_id |-> "role",
    permission_id |-> "permission"], {}, {})
UserRole == Model("user_role", {"user_id", "role_id"}, [user_id |-> "user", role_id |-> "role"], {},
    {})
UserInvitationRole == Model("user_invitation_role", {"invitation_id", "role_id"},
    [invitation_id |-> "user_invitation", role_id |-> "role"], {}, {})
Tier == Model("tier", {"id", "created_at", "name", "price", "price_yearly", "billing_cycle",
    "features", "modules", "stripe_price_id", "recurrente_product_id", "recurrente_price_id",
    "recurrente_price_yearly_id", "included_clients", "extra_client_price", "quote_above_clients",
    "is_active"}, None, {"name"}, {})
Company == Model("company", {"id", "created_at", "name", "email", "phone", "active", "start_date",
    "tier_id", "tax_id", "address", "recurrente_customer_id", "mobile_settings", "dunning_settings",
    "provisioning_zone", "workflow_daily_message_cap"}, [tier_id |-> "tier"], {"name"}, {})
Permission == Model("permission", {"id", "created_at", "name", "resource", "action", "description"},
    None, {"name"}, {})
Role == Model("role", {"id", "created_at", "name", "description", "is_system", "company_id"},
    [company_id |-> "company"], {}, {"ix_role_company_id"})
User == Model("user", {"id", "created_at", "name", "email", "age", "password_hash", "active",
    "email_verified", "phone", "photo_url", "home_latitude", "home_longitude", "company_id",
    "is_super_admin", "is_system"}, [company_id |-> "company"], {"email"}, {})
Notification == Model("notification", {"id", "created_at", "status", "name", "email", "age",
    "password_hash", "pending_role_ids", "company_id", "user_id"}, [company_id |-> "company",
    user_id |-> "user"], {"email"}, {"ix_notification_company_id"})
UserNotification == Model("user_notification", {"id", "created_at", "kind", "entity_type",
    "entity_id", "dedupe_key", "payload", "read_at", "push_state", "company_id", "user_id"},
    [company_id |-> "company", user_id |-> "user"], {}, {"ck_user_notification_kind",
    "uq_user_notification_dedupe", "ix_user_notification_feed",
    "ix_user_notification_push_pending"})
UserPushToken == Model("user_push_token", Stamped \cup {"token", "platform", "app", "company_id",
    "user_id"}, [company_id |-> "company", user_id |-> "user"], {"token"},
    {"ck_user_push_token_platform", "ck_user_push_token_app", "ix_user_push_token_user_id"})
AuditLog == Model("audit_log", {"id", "created_at", "user_id", "action", "resource_type",
    "resource_id", "details", "ip_address"}, [user_id |-> "user"], {}, {"ix_audit_log_created_at"})
UserInvitation == Model("user_invitation", {"id", "created_at", "expires_at", "email", "token",
    "status", "name", "phone", "company_id", "invited_by_user_id", "accepted_user_id"},
    [company_id |-> "company", invited_by_user_id |-> "user", accepted_user_id |-> "user"],
    {"token"}, {"ix_user_invitation_company_id"})
EmailVerificationToken == Model("email_verification_token", {"id", "created_at", "token",
    "expires_at", "used_at", "last_sent_at", "user_id"}, [user_id |-> "user"], {"token"}, {})
PasswordResetToken == Model("password_reset_token", {"id", "created_at", "token", "expires_at",
    "used_at", "last_sent_at", "user_id"}, [user_id |-> "user"], {"token"}, {})
RefreshToken == Model("auth_refresh_token", {"jti", "family_id", "user_id", "company_id",
    "client_type", "issued_at", "expires_at", "rotated_at", "replaced_by", "revoked_at"},
    [user_id |-> "user", company_id |-> "company"], {}, {"ck_auth_refresh_token_client_type",
    "ix_auth_refresh_token_family_id", "ix_auth_refresh_token_user_id",
    "ix_auth_refresh_token_expires_at"})
Subscription == Model("subscription", Stamped \cup {"status", "billing_type", "billing_cycle",
    "current_period_start", "current_period_end", "cancel_at_period_end", "canceled_at",
    "trial_end", "company_id", "tier_id", "stripe_subscription_id", "stripe_customer_id",
    "recurrente_subscription_id", "recurrente_checkout_id", "card_last4", "card_brand",
    "discount_percent", "discount_until", "billing_note", "period_peak_clients",
    "custom_monthly_price", "limit_overrides", "recurrente_payment_method_id"},
    [company_id |-> "company", tier_id |-> "tier"], {"company_id", "stripe_subscription_id",
    "recurrente_subscription_id"}, {"ck_subscription_discount_percent"})
PaymentMethod == Model("payment_method", Stamped \cup {"type", "last4", "expiry_month",
    "expiry_year", "brand", "is_default", "is_active", "company_id", "stripe_payment_method_id"},
    [company_id |-> "company"], {"stripe_payment_method_id"}, {"ix_payment_method_company_id"})
BillingInvoice == Model("billing_invoice", {"id", "created_at", "invoice_number", "invoice_date",
    "due_date", "paid_at", "subtotal", "tax", "total", "status", "payment_type",
    "manual_payment_method", "manual_payment_note", "marked_paid_by_user_id", "subscription_id",
    "payment_method_id", "stripe_invoice_id", "stripe_payment_intent_id", "recurrente_intent_id",
    "recurrente_checkout_id", "billing_reason", "notes", "period_start", "period_end",
    "billed_clients"}, [marked_paid_by_user_id |-> "user", subscription_id |-> "subscription",
    payment_method_id |-> "payment_method"], {"invoice_number", "stripe_invoice_id",
    "recurrente_intent_id"}, {"ix_billing_invoice_recurrente_checkout_id"})
BillingWebhookEvent == Model("billing_webhook_event", {"svix_id", "event_type", "created_at"}, None,
    {}, {})
TaskAssignee == Model("task_assignee", {"task_id", "user_id", "role"}, [task_id |-> "task",
    user_id |-> "user"], {}, {"ck_task_assignee_role"})
Client == Model("client", {"id", "created_at", "name", "tax_id", "address", "phone", "email",
    "contact", "observations", "latitude", "longitude", "gps_precision_m", "service_availability",
    "payment_day", "code", "dpi", "deactivated_at", "deactivation_reason", "company_id",
    "advisor_id", "assigned_technician_id"}, [company_id |-> "company", advisor_id |-> "user",
    assigned_technician_id |-> "user"], {}, {"uq_client_company_dpi", "ix_client_company_active",
    "ck_client_payment_day_range", "uq_client_company_code", "ix_client_company_id"})
Order == Model("order", {"id", "created_at", "due_date", "payment_date", "total", "total_cents",
    "paid", "status", "order_type", "payment_status", "company_id", "client_id",
    "client_service_id"}, [company_id |-> "company", client_id |-> "client",
    client_service_id |-> "client_service"], {}, {"ix_order_company_overdue",
    "uq_order_installation_per_service", "uq_order_recurring_service_due",
    "ix_order_company_client", "ix_order_open_receivables", "ix_order_company_id",
    "ix_order_client_service_id"})
OrderItem == Model("order_item", {"id", "created_at", "order_id", "service_plan_id", "quantity",
    "unit_price_cents", "product_name"}, [order_id |-> "order", service_plan_id |-> "service_plan"],
    {}, {"ix_order_item_service_plan"})
Invoice == Model("invoice", {"id", "created_at", "issue_date", "subtotal", "tax", "total",
    "subtotal_cents", "tax_cents", "total_cents", "details", "is_valid", "company_id", "order_id"},
    [company_id |-> "company", order_id |-> "order"], {}, {"uq_invoice_order_valid",
    "ix_invoice_company_id"})
Payment == Model("payment", {"id", "created_at", "company_id", "order_id", "invoice_id", "kind",
    "amount_cents", "method", "reference", "paid_at", "received_by", "reverses_payment_id", "notes",
    "idempotency_key", "allocation_id", "cash_session_id"}, [company_id |-> "company",
    order_id |-> "order", invoice_id |-> "invoice", received_by |-> "user",
    reverses_payment_id |-> "payment", cash_session_id |-> "cash_session"], {},
    {"ck_payment_amount_positive", "ck_payment_refund_link", "ix_payment_company_order",
    "ix_payment_company_paid_at", "ix_payment_company_allocation", "ix_payment_cash_session",
    "ix_payment_company_received_paid", "uq_payment_company_idem", "ix_payment_company_id",
    "ix_payment_order_id"})
CustomFieldDefinition == Model("custom_field_definition", {"id", "created_at", "field_name",
    "field_key", "field_type", "is_required", "display_order", "company_id"},
    [company_id |-> "company"], {}, {"ix_custom_field_definition_company_id"})
ClientCustomFieldValue == Model("client_custom_field_value", {"id", "created_at", "value",
    "client_id", "field_definition_id"}, [client_id |-> "client",
    field_definition_id |-> "custom_field_definition"], {}, {})
Task == Model("task", Stamped \cup {"name", "description", "position", "due_date",
    "time_spent_minutes", "linked_object_type", "linked_object_id", "scheduled_date", "job_kind",
    "status", "route_sequence", "latitude", "longitude", "started_at", "completed_at",
    "step_progress", "client_id", "client_service_id", "device_category_id", "inventory_item_id",
    "parent_item_id", "onu_auto_assigned", "address", "company_id", "created_by"},
    [client_id |-> "client", client_service_id |-> "client_service",
    device_category_id |-> "device_category", inventory_item_id |-> "inventory_item",
    parent_item_id |-> "inventory_item", company_id |-> "company", created_by |-> "user"], {},
    {"ix_task_company_scheduled_date", "ix_task_company_client", "ix_task_company_job_kind",
    "ix_task_company_due_date", "ix_task_company_status", "ck_task_status", "ix_task_company_id"})
TaskMaterial == Model("task_material", Stamped \cup {"quantity", "consumed_quantity", "shortfall",
    "consumed_at", "company_id", "task_id", "device_type_id", "updated_by"},
    [company_id |-> "company", task_id |-> "task", device_type_id |-> "device_type",
    updated_by |-> "user"], {}, {"ck_task_material_quantity_positive", "uq_task_material_task_type",
    "ix_task_material_company_task"})
TaskTemplate == Model("task_template", Stamped \cup {"name", "task_name", "description",
    "due_date_offset_days", "default_assignee_ids", "linked_object_type", "company_id",
    "created_by"}, [company_id |-> "company", created_by |-> "user"], {},
    {"ix_task_template_company_id"})
Integration == Model("integration", Stamped \cup {"name", "description", "base_url", "auth_type",
    "credentials", "enabled", "provider", "company_id"}, [company_id |-> "company"], {},
    {"ix_integration_company_id"})
UploadedFile == Model("uploaded_file", {"id", "created_at", "owner_type", "owner_id", "kind",
    "storage_key", "content_type", "size_bytes", "idempotency_key", "company_id", "uploaded_by"},
    [company_id |-> "company", uploaded_by |-> "user"], {}, {"ix_uploaded_file_owner",
    "uq_uploaded_file_company_idem", "ix_uploaded_file_company_id"})
CollectionRoute == Model("collection_route", {"id", "created_at", "route_date", "status",
    "company_id", "collector_id"}, [company_id |-> "company", collector_id |-> "user"], {},
    {"ix_collection_route_company_date", "ix_collection_route_company_id",
    "ix_collection_route_collector_id"})
RouteStop == Model("route_stop", {"id", "created_at", "sequence", "status", "route_id",
    "client_id"}, [route_id |-> "collection_route", client_id |-> "client"], {},
    {"ix_route_stop_route_id", "ix_route_stop_client_id"})
CollectionVisit == Model("collection_visit", {"id", "created_at", "outcome", "visit_code",
    "promise_date", "note", "route_stop_id", "payment_id", "signature_file_id", "created_by"},
    [route_stop_id |-> "route_stop", payment_id |-> "payment",
    signature_file_id |-> "uploaded_file", created_by |-> "user"], {},
    {"ix_collection_visit_route_stop_id"})
CollectionArea == Model("collection_area", Stamped \cup {"name", "color", "polygon", "company_id",
    "collector_id"}, [company_id |-> "company", collector_id |-> "user"], {},
    {"uq_collection_area_company_name", "uq_collection_area_collector",
    "ix_collection_area_company_id"})
CashSession == Model("cash_session", {"id", "opened_at", "closed_at", "counted_cash_cents",
    "status", "opening_cents", "deposited_at", "deposited_cents", "deposit_reference",
    "closed_expected_cash_cents", "reopen_count", "submitted_at", "reviewed_at", "review_note",
    "company_id", "collector_id", "route_id", "deposit_slip_photo_id", "reviewed_by"},
    [company_id |-> "company", collector_id |-> "user", route_id |-> "collection_route",
    deposit_slip_photo_id |-> "uploaded_file", reviewed_by |-> "user"], {},
    {"ix_cash_session_company_collector", "ix_cash_session_company_status",
    "ck_cash_session_opening_nonneg", "ix_cash_session_company_id", "ix_cash_session_collector_id"})
CashMovement == Model("cash_movement", {"id", "created_at", "amount_cents", "note", "company_id",
    "cash_session_id", "created_by"}, [company_id |-> "company", cash_session_id |-> "cash_session",
    created_by |-> "user"], {}, {"ck_cash_movement_amount_positive",
    "ix_cash_movement_cash_session_id"})
TaskCloseout == Model("task_closeout", {"id", "created_at", "checklist_state", "serial_number",
    "device_match", "gps_lat", "gps_lng", "gps_accuracy_m", "gps_captured_at", "signer_name",
    "signer_id_number", "submitted_at", "task_id", "technician_id", "signature_file_id"},
    [task_id |-> "task", technician_id |-> "user", signature_file_id |-> "uploaded_file"],
    {"task_id"}, {"ix_task_closeout_technician_id"})
ServicePlanDeviceCategory == Model("service_plan_device_category", {"service_plan_id",
    "device_category_id"}, [service_plan_id |-> "service_plan",
    device_category_id |-> "device_category"], {}, {})
ServiceDeviceCategory == Model("service_device_category", {"service_id", "device_category_id"},
    [service_id |-> "service", device_category_id |-> "device_category"], {}, {})
Service == Model("service", Stamped \cup {"company_id", "name", "service_type",
    "network_automation"}, [company_id |-> "company"], {}, {"uq_service_company_name",
    "ix_service_company_id"})
ServicePlan == Model("service_plan", Stamped \cup {"name", "description", "plan_type",
    "download_mbps", "upload_mbps", "data_cap_gb", "price", "price_cents", "service_group",
    "installation_price_cents", "is_active", "provisioning_params", "kind", "stock",
    "migration_source", "service_id", "network_automation", "company_id"},
    [service_id |-> "service", company_id |-> "company"], {}, {"ix_service_plan_company_group",
    "ix_service_plan_service_id", "ix_service_plan_company_id"})
ClientService == Model("client_service", Stamped \cup {"status", "activation_date", "cancelled_at",
    "connection_params", "provisioning_params", "notes", "provisioning_state", "install_state",
    "installed_at", "path_changed_at", "adopted_at", "adoption_note", "recurrence",
    "recurrence_end", "next_generation_date", "last_generated_at", "billing_status", "quantity",
    "migration_source", "company_id", "client_id", "service_plan_id", "cpe_item_id",
    "adopted_by_user_id"}, [company_id |-> "company", client_id |-> "client",
    service_plan_id |-> "service_plan", cpe_item_id |-> "inventory_item",
    adopted_by_user_id |-> "user"], {}, {"ix_client_service_company_status",
    "ix_client_service_cpe_item_id", "ix_client_service_billing_due",
    "ix_client_service_company_install_state", "ix_client_service_adopted",
    "ck_client_service_install_state", "ix_client_service_company_id",
    "ix_client_service_client_id"})
ServiceSuspension == Model("service_suspension", {"id", "created_at", "suspended_at",
    "reactivated_at", "reason", "note", "company_id", "client_service_id", "created_by"},
    [company_id |-> "company", client_service_id |-> "client_service", created_by |-> "user"], {},
    {"ix_service_suspension_company_id", "ix_service_suspension_client_service_id"})
PaymentPromise == Model("payment_promise", {"id", "created_at", "promised_date", "source", "status",
    "reconnected", "company_id", "client_id", "client_service_id", "suspension_id",
    "created_by_user_id"}, [company_id |-> "company", client_id |-> "client",
    client_service_id |-> "client_service", suspension_id |-> "service_suspension",
    created_by_user_id |-> "user"], {}, {"uq_payment_promise_open_service",
    "ix_payment_promise_open_date", "ix_payment_promise_service"})
DunningRun == Model("dunning_run", {"id", "ran_at", "mode", "outcome", "candidates", "suspended",
    "skipped", "company_id"}, [company_id |-> "company"], {}, {"ix_dunning_run_company_ran_at",
    "ck_dunning_run_mode"})
DeviceCategory == Model("device_category", Stamped \cup {"key", "name", "sort_order", "icon",
    "is_active", "is_system", "tier", "is_passive"}, None, {"key"}, {"ck_device_category_tier"})
DeviceType == Model("device_type", Stamped \cup {"name", "category_id", "vendor", "model",
    "description", "attribute_schema", "default_attributes", "provisioning_enabled", "cli_platform",
    "is_serialized", "unit", "port_template", "path_role", "company_id"},
    [category_id |-> "device_category", company_id |-> "company"], {},
    {"ck_device_type_ports_serialized", "ix_device_type_company_id"})
Warehouse == Model("warehouse", {"id", "created_at", "name", "address", "is_vehicle", "notes",
    "latitude", "longitude", "company_id"}, [company_id |-> "company"], {},
    {"ix_warehouse_company_id"})
InventoryItem == Model("inventory_item", Stamped \cup {"serial_number", "mac_address", "oui",
    "status", "condition", "attributes", "purchase_date", "warranty_until", "cost", "cost_cents",
    "notes", "received_at", "mgmt_host", "mgmt_port", "cli_protocol", "mgmt_last_check_at",
    "mgmt_last_check_ok", "nat_port", "mgmt_host_key", "quantity", "label", "company_id",
    "device_type_id", "warehouse_id", "client_id", "client_service_id", "custodian_user_id",
    "parent_id", "network_attached", "latitude", "longitude", "gps_precision_m"},
    [company_id |-> "company", device_type_id |-> "device_type", warehouse_id |-> "warehouse",
    client_id |-> "client", client_service_id |-> "client_service", custodian_user_id |-> "user",
    parent_id |-> "inventory_item"], {}, {"uq_inventory_item_id_company",
    "uq_inventory_item_company_serial", "ix_inventory_item_company_status",
    "ck_inventory_item_cli_protocol", "ck_inventory_item_nat_port", "ck_inventory_item_mgmt_port",
    "uq_inventory_item_company_nat_port", "ck_inventory_item_parent_attached",
    "ck_inventory_item_not_self_parent", "ix_inventory_item_company_attached",
    "ck_inventory_item_quantity_positive", "ix_inventory_item_company_device_type",
    "ix_inventory_item_company_custodian", "ix_inventory_item_company_id",
    "ix_inventory_item_parent_id"})
InventoryItemPort == Model("inventory_item_port", Stamped \cup {"company_id", "item_id", "name",
    "slot", "number", "medium", "direction", "origin"}, [company_id |-> "company",
    item_id |-> "inventory_item"], {}, {"uq_item_port_identity", "ck_item_port_slot",
    "ck_item_port_number", "ck_item_port_medium", "ck_item_port_direction", "ck_item_port_origin",
    "uq_item_port_name", "uq_item_port_pon_number", "ix_item_port_company"})
NetworkLink == Model("network_link", Stamped \cup {"company_id", "up_item_id", "up_port_id",
    "down_item_id", "down_port_id", "source", "task_id", "created_by_id"},
    [company_id |-> "company", task_id |-> "task", created_by_id |-> "user",
    up_port_id |-> "inventory_item_port", down_item_id |-> "inventory_item",
    down_port_id |-> "inventory_item_port"], {}, {"uq_link_up_port", "uq_link_down_port",
    "uq_link_down_item", "ck_link_not_self", "ck_link_source", "ix_network_link_up_item",
    "ix_network_link_company"})
EquipmentEvent == Model("equipment_event", {"id", "created_at", "event_type", "notes",
    "event_metadata", "company_id", "item_id", "related_item_id", "from_warehouse_id",
    "to_warehouse_id", "client_id", "client_service_id", "technician_id"},
    [company_id |-> "company", item_id |-> "inventory_item", related_item_id |-> "inventory_item",
    from_warehouse_id |-> "warehouse", to_warehouse_id |-> "warehouse", client_id |-> "client",
    client_service_id |-> "client_service", technician_id |-> "user"], {},
    {"ix_equipment_event_company_id", "ix_equipment_event_item_id"})
Playbook == Model("playbook", Stamped \cup {"name", "description", "version", "is_active",
    "definition", "last_dry_run_version", "company_id", "created_by"}, [company_id |-> "company",
    created_by |-> "user"], {}, {"ix_playbook_company_id"})
DeviceTypePlaybook == Model("device_type_playbook", Stamped \cup {"company_id", "device_type_id",
    "purpose", "playbook_id"}, [company_id |-> "company", device_type_id |-> "device_type",
    playbook_id |-> "playbook"], {}, {"uq_device_type_playbook_purpose",
    "ix_device_type_playbook_company_id", "ix_device_type_playbook_playbook_id"})
InventoryItemPlaybook == Model("inventory_item_playbook", Stamped \cup {"company_id",
    "inventory_item_id", "purpose", "playbook_id"}, [company_id |-> "company",
    inventory_item_id |-> "inventory_item", playbook_id |-> "playbook"], {},
    {"uq_item_playbook_purpose", "ix_inventory_item_playbook_company_id",
    "ix_inventory_item_playbook_playbook_id"})
ProvisioningRun == Model("provisioning_run", Stamped \cup {"finished_at", "purpose", "dry_run",
    "status", "path", "plan", "frames", "idempotency_key", "triggered_by", "phase", "mode",
    "guided_timeout_seconds", "error_code", "error", "outputs", "secrets_ciphertext",
    "secrets_dek_wrapped", "secrets_kek_id", "company_id", "client_service_id",
    "triggered_by_user_id", "workflow_execution_id"}, [company_id |-> "company",
    client_service_id |-> "client_service", triggered_by_user_id |-> "user"], {},
    {"uq_provisioning_run_company_idem", "ix_provisioning_run_service",
    "ix_provisioning_run_company_created", "ck_provisioning_run_phase",
    "ix_provisioning_run_company_id", "ix_provisioning_run_client_service_id"})
ProvisioningJob == Model("provisioning_job", {"id", "created_at", "status", "attempts",
    "max_attempts", "idempotency_key", "scheduled_for", "started_at", "finished_at", "variables",
    "log", "error", "triggered_by", "dry_run", "pending_step_index", "pending_task_ids",
    "heartbeat_at", "device_lock_key", "claim_token", "phase", "company_id", "playbook_id",
    "client_service_id", "inventory_item_id", "integration_id", "triggered_by_user_id", "run_id",
    "run_position"}, [company_id |-> "company", playbook_id |-> "playbook",
    client_service_id |-> "client_service", inventory_item_id |-> "inventory_item",
    integration_id |-> "integration", triggered_by_user_id |-> "user",
    run_id |-> "provisioning_run"], {}, {"ix_provisioning_job_claim",
    "uq_provisioning_job_company_idem", "uq_provisioning_job_device_lock",
    "ck_provisioning_job_phase", "ix_provisioning_job_company_id",
    "ix_provisioning_job_client_service_id", "ix_provisioning_job_run_id"})
ProvisioningEvent == Model("provisioning_event", {"id", "company_id", "kind", "run_id", "job_id",
    "payload", "created_at", "processed_at", "attempts", "last_error"}, [company_id |-> "company"],
    {}, {"ix_provisioning_event_pending"})
ServiceBoost == Model("service_boost", Stamped \cup {"company_id", "client_service_id", "extra_mb",
    "base_download_mbps", "base_upload_mbps", "boost_download_mbps", "boost_upload_mbps",
    "starts_at", "expires_at", "status", "end_reason", "start_run_id", "end_run_id",
    "workflow_execution_id", "end_attempts", "ended_at"}, [company_id |-> "company",
    client_service_id |-> "client_service"], {}, {"uq_service_boost_open", "ix_service_boost_due",
    "ix_service_boost_company_id", "ix_service_boost_client_service_id"})
DeviceCredential == Model("device_credential", Stamped \cup {"name", "kind", "username",
    "secret_ciphertext", "dek_wrapped", "kek_id", "fingerprint", "last_rotated_at", "company_id",
    "inventory_item_id", "device_type_id"}, [company_id |-> "company",
    inventory_item_id |-> "inventory_item", device_type_id |-> "device_type"], {},
    {"uq_device_credential_company_name", "ck_device_credential_kind",
    "ix_device_credential_company_id", "ix_device_credential_inventory_item_id",
    "ix_device_credential_device_type_id"})
AcsDeviceRegistration == Model("acs_device_registration", Stamped \cup {"company_id",
    "inventory_item_id", "serial_number", "oui", "first_inform_at", "last_inform_at",
    "genieacs_device_id", "cwmp_cr_username", "cwmp_cr_secret_ciphertext", "cwmp_cr_dek_wrapped",
    "cwmp_cr_kek_id", "created_by_user_id"}, [company_id |-> "company",
    inventory_item_id |-> "inventory_item", created_by_user_id |-> "user"], {},
    {"uq_acs_registration_identity", "uq_acs_registration_serial_no_oui",
    "ix_acs_device_registration_company_id"})
ProvisioningSettings == Model("provisioning_settings", Stamped \cup {"company_id", "enabled",
    "default_inform_interval", "dial_target", "proxy_kind", "proxy_address", "gateway_host",
    "acs_base_url", "acs_auth_required", "cwmp_credential_id", "cwmp_pending_credential_id"},
    [company_id |-> "company", cwmp_credential_id |-> "device_credential",
    cwmp_pending_credential_id |-> "device_credential"], {"company_id"},
    {"ck_provisioning_settings_dial_target", "ck_provisioning_settings_proxy_kind",
    "ck_provisioning_settings_proxy_address", "ck_provisioning_settings_gateway_host",
    "ck_provisioning_settings_cwmp_pair"})
DeviceActionLog == Model("device_action_log", {"id", "created_at", "company_id", "actor_user_id",
    "actor_kind", "device_kind", "device_identity", "action", "before_data", "after_data",
    "provisioning_job_id", "detail"}, [company_id |-> "company", actor_user_id |-> "user",
    provisioning_job_id |-> "provisioning_job"], {}, {"ix_device_action_log_company_created",
    "ix_device_action_log_company_id"})
InsightDashboard == Model("insight_dashboard", Stamped \cup {"name", "ordering",
    "default_time_range", "company_id"}, [company_id |-> "company"], {},
    {"uq_insight_dashboard_company_name", "ix_insight_dashboard_company_id"})
InsightChart == Model("insight_chart", Stamped \cup {"title", "chart_type", "spec", "viz",
    "ordering", "dashboard_id"}, [dashboard_id |-> "insight_dashboard"], {},
    {"ix_insight_chart_dashboard_id"})
PaymentLink == Model("payment_link", Stamped \cup {"company_id", "client_id", "order_id",
    "integration_id", "provider", "status", "amount_cents", "currency", "payment_methods",
    "expires_at", "checkout_id", "checkout_url", "live_mode", "last_checked_at", "checks",
    "intent_id", "payment_id", "paid_at", "review_reason", "wa_integration_id", "wa_to",
    "notified_at"}, [company_id |-> "company", client_id |-> "client", order_id |-> "order",
    integration_id |-> "integration", payment_id |-> "payment",
    wa_integration_id |-> "integration"], {}, {"ix_payment_link_company_status",
    "ix_payment_link_order", "uq_payment_link_checkout", "uq_payment_link_intent",
    "uq_payment_link_active_order", "ix_payment_link_company_id", "ix_payment_link_client_id"})
WhatsAppBotConfig == Model("whatsapp_bot_config", Stamped \cup {"company_id", "enabled",
    "welcome_text", "menu_button_text", "options"}, [company_id |-> "company"], {},
    {"uq_whatsapp_bot_config_company"})
Workflow == Model("workflow", Stamped \cup {"name", "description", "is_active", "company_id",
    "engine_version", "active_version_id", "source_template_key", "source_template_version",
    "template_params", "ignored_template_version"}, [company_id |-> "company",
    active_version_id |-> "workflow_version"], {}, {"ix_workflow_company_id"})
WorkflowTrigger == Model("workflow_trigger", {"id", "created_at", "resource_type", "event_type",
    "field_conditions", "workflow_id"}, [workflow_id |-> "workflow"], {}, {})
WorkflowStep == Model("workflow_step", {"id", "created_at", "name", "description", "action_type",
    "action_config", "position_x", "position_y", "workflow_id"}, [workflow_id |-> "workflow"], {},
    {})
WorkflowStepEdge == Model("workflow_step_edge", {"id", "created_at", "from_step_id", "to_step_id",
    "workflow_id"}, [from_step_id |-> "workflow_step", to_step_id |-> "workflow_step",
    workflow_id |-> "workflow"], {}, {})
WorkflowExecution == Model("workflow_execution", Stamped \cup {"started_at", "completed_at",
    "status", "trigger_event", "error", "workflow_id", "company_id", "version_id", "definition",
    "dedupe_key", "depth", "is_test", "test_options", "context", "cursor", "resume_at",
    "claim_token", "heartbeat_at", "client_id", "client_service_id", "customer_message",
    "error_code", "awaited_key", "cancel_requested_at", "cancel_code", "outbox_delivered"},
    [workflow_id |-> "workflow", company_id |-> "company", version_id |-> "workflow_version"], {},
    {"uq_workflow_execution_dedupe", "ix_workflow_execution_runnable",
    "uq_workflow_execution_awaited", "ix_workflow_execution_company_id",
    "ix_workflow_execution_client_id", "ix_workflow_execution_client_service_id"})
WorkflowStepExecution == Model("workflow_step_execution", {"id", "created_at", "started_at",
    "completed_at", "status", "result", "error", "step_name", "node_key", "action_key", "attempts",
    "simulated", "input", "error_code", "resume_at", "messages_sent", "execution_id", "step_id"},
    [execution_id |-> "workflow_execution", step_id |-> "workflow_step"], {},
    {"uq_step_execution_node", "ix_step_execution_messages", "ix_step_execution_sent"})
WorkflowVersion == Model("workflow_version", Stamped \cup {"published_at", "workflow_id",
    "company_id", "number", "status", "definition", "trigger_type", "trigger_key",
    "source_template_version", "created_by", "published_by"}, [workflow_id |-> "workflow",
    company_id |-> "company", created_by |-> "user", published_by |-> "user"], {},
    {"uq_workflow_version_number", "uq_workflow_version_draft", "ix_workflow_version_trigger",
    "ix_workflow_version_workflow_id", "ix_workflow_version_company_id"})
AutomationTemplate == Model("automation_template", {"id", "created_at", "key", "version", "name",
    "description", "category", "changelog", "params", "requires", "definition", "checksum"}, None,
    {}, {"uq_automation_template_key_version"})
WorkflowEvent == Model("workflow_event", {"id", "company_id", "name", "payload", "depth",
    "source_run_id", "created_at", "processed_at", "attempts", "last_error"},
    [company_id |-> "company"], {}, {"ix_workflow_event_pending"})

\* Base.metadata: every mapped table.
Models == {RolePermission, UserRole, UserInvitationRole, Tier, Company, Permission, Role, User,
  Notification, UserNotification, UserPushToken, AuditLog, UserInvitation, EmailVerificationToken,
  PasswordResetToken, RefreshToken, Subscription, PaymentMethod, BillingInvoice,
  BillingWebhookEvent, TaskAssignee, Client, Order, OrderItem, Invoice, Payment,
  CustomFieldDefinition, ClientCustomFieldValue, Task, TaskMaterial, TaskTemplate, Integration,
  UploadedFile, CollectionRoute, RouteStop, CollectionVisit, CollectionArea, CashSession,
  CashMovement, TaskCloseout, ServicePlanDeviceCategory, ServiceDeviceCategory, Service,
  ServicePlan, ClientService, ServiceSuspension, PaymentPromise, DunningRun, DeviceCategory,
  DeviceType, Warehouse, InventoryItem, InventoryItemPort, NetworkLink, EquipmentEvent, Playbook,
  DeviceTypePlaybook, InventoryItemPlaybook, ProvisioningRun, ProvisioningJob, ProvisioningEvent,
  ServiceBoost, DeviceCredential, AcsDeviceRegistration, ProvisioningSettings, DeviceActionLog,
  InsightDashboard, InsightChart, PaymentLink, WhatsAppBotConfig, Workflow, WorkflowTrigger,
  WorkflowStep, WorkflowStepEdge, WorkflowExecution, WorkflowStepExecution, WorkflowVersion,
  AutomationTemplate, WorkflowEvent}

RecurrenceEnum == Enum("recurrenceenum", {"DAILY", "WEEKLY", "MONTHLY", "YEARLY"})
RecurringOrderStatus == Enum("recurringorderstatus", {"ACTIVE", "PAUSED", "INACTIVE", "CANCELLED"})
OrderStatus == Enum("orderstatus", {"ACTIVE", "CANCELLED"})
PaymentStatus == Enum("paymentstatus", {"PENDING", "PARTIAL", "PAID", "REFUNDED"})
OrderType == Enum("ordertype", {"RECURRING", "ONE_SHOT", "INSTALLATION"})
PaymentKind == Enum("paymentkind", {"PAYMENT", "REFUND"})
PaymentMethodType == Enum("paymentmethodtype", {"CASH", "TRANSFER", "CARD", "DEPOSIT", "OTHER",
    "LEGACY"})
CustomFieldType == Enum("customfieldtype", {"TEXT", "NUMBER", "EMAIL", "PHONE", "URL", "DATE",
    "BOOLEAN"})
TaskJobKind == Enum("taskjobkind", {"INSTALL", "FAULT", "CHANGE", "REMOVE", "SUSPEND",
    "MAINTENANCE", "RELOCATION", "RECONNECT"})
TaskLinkedObjectType == Enum("tasklinkedobjecttype", {"CLIENT", "ORDER", "CLIENT_SERVICE",
    "INVENTORY_ITEM"})
ServiceAvailability == Enum("serviceavailability", {"UNKNOWN", "SERVICEABLE", "NOT_SERVICEABLE",
    "SURVEY_REQUIRED"})
IntegrationAuthType == Enum("integrationauthtype", {"NONE", "API_KEY", "BEARER_TOKEN",
    "BASIC_AUTH"})
UploadedFileOwnerType == Enum("uploadedfileownertype", {"TASK_CLOSEOUT", "COLLECTION_VISIT",
    "CASH_SESSION", "PAYMENT", "PAYMENT_LINK"})
UploadedFileKind == Enum("uploadedfilekind", {"PHOTO", "SIGNATURE"})
CollectionRouteStatus == Enum("collectionroutestatus", {"OPEN", "CLOSED"})
RouteStopStatus == Enum("routestopstatus", {"PENDING", "VISITED", "NO_CONTACT"})
CollectionVisitOutcome == Enum("collectionvisitoutcome", {"PAID", "PARTIAL", "NO_CONTACT"})
CollectionVisitCode == Enum("collectionvisitcode", {"noOneHome", "promise", "refused", "complaint",
    "moved"})
CashSessionStatus == Enum("cashsessionstatus", {"OPEN", "CLOSED", "DEPOSITED", "SUBMITTED",
    "REJECTED", "APPROVED"})
ServicePlanType == Enum("serviceplantype", {"FIBER", "CABLE", "WIRELESS", "DSL", "OTHER"})
CatalogKind == Enum("catalogkind", {"SERVICE", "INSTALLATION", "HARDWARE"})
ClientServiceStatus == Enum("clientservicestatus", {"PENDING_INSTALL", "ACTIVE", "SUSPENDED",
    "CANCELLED"})
SuspensionReason == Enum("suspensionreason", {"NON_PAYMENT", "CUSTOMER_REQUEST", "MAINTENANCE",
    "FRAUD", "OTHER"})
InventoryItemStatus == Enum("inventoryitemstatus", {"IN_STOCK", "RESERVED", "INSTALLED",
    "IN_REPAIR", "RETIRED", "LOST"})
InventoryItemCondition == Enum("inventoryitemcondition", {"NEW", "USED", "REFURBISHED", "DAMAGED"})
EquipmentEventType == Enum("equipmenteventtype", {"RECEIVED", "TRANSFERRED", "RESERVED",
    "INSTALLED", "REPLACED", "REMOVED", "REPAIRED", "RETIRED", "MAINTENANCE", "CONSUMED",
    "RELEASED"})
ProvisioningJobStatus == Enum("provisioningjobstatus", {"QUEUED", "RUNNING", "SUCCEEDED", "FAILED",
    "ROLLED_BACK", "CANCELLED", "PENDING_INFORM", "PENDING_MANUAL"})
ProvisioningTrigger == Enum("provisioningtrigger", {"USER", "WORKFLOW", "API"})
InsightChartType == Enum("insightcharttype", {"NUMBER", "BAR", "PIE", "LINE"})
PaymentPromiseSource == Enum("paymentpromisesource", {"PORTAL", "COLLECTOR", "BOT", "OFFICE"})
PaymentPromiseStatus == Enum("paymentpromisestatus", {"OPEN", "KEPT", "BROKEN", "CANCELLED"})
DunningRunOutcome == Enum("dunningrunoutcome", {"OK", "TRIPPED"})
TriggerEventType == Enum("triggereventtype", {"CREATED", "UPDATED", "DELETED"})
StepActionType == Enum("stepactiontype", {"UPDATE_FIELD", "CREATE_ENTITY", "HTTP_REQUEST",
    "ENQUEUE_PROVISIONING", "CREATE_ORDER", "CREATE_TASK"})
ExecutionStatus == Enum("executionstatus", {"PENDING", "RUNNING", "COMPLETED", "FAILED", "SKIPPED",
    "WAITING", "CANCELLED"})

Enums == {RecurrenceEnum, RecurringOrderStatus, OrderStatus, PaymentStatus, OrderType, PaymentKind,
  PaymentMethodType, CustomFieldType, TaskJobKind, TaskLinkedObjectType, ServiceAvailability,
  IntegrationAuthType, UploadedFileOwnerType, UploadedFileKind, CollectionRouteStatus,
  RouteStopStatus, CollectionVisitOutcome, CollectionVisitCode, CashSessionStatus, ServicePlanType,
  CatalogKind, ClientServiceStatus, SuspensionReason, InventoryItemStatus, InventoryItemCondition,
  EquipmentEventType, ProvisioningJobStatus, ProvisioningTrigger, InsightChartType,
  PaymentPromiseSource, PaymentPromiseStatus, DunningRunOutcome, TriggerEventType, StepActionType,
  ExecutionStatus}
=============================================================================
