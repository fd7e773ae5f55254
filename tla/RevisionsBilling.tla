-------------------------- MODULE RevisionsBilling --------------------------
(***************************************************************************)
(* The ISP platform and the billing rework: service plans and services,    *)
(* payments in cents, topologies and device categories.                    *)
(*                                                                         *)
(* One definition per revision under alembic/versions: what upgrade() and  *)
(* downgrade() ask of the server, in their order.  Neighbouring statements *)
(* of one kind on one table are written as one.  A revision whose id       *)
(* starts with a digit is named r_<id>; a long upgrade() has a definition  *)
(* of its own.                                                             *)
(***************************************************************************)
EXTENDS SchemaOps

\* isp platform core: service plans, subscriber services, inventory, topology, provisioning
cd2f0076c709_up ==
  << Labels("tasklinkedobjecttype", {"CLIENT_SERVICE", "INVENTORY_ITEM", "NETWORK_NODE"}),
     Labels("stepactiontype", {"ENQUEUE_PROVISIONING"}),
     Create("workflow_template", {"id", "created_at", "key", "name", "description", "category",
       "definition", "is_active"}, None),
     Attach("workflow_template", [workflow_template_key_key |-> {"key"}]),
     NewType("devicecategory", {"ROUTER", "SWITCH", "OLT", "ONU", "SPLITTER", "SPLICE_CLOSURE",
       "PATCH_PANEL", "ACCESS_POINT", "CPE_ROUTER", "UPS", "ANTENNA", "RADIO", "OTHER"}),
     Create("device_type", Stamped \cup {"name", "category", "vendor", "model", "description",
       "attribute_schema", "default_attributes", "company_id"}, [company_id |-> "company"]),
     Attach("device_type", [ix_device_type_company_id |-> {"company_id"}]),
     Create("warehouse", {"id", "created_at", "name", "address", "is_vehicle", "notes",
       "company_id"}, [company_id |-> "company"]),
     Attach("warehouse", [ix_warehouse_company_id |-> {"company_id"}]),
     Create("network_node_type", {"id", "created_at", "key", "name", "category", "icon",
       "allowed_parent_keys", "attribute_schema", "company_id"}, [company_id |-> "company"]),
     Attach("network_node_type", [uq_network_node_type_company_key |-> {"company_id", "key"},
       ix_network_node_type_company_id |-> {"company_id"}]),
     NewType("serviceplantype", {"FIBER", "CABLE", "WIRELESS", "DSL", "OTHER"}),
     Create("service_plan", Stamped \cup {"name", "description", "plan_type", "download_mbps",
       "upload_mbps", "data_cap_gb", "price", "is_active", "provisioning_params", "company_id",
       "product_id"}, [company_id |-> "company", product_id |-> "product"]),
     Attach("service_plan", [ix_service_plan_company_id |-> {"company_id"}]),
     Create("playbook", Stamped \cup {"name", "description", "version", "target_vendor",
       "target_category", "is_active", "definition", "company_id", "created_by"},
       [company_id |-> "company", created_by |-> "user"]),
     Attach("playbook", [ix_playbook_company_id |-> {"company_id"}]),
     NewType("networknodestatus", {"PLANNED", "ACTIVE", "DEGRADED", "DOWN", "MAINTENANCE"}),
     Create("network_node", Stamped \cup {"name", "status", "latitude", "longitude", "capacity",
       "attributes", "notes", "company_id", "node_type_id", "parent_id", "inventory_item_id"},
       [company_id |-> "company", node_type_id |-> "network_node_type",
       parent_id |-> "network_node"]),
     Attach("network_node", [ix_network_node_company_id |-> {"company_id"},
       ix_network_node_parent_id |-> {"parent_id"}]),
     Create("network_link", {"id", "created_at", "link_type", "attributes", "company_id",
       "from_node_id", "to_node_id"}, [company_id |-> "company", from_node_id |-> "network_node",
       to_node_id |-> "network_node"]),
     Attach("network_link", [ix_network_link_company_id |-> {"company_id"}]),
     NewType("clientservicestatus", {"PENDING_INSTALL", "ACTIVE", "SUSPENDED", "CANCELLED"}),
     Create("client_service", Stamped \cup {"status", "activation_date", "cancelled_at",
       "connection_params", "notes", "company_id", "client_id", "service_plan_id",
       "network_node_id", "recurring_order_id"}, [client_id |-> "client", company_id |-> "company",
       network_node_id |-> "network_node", recurring_order_id |-> "recurring_order",
       service_plan_id |-> "service_plan"]),
     Attach("client_service", [ix_client_service_client_id |-> {"client_id"},
       ix_client_service_company_id |-> {"company_id"},
       ix_client_service_company_status |-> {"company_id", "status"}]),
     NewType("inventoryitemstatus", {"IN_STOCK", "RESERVED", "INSTALLED", "IN_REPAIR", "RETIRED",
       "LOST"}),
     NewType("inventoryitemcondition", {"NEW", "USED", "REFURBISHED", "DAMAGED"}),
     Create("inventory_item", Stamped \cup {"serial_number", "mac_address", "status", "condition",
       "attributes", "purchase_date", "warranty_until", "cost", "notes", "company_id",
       "device_type_id", "warehouse_id", "client_id", "client_service_id", "network_node_id"},
       [client_id |-> "client", client_service_id |-> "client_service", company_id |-> "company",
       device_type_id |-> "device_type", network_node_id |-> "network_node",
       warehouse_id |-> "warehouse"]),
     Attach("inventory_item", [ix_inventory_item_company_id |-> {"company_id"},
       ix_inventory_item_company_status |-> {"company_id", "status"},
       uq_inventory_item_company_serial |-> {"company_id", "serial_number"}]),
     Reference("network_node", [inventory_item_id |-> "inventory_item"]),
     NewType("suspensionreason", {"NON_PAYMENT", "CUSTOMER_REQUEST", "MAINTENANCE", "FRAUD",
       "OTHER"}),
     Create("service_suspension", {"id", "created_at", "suspended_at", "reactivated_at", "reason",
       "note", "company_id", "client_service_id", "created_by"},
       [client_service_id |-> "client_service", company_id |-> "company", created_by |-> "user"]),
     Attach("service_suspension",
       [ix_service_suspension_client_service_id |-> {"client_service_id"},
       ix_service_suspension_company_id |-> {"company_id"}]),
     NewType("equipmenteventtype", {"RECEIVED", "TRANSFERRED", "RESERVED", "INSTALLED", "REPLACED",
       "REMOVED", "REPAIRED", "RETIRED", "MAINTENANCE"}),
     Create("equipment_event", {"id", "created_at", "event_type", "notes", "event_metadata",
       "company_id", "item_id", "related_item_id", "from_warehouse_id", "to_warehouse_id",
       "client_id", "client_service_id", "technician_id"}, [client_id |-> "client",
       client_service_id |-> "client_service", company_id |-> "company",
       from_warehouse_id |-> "warehouse", item_id |-> "inventory_item",
       related_item_id |-> "inventory_item", technician_id |-> "user",
       to_warehouse_id |-> "warehouse"]),
     Attach("equipment_event", [ix_equipment_event_company_id |-> {"company_id"},
       ix_equipment_event_item_id |-> {"item_id"}]),
     NewType("provisioningjobstatus", {"QUEUED", "RUNNING", "SUCCEEDED", "FAILED", "ROLLED_BACK",
       "CANCELLED"}),
     NewType("provisioningtrigger", {"USER", "WORKFLOW", "API"}),
     Create("provisioning_job", {"id", "created_at", "status", "attempts", "max_attempts",
       "idempotency_key", "scheduled_for", "started_at", "finished_at", "variables", "log", "error",
       "triggered_by", "company_id", "playbook_id", "client_service_id", "network_node_id",
       "inventory_item_id", "integration_id", "triggered_by_user_id"},
       [client_service_id |-> "client_service", company_id |-> "company",
       integration_id |-> "integration", inventory_item_id |-> "inventory_item",
       network_node_id |-> "network_node", playbook_id |-> "playbook",
       triggered_by_user_id |-> "user"]),
     Attach("provisioning_job", [ix_provisioning_job_claim |-> {"status", "scheduled_for",
       "created_at"}, ix_provisioning_job_client_service_id |-> {"client_service_id"},
       ix_provisioning_job_company_id |-> {"company_id"},
       uq_provisioning_job_company_idem |-> {"company_id", "idempotency_key", "status"}]),
     NewTypeMissing("serviceavailability", {"UNKNOWN", "SERVICEABLE", "NOT_SERVICEABLE",
       "SURVEY_REQUIRED"}),
     NewTypeMissing("installationstatus", {"NOT_INSTALLED", "SURVEY_SCHEDULED", "INSTALL_SCHEDULED",
       "INSTALLED", "CANCELLED"}),
     Add("client", {"latitude", "longitude", "gps_precision_m", "installation_address",
       "installation_date", "assigned_technician_id"}),
     NeedsType({"serviceavailability", "installationstatus"}),
     AddFilled("client", {"service_availability", "installation_status"}),
     Reference("client", [assigned_technician_id |-> "user"]) >>

cd2f0076c709 == Revision("cd2f0076c709", {"a1f2b3c4d5e6"}, cd2f0076c709_up,
    << Unreference("client", {"assigned_technician_id"}),
       DropCols("client", {"assigned_technician_id", "installation_date", "installation_status",
         "service_availability", "installation_address", "gps_precision_m", "longitude",
         "latitude"}),
       Detach("provisioning_job", {"uq_provisioning_job_company_idem",
         "ix_provisioning_job_company_id", "ix_provisioning_job_client_service_id",
         "ix_provisioning_job_claim"}),
       Drop("provisioning_job"),
       Detach("equipment_event", {"ix_equipment_event_item_id", "ix_equipment_event_company_id"}),
       Drop("equipment_event"),
       Detach("service_suspension", {"ix_service_suspension_company_id",
         "ix_service_suspension_client_service_id"}),
       Drop("service_suspension"),
       Unreference("network_node", {"inventory_item_id"}),
       Detach("inventory_item", {"uq_inventory_item_company_serial",
         "ix_inventory_item_company_status", "ix_inventory_item_company_id"}),
       Drop("inventory_item"),
       Detach("client_service", {"ix_client_service_company_status", "ix_client_service_company_id",
         "ix_client_service_client_id"}),
       Drop("client_service"), Detach("network_link", {"ix_network_link_company_id"}),
       Drop("network_link"),
       Detach("network_node", {"ix_network_node_parent_id", "ix_network_node_company_id"}),
       Drop("network_node"), Detach("playbook", {"ix_playbook_company_id"}), Drop("playbook"),
       Detach("service_plan", {"ix_service_plan_company_id"}), Drop("service_plan"),
       Detach("network_node_type", {"ix_network_node_type_company_id"}),
       Drop("network_node_type"), Detach("warehouse", {"ix_warehouse_company_id"}),
       Drop("warehouse"), Detach("device_type", {"ix_device_type_company_id"}),
       Drop("device_type"), Drop("workflow_template"),
       Rows([role |-> {"company_id", "name"}, permission |-> {"resource"}]),
       DropTypePresent({"provisioningtrigger", "provisioningjobstatus", "equipmenteventtype",
         "inventoryitemcondition", "inventoryitemstatus", "networknodestatus", "suspensionreason",
         "clientservicestatus", "serviceplantype", "devicecategory", "serviceavailability",
         "installationstatus"}) >>)

\* billing rework R1: additive DDL - cents columns, order billing state, snapshots
c1a_billing_ddl == Revision("c1a_billing_ddl", {"cd2f0076c709"},
    << NewTypeMissing("paymentstatus", {"PENDING", "PARTIAL", "PAID", "REFUNDED"}),
       NewTypeMissing("ordertype", {"RECURRING", "ONE_SHOT", "INSTALLATION"}),
       NewTypeMissing("paymentkind", {"PAYMENT", "REFUND"}),
       NewTypeMissing("paymentmethodtype", {"CASH", "TRANSFER", "CARD", "DEPOSIT", "OTHER",
         "LEGACY"}),
       NeedsType({"ordertype", "paymentstatus"}),
       AddFilled("order", {"order_type", "payment_status"}),
       Add("order", {"total_cents", "client_service_id"}),
       Reference("order", [client_service_id |-> "client_service"]),
       Attach("order", [ix_order_client_service_id |-> {"client_service_id"}]),
       Add("order_item", {"unit_price_cents", "product_name"}),
       Nullable("order_item", {"product_id"}),
       Unreference("order_item", {"product_id"}),
       Reference("order_item", [product_id |-> "product"]),
       Add("invoice", {"subtotal_cents", "tax_cents", "total_cents"}),
       Add("product", {"price_cents"}),
       Add("service_plan", {"price_cents"}),
       Add("inventory_item", {"cost_cents"}) >>,
    << DropCols("inventory_item", {"cost_cents"}), DropCols("service_plan", {"price_cents"}),
       DropCols("product", {"price_cents"}),
       DropCols("invoice", {"total_cents", "tax_cents", "subtotal_cents"}),
       Unreference("order_item", {"product_id"}),
       Settled("order_item", {"product_id"}),
       NotNull("order_item", {"product_id"}),
       Reference("order_item", [product_id |-> "product"]),
       DropCols("order_item", {"product_name", "unit_price_cents"}),
       Detach("order", {"ix_order_client_service_id"}),
       Unreference("order", {"client_service_id"}),
       DropCols("order", {"client_service_id", "total_cents", "payment_status", "order_type"}),
       DropTypePresent({"paymentmethodtype", "paymentkind", "ordertype", "paymentstatus"}) >>)

\* billing rework R2: batched cents/status backfill + payments.* permission rows
c1b_backfill_up ==
  << Autocommit,
     Rows([order |-> {"client_service_id", "created_at", "id", "order_type", "paid", "payment_date",
       "payment_status", "recurring_order_id", "total", "total_cents"}, invoice |-> {"created_at",
       "id", "is_valid", "order_id", "subtotal_cents", "tax", "tax_cents", "total", "total_cents"},
       product |-> {"id", "name", "price", "price_cents"}, service_plan |-> {"id", "price",
       "price_cents"}, inventory_item |-> {"cost", "cost_cents", "id"}, order_item |-> {"id",
       "product_id", "product_name", "unit_price_cents"}, client_service |-> {"id",
       "recurring_order_id"}]),
     Transaction,
     Rows([permission |-> {"action", "created_at", "description", "id", "name", "resource"},
       role_permission |-> {"permission_id", "role_id"}, order |-> {"client_service_id",
       "company_id", "order_type", "paid", "payment_date", "payment_status", "recurring_order_id",
       "total", "total_cents"}, invoice |-> {"is_valid", "order_id", "subtotal_cents", "tax_cents",
       "total_cents"}, product |-> {"id", "price", "price_cents"}, service_plan |-> {"price",
       "price_cents"}, inventory_item |-> {"cost", "cost_cents"}, order_item |-> {"product_id",
       "unit_price_cents"}, client_service |-> {"recurring_order_id"}]) >>

c1b_backfill == Revision("c1b_backfill", {"c1a_billing_ddl"}, c1b_backfill_up,
    <<>>)

\* Mutant: the table is created whether or not a half-done run made it.
c1c_payment_table_again ==
  << NeedsType({"paymentkind", "paymentmethodtype"}),
     Create("payment", {"id", "created_at", "company_id", "order_id", "invoice_id", "kind",
       "amount_cents", "method", "reference", "paid_at", "received_by", "reverses_payment_id",
       "notes"}, [company_id |-> "company", order_id |-> "order", invoice_id |-> "invoice",
       received_by |-> "user", reverses_payment_id |-> "payment"]) >>

c1c_payment_table ==
  << NeedsType({"paymentkind", "paymentmethodtype"}),
     CreateMissing("payment", {"id", "created_at", "company_id", "order_id", "invoice_id", "kind",
       "amount_cents", "method", "reference", "paid_at", "received_by", "reverses_payment_id",
       "notes"}, [company_id |-> "company", order_id |-> "order", invoice_id |-> "invoice",
       received_by |-> "user", reverses_payment_id |-> "payment"]) >>

\* billing rework R3: payment ledger table + legacy synthesis + one-valid-invoice rule
c1c_payment_ledger_up == c1c_payment_table \o
  << AttachMissing("payment", [ck_payment_amount_positive |-> {"amount_cents"},
       ck_payment_refund_link |-> {"kind", "reverses_payment_id"},
       ix_payment_company_id |-> {"company_id"}, ix_payment_order_id |-> {"order_id"},
       ix_payment_company_order |-> {"company_id", "order_id"},
       ix_payment_company_paid_at |-> {"company_id", "paid_at"}]),
     Autocommit,
     Rows([payment |-> {"amount_cents", "company_id", "created_at", "id", "invoice_id", "kind",
       "method", "notes", "order_id", "paid_at", "received_by", "reference", "reverses_payment_id"},
       order |-> {"company_id", "created_at", "id", "paid", "payment_date", "total_cents"},
       invoice |-> {"created_at", "id", "is_valid", "order_id"}]),
     AttachMissing("invoice", [uq_invoice_order_valid |-> {"order_id", "is_valid"}]),
     Rows([payment |-> {"amount_cents", "company_id", "created_at", "id", "invoice_id", "kind",
       "method", "notes", "order_id", "paid_at", "received_by", "reference", "reverses_payment_id"},
       order |-> {"company_id", "created_at", "id", "paid", "payment_date", "total_cents"}]),
     Transaction,
     Rows([order |-> {"id", "paid", "total_cents"}, payment |-> {"amount_cents", "order_id",
       "reference"}]) >>

c1c_payment_ledger == Revision("c1c_payment_ledger", {"c1b_backfill"}, c1c_payment_ledger_up,
    << Detach("invoice", {"uq_invoice_order_valid"}),
       Detach("payment", {"ix_payment_company_paid_at", "ix_payment_company_order",
         "ix_payment_order_id", "ix_payment_company_id"}),
       Drop("payment") >>)

\* installation flow: CREATE_ORDER/CREATE_TASK enum values + install-order uniqueness (R-I1)
c1e_install_actions == Revision("c1e_install_actions", {"c1c_payment_ledger"},
    << Autocommit, Labels("stepactiontype", {"CREATE_ORDER", "CREATE_TASK"}), Transaction,
       AttachMissing("order", [uq_order_installation_per_service |-> {"client_service_id",
         "order_type", "status"}]) >>,
    << DetachPresent("order", {"uq_order_installation_per_service"}) >>)

\* grandfather email_verified for users predating login enforcement
c1f_verify_grandfather == Revision("c1f_verify_grandfather", {"c1e_install_actions"},
    << Rows([user |-> {"email_verified"}]) >>,
    <<>>)

\* cycle 2 entity merge R1: catalogkind enum, Product -> ServicePlan absorption, ...
c2a_catalog_merge_up ==
  << NewTypeMissing("catalogkind", {"SERVICE", "INSTALLATION", "HARDWARE"}),
     NeedsType({"catalogkind"}),
     AddFilled("service_plan", {"kind"}),
     Add("service_plan", {"stock", "migration_source"}),
     AttachMissing("service_plan", [uq_service_plan_product |-> {"product_id"}]),
     Add("order_item", {"service_plan_id"}),
     Reference("order_item", [service_plan_id |-> "service_plan"]),
     Attach("order_item", [ix_order_item_service_plan |-> {"service_plan_id"}]),
     Rows([service_plan |-> {"company_id", "created_at", "data_cap_gb", "description",
       "download_mbps", "id", "is_active", "kind", "migration_source", "name", "plan_type", "price",
       "price_cents", "product_id", "stock", "updated_at", "upload_mbps"},
       product |-> {"company_id", "created_at", "description", "id", "name", "price", "price_cents",
       "stock"}, order_item |-> {"product_id", "service_plan_id"}]) >>

c2a_catalog_merge == Revision("c2a_catalog_merge", {"c1f_verify_grandfather"}, c2a_catalog_merge_up,
    << Detach("order_item", {"ix_order_item_service_plan"}),
       Unreference("order_item", {"service_plan_id"}),
       DropCols("order_item", {"service_plan_id"}),
       Rows([service_plan |-> {"id", "migration_source"}, client_service |-> {"service_plan_id"}]),
       DetachPresent("service_plan", {"uq_service_plan_product"}),
       DropCols("service_plan", {"migration_source", "stock", "kind"}),
       DropTypePresent({"catalogkind"}) >>)

\* cycle 2 entity merge R2: ClientService absorbs RecurringOrder billing
c2b_service_billing_up ==
  << NeedsType({"recurrenceenum", "recurringorderstatus"}),
     Add("client_service", {"recurrence", "recurrence_end", "next_generation_date",
       "last_generated_at", "billing_status", "migration_source"}),
     AddFilled("client_service", {"quantity"}),
     Attach("client_service", [ix_client_service_billing_due |-> {"billing_status", "company_id",
       "next_generation_date"}]),
     Rows([client_service |-> {"activation_date", "billing_status", "cancelled_at", "client_id",
       "company_id", "connection_params", "created_at", "id", "last_generated_at",
       "migration_source", "next_generation_date", "notes", "quantity", "recurrence",
       "recurrence_end", "recurring_order_id", "service_plan_id", "status", "updated_at"},
       recurring_order_item |-> {"product_id", "quantity", "recurring_order_id"},
       recurring_order |-> {"client_id", "company_id", "created_at", "id", "last_generated_at",
       "next_generation_date", "recurrence", "recurrence_end", "status"}, service_plan |-> {"id",
       "product_id"}, order |-> {"client_service_id", "due_date", "order_type",
       "recurring_order_id", "status"}]),
     AttachMissing("order", [uq_order_recurring_service_due |-> {"client_service_id", "due_date",
       "status", "order_type"}]),
     Rows([workflow_step |-> {"action_config", "action_type", "id", "workflow_id"},
       recurring_order_item |-> {"product_id", "recurring_order_id"},
       recurring_order |-> {"client_id", "id"}, service_plan |-> {"price_cents", "product_id"},
       client_service |-> {"billing_status", "id", "recurring_order_id"},
       order |-> {"client_service_id", "recurring_order_id", "total_cents"}, product |-> {"id",
       "price", "price_cents"}]) >>

c2b_service_billing == Revision("c2b_service_billing", {"c2a_catalog_merge"}, c2b_service_billing_up,
    << Rows([client_service |-> {"billing_status", "client_id", "company_id", "id",
         "last_generated_at", "migration_source", "next_generation_date", "quantity", "recurrence",
         "recurrence_end", "recurring_order_id", "service_plan_id"},
         recurring_order |-> {"client_id", "company_id", "created_at", "id", "last_generated_at",
         "next_generation_date", "recurrence", "recurrence_end", "status"},
         recurring_order_item |-> {"created_at", "id", "product_id", "quantity",
         "recurring_order_id"}, service_plan |-> {"id", "product_id"},
         order |-> {"client_service_id", "order_type", "recurring_order_id"},
         workflow_step |-> {"action_config", "action_type", "id"},
         service_suspension |-> {"client_service_id"}, inventory_item |-> {"client_service_id"},
         task |-> {"linked_object_id", "linked_object_type"},
         provisioning_job |-> {"client_service_id"}, workflow_template |-> {"definition", "key"}]),
       DetachPresent("order", {"uq_order_recurring_service_due"}),
       Detach("client_service", {"ix_client_service_billing_due"}),
       DropCols("client_service", {"migration_source", "quantity", "billing_status",
         "last_generated_at", "next_generation_date", "recurrence_end", "recurrence"}) >>)

\* cycle 2 topology rework: topology + topology_device_type, client_service.topology_id, ...
c2c_topology == Revision("c2c_topology", {"c2b_service_billing"},
    << Create("topology", Stamped \cup {"name", "description", "is_active", "company_id",
         "playbook_id"}, [company_id |-> "company", playbook_id |-> "playbook"]),
       Attach("topology", [uq_topology_company_name |-> {"company_id", "name"},
         ix_topology_company_id |-> {"company_id"}]),
       Create("topology_device_type", {"id", "created_at", "position", "topology_id",
         "device_type_id"}, [topology_id |-> "topology", device_type_id |-> "device_type"]),
       Attach("topology_device_type", [uq_topology_position |-> {"topology_id", "position"},
         uq_topology_device_type |-> {"topology_id", "device_type_id"}]),
       Add("client_service", {"topology_id"}),
       Reference("client_service", [topology_id |-> "topology"]),
       Attach("client_service", [ix_client_service_topology_id |-> {"topology_id"}]),
       Add("service_plan", {"default_topology_id"}),
       Reference("service_plan", [default_topology_id |-> "topology"]) >>,
    << Unreference("service_plan", {"default_topology_id"}),
       DropCols("service_plan", {"default_topology_id"}),
       Detach("client_service", {"ix_client_service_topology_id"}),
       Unreference("client_service", {"topology_id"}),
       DropCols("client_service", {"topology_id"}), Drop("topology_device_type"),
       Detach("topology", {"ix_topology_company_id"}), Drop("topology") >>)

\* cycle 2 D6: remove the free-form network graph (network_node/network_node_type/network_link)
c2d_graph_removal_up ==
  << Rows([workflow |-> {"id", "is_active"}, tier |-> {"id", "modules"},
       task |-> {"linked_object_id", "linked_object_type"},
       task_template |-> {"linked_object_type"}, workflow_trigger |-> {"resource_type",
       "workflow_id"}, workflow_step |-> {"action_config", "workflow_id"},
       workflow_template |-> {"is_active", "key"}]),
     DropCols("client_service", {"network_node_id"}),
     DropCols("inventory_item", {"network_node_id"}),
     DropCols("provisioning_job", {"network_node_id"}), DropPresent("network_link"),
     DropPresent("network_node"), DropPresent("network_node_type"),
     DropTypePresent({"networknodestatus"}),
     Rows([role_permission |-> {"permission_id"}, permission |-> {"id", "name"}, tier |-> {"id",
       "modules"}]) >>

c2d_graph_removal == Revision("c2d_graph_removal", {"c2c_topology"}, c2d_graph_removal_up,
    << NewTypeMissing("networknodestatus", {"PLANNED", "ACTIVE", "DEGRADED", "DOWN",
         "MAINTENANCE"}),
       NeedsType({"devicecategory", "networknodestatus"}),
       Create("network_node_type", {"id", "created_at", "key", "name", "category", "icon",
         "allowed_parent_keys", "attribute_schema", "company_id"}, [company_id |-> "company"]),
       Attach("network_node_type", [uq_network_node_type_company_key |-> {"company_id", "key"},
         ix_network_node_type_company_id |-> {"company_id"}]),
       Create("network_node", Stamped \cup {"name", "status", "latitude", "longitude", "capacity",
         "attributes", "notes", "company_id", "node_type_id", "parent_id", "inventory_item_id"},
         [company_id |-> "company", node_type_id |-> "network_node_type",
         parent_id |-> "network_node"]),
       Attach("network_node", [ix_network_node_company_id |-> {"company_id"},
         ix_network_node_parent_id |-> {"parent_id"}]),
       Create("network_link", {"id", "created_at", "link_type", "attributes", "company_id",
         "from_node_id", "to_node_id"}, [company_id |-> "company", from_node_id |-> "network_node",
         to_node_id |-> "network_node"]),
       Attach("network_link", [ix_network_link_company_id |-> {"company_id"}]),
       Reference("network_node", [inventory_item_id |-> "inventory_item"]),
       Add("client_service", {"network_node_id"}),
       Reference("client_service", [network_node_id |-> "network_node"]),
       Add("inventory_item", {"network_node_id"}),
       Reference("inventory_item", [network_node_id |-> "network_node"]),
       Add("provisioning_job", {"network_node_id"}),
       Reference("provisioning_job", [network_node_id |-> "network_node"]) >>)

\* cycle 2 run-history durability: workflow_step_execution.step_name + nullable step_id
c2e_step_exec_snapshot == Revision("c2e_step_exec_snapshot", {"c2d_graph_removal"},
    << Add("workflow_step_execution", {"step_name"}),
       Rows([workflow_step_execution |-> {"step_id", "step_name"}, workflow_step |-> {"id",
         "name"}]),
       Unreference("workflow_step_execution", {"step_id"}),
       Nullable("workflow_step_execution", {"step_id"}),
       Reference("workflow_step_execution", [step_id |-> "workflow_step"]),
       Rows([workflow_step_execution |-> {"step_id", "step_name"}, workflow_step |-> {"id"}]) >>,
    Irreversible)

\* cycle 3 E1: topology_playbook (purpose -> playbook map) + backfill + drop topology.playbook_id
c3a_topology_purpose == Revision("c3a_topology_purpose", {"c2e_step_exec_snapshot"},
    << Create("topology_playbook", Stamped \cup {"topology_id", "purpose", "playbook_id"},
         [topology_id |-> "topology", playbook_id |-> "playbook"]),
       Attach("topology_playbook", [ck_topology_playbook_purpose_format |-> {"purpose"},
         uq_topology_playbook_purpose |-> {"topology_id", "purpose"},
         ix_topology_playbook_topology_id |-> {"topology_id"},
         ix_topology_playbook_playbook_id |-> {"playbook_id"}]),
       Rows([topology_playbook |-> {"created_at", "id", "playbook_id", "purpose", "topology_id",
         "updated_at"}, topology |-> {"id", "playbook_id"}]),
       DropCols("topology", {"playbook_id"}) >>,
    << Rows([topology_playbook |-> {"purpose"}]),
       Add("topology", {"playbook_id"}),
       Rows([topology |-> {"id", "playbook_id"}, topology_playbook |-> {"playbook_id", "purpose",
         "topology_id"}]),
       Fill("topology", {"playbook_id"}),
       NotNull("topology", {"playbook_id"}),
       Reference("topology", [playbook_id |-> "playbook"]),
       Detach("topology_playbook", {"ix_topology_playbook_playbook_id",
         "ix_topology_playbook_topology_id"}),
       Drop("topology_playbook") >>)

\* cycle 3 E4: global device_category table, enum -> FK backfill, devicecategory enum drop
c3b_device_categories_up ==
  << Create("device_category", Stamped \cup {"key", "name", "sort_order", "icon", "is_active",
       "is_system"}, None),
     Attach("device_category", [uq_device_category_key |-> {"key"}]),
     Rows([device_category |-> {"created_at", "id", "is_active", "is_system", "key", "name",
       "sort_order", "updated_at"}]),
     Add("device_type", {"category_id"}),
     Rows([device_type |-> {"category", "category_id"}, device_category |-> {"id", "key"}]),
     Fill("device_type", {"category_id"}),
     NotNull("device_type", {"category_id"}),
     Reference("device_type", [category_id |-> "device_category"]),
     Attach("device_type", [ix_device_type_category_id |-> {"category_id"}]),
     DropCols("device_type", {"category"}),
     Add("playbook", {"target_category_id"}),
     Rows([playbook |-> {"target_category", "target_category_id"}, device_category |-> {"id",
       "key"}]),
     Reference("playbook", [target_category_id |-> "device_category"]),
     DropCols("playbook", {"target_category"}), DropTypePresent({"devicecategory"}) >>

c3b_device_categories == Revision("c3b_device_categories", {"c3a_topology_purpose"}, c3b_device_categories_up,
    << Rows([device_category |-> {"id", "is_active", "key", "name"},
         device_type |-> {"category_id"}, playbook |-> {"target_category_id"}]),
       NewTypeMissing("devicecategory", {"ROUTER", "SWITCH", "OLT", "ONU", "SPLITTER",
         "SPLICE_CLOSURE", "PATCH_PANEL", "ACCESS_POINT", "CPE_ROUTER", "UPS", "ANTENNA", "RADIO",
         "OTHER"}),
       NeedsType({"devicecategory"}),
       Add("device_type", {"category"}),
       Rows([device_type |-> {"category", "category_id"}, device_category |-> {"id", "key"}]),
       Fill("device_type", {"category"}),
       NotNull("device_type", {"category"}),
       Unreference("device_type", {"category_id"}),
       Detach("device_type", {"ix_device_type_category_id"}),
       DropCols("device_type", {"category_id"}), NeedsType({"devicecategory"}),
       Add("playbook", {"target_category"}),
       Rows([playbook |-> {"target_category", "target_category_id"}, device_category |-> {"id",
         "key"}]),
       Unreference("playbook", {"target_category_id"}),
       DropCols("playbook", {"target_category_id"}), Drop("device_category") >>)

\* cycle 4: insight_dashboard + insight_chart tables
c4a_insights_dashboards == Revision("c4a_insights_dashboards", {"c3b_device_categories"},
    << Create("insight_dashboard", Stamped \cup {"name", "ordering", "company_id"},
         [company_id |-> "company"]),
       Attach("insight_dashboard", [uq_insight_dashboard_company_name |-> {"company_id", "name"},
         ix_insight_dashboard_company_id |-> {"company_id"}]),
       NewType("insightcharttype", {"NUMBER", "BAR", "PIE"}),
       Create("insight_chart", Stamped \cup {"title", "chart_type", "spec", "ordering",
         "dashboard_id"}, [dashboard_id |-> "insight_dashboard"]),
       Attach("insight_chart", [ix_insight_chart_dashboard_id |-> {"dashboard_id"}]) >>,
    << Detach("insight_chart", {"ix_insight_chart_dashboard_id"}), Drop("insight_chart"),
       DropTypePresent({"insightcharttype"}),
       Detach("insight_dashboard", {"ix_insight_dashboard_company_id"}),
       Drop("insight_dashboard") >>)

\* cycle 4: drop client.installation_address
c4b_drop_installation_address == Revision("c4b_drop_installation_address", {"c4a_insights_dashboards"},
    << DropCols("client", {"installation_address"}) >>,
    << Add("client", {"installation_address"}) >>)

BillingRevisions ==
  << cd2f0076c709, c1a_billing_ddl, c1b_backfill, c1c_payment_ledger, c1e_install_actions,
     c1f_verify_grandfather, c2a_catalog_merge, c2b_service_billing, c2c_topology,
     c2d_graph_removal, c2e_step_exec_snapshot, c3a_topology_purpose, c3b_device_categories,
     c4a_insights_dashboards, c4b_drop_installation_address >>
=============================================================================
