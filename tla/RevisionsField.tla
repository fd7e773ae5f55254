--------------------------- MODULE RevisionsField ---------------------------
(***************************************************************************)
(* Field work: routes and cash sessions, task links, inventory, transports *)
(* as an axis of their own, the four built-in roles, the legacy drop.      *)
(*                                                                         *)
(* One definition per revision under alembic/versions: what upgrade() and  *)
(* downgrade() ask of the server, in their order.  Neighbouring statements *)
(* of one kind on one table are written as one.  A revision whose id       *)
(* starts with a digit is named r_<id>; a long upgrade() has a definition  *)
(* of its own.                                                             *)
(***************************************************************************)
EXTENDS SchemaOps

\* uplink-mobile: collection_route / route_stop / collection_visit / cash_session
rs1_route_cash == Revision("rs1_route_cash", {"uf1_uploaded_file"},
    << NewType("collectionroutestatus", {"OPEN", "CLOSED"}),
       Create("collection_route", {"id", "created_at", "route_date", "status", "company_id",
         "collector_id"}, [company_id |-> "company", collector_id |-> "user"]),
       Attach("collection_route", [ix_collection_route_company_id |-> {"company_id"},
         ix_collection_route_collector_id |-> {"collector_id"},
         ix_collection_route_company_date |-> {"company_id", "route_date"}]),
       NewType("routestopstatus", {"PENDING", "VISITED", "NO_CONTACT"}),
       Create("route_stop", {"id", "created_at", "sequence", "status", "route_id", "client_id"},
         [route_id |-> "collection_route", client_id |-> "client"]),
       Attach("route_stop", [ix_route_stop_route_id |-> {"route_id"},
         ix_route_stop_client_id |-> {"client_id"}]),
       NewType("collectionvisitoutcome", {"PAID", "PARTIAL", "NO_CONTACT"}),
       NewType("collectionvisitcode", {"noOneHome", "promise", "refused", "complaint", "moved"}),
       Create("collection_visit", {"id", "created_at", "outcome", "visit_code", "promise_date",
         "note", "route_stop_id", "payment_id", "signature_file_id", "created_by"},
         [route_stop_id |-> "route_stop", payment_id |-> "payment",
         signature_file_id |-> "uploaded_file", created_by |-> "user"]),
       Attach("collection_visit", [ix_collection_visit_route_stop_id |-> {"route_stop_id"}]),
       NewType("cashsessionstatus", {"OPEN", "CLOSED"}),
       Create("cash_session", {"id", "opened_at", "closed_at", "counted_cash_cents", "status",
         "company_id", "collector_id", "route_id", "deposit_slip_photo_id"},
         [company_id |-> "company", collector_id |-> "user", route_id |-> "collection_route",
         deposit_slip_photo_id |-> "uploaded_file"]),
       Attach("cash_session", [ix_cash_session_company_id |-> {"company_id"},
         ix_cash_session_collector_id |-> {"collector_id"},
         ix_cash_session_company_collector |-> {"company_id", "collector_id"}]) >>,
    << Detach("cash_session", {"ix_cash_session_company_collector", "ix_cash_session_collector_id",
         "ix_cash_session_company_id"}),
       Drop("cash_session"), DropTypePresent({"cashsessionstatus"}),
       Detach("collection_visit", {"ix_collection_visit_route_stop_id"}),
       Drop("collection_visit"),
       DropTypePresent({"collectionvisitcode", "collectionvisitoutcome"}),
       Detach("route_stop", {"ix_route_stop_client_id", "ix_route_stop_route_id"}),
       Drop("route_stop"), DropTypePresent({"routestopstatus"}),
       Detach("collection_route", {"ix_collection_route_company_date",
         "ix_collection_route_collector_id", "ix_collection_route_company_id"}),
       Drop("collection_route"), DropTypePresent({"collectionroutestatus"}) >>)

\* uplink-mobile: task_closeout + Task.scheduled_date/job_kind
tc1_task_closeout == Revision("tc1_task_closeout", {"rs1_route_cash"},
    << NewTypeMissing("taskjobkind", {"INSTALL", "FAULT", "CHANGE", "REMOVE"}),
       Add("task", {"scheduled_date", "job_kind"}),
       NeedsType({"taskjobkind"}),
       Attach("task", [ix_task_company_scheduled_date |-> {"company_id", "scheduled_date"}]),
       Create("task_closeout", {"id", "created_at", "checklist_state", "serial_number",
         "device_match", "gps_lat", "gps_lng", "gps_accuracy_m", "gps_captured_at", "signer_name",
         "signer_id_number", "submitted_at", "task_id", "technician_id", "signature_file_id"},
         [task_id |-> "task", technician_id |-> "user", signature_file_id |-> "uploaded_file"]),
       Attach("task_closeout", [uq_task_closeout_task_id |-> {"task_id"},
         ix_task_closeout_technician_id |-> {"technician_id"}]) >>,
    << Detach("task_closeout", {"ix_task_closeout_technician_id"}), Drop("task_closeout"),
       Detach("task", {"ix_task_company_scheduled_date"}),
       DropCols("task", {"job_kind", "scheduled_date"}), DropTypePresent({"taskjobkind"}) >>)

\* uplink-mobile: Payment.idempotency_key
pi1_payment_idem == Revision("pi1_payment_idem", {"tc1_task_closeout"},
    << Add("payment", {"idempotency_key"}),
       Attach("payment", [uq_payment_company_idem |-> {"company_id", "idempotency_key"}]) >>,
    << Detach("payment", {"uq_payment_company_idem"}), DropCols("payment", {"idempotency_key"}) >>)

\* deactivate Free and Trial tiers (Recurrente paywall)
r_6e7506e57be9 == Revision("6e7506e57be9", {"pi1_payment_idem"},
    << Rows([tier |-> {"is_active", "name"}]) >>,
    << Rows([tier |-> {"is_active", "name"}]) >>)

\* Configuraci?n/Perfil: user.phone, user.photo_url, user_invitation.phone
cfg1_user_profile == Revision("cfg1_user_profile", {"6e7506e57be9"},
    << AddMissing("user", {"phone", "photo_url"}),
       AddMissing("user_invitation", {"phone"}) >>,
    << DropColsPresent("user_invitation", {"phone"}),
       DropColsPresent("user", {"photo_url", "phone"}) >>)

\* Configuraci?n/Planes de servicios: service_plan.service_group + installation_price_cents
cfg2_service_plan_group == Revision("cfg2_service_plan_group", {"cfg1_user_profile"},
    << AddMissing("service_plan", {"service_group", "installation_price_cents"}),
       AttachMissing("service_plan", [ix_service_plan_company_group |-> {"company_id",
         "service_group"}]),
       Rows([service_plan |-> {"kind", "plan_type", "service_group"}]),
       Expect("service_plan", {"ix_service_plan_company_group"}) >>,
    << DetachPresent("service_plan", {"ix_service_plan_company_group"}),
       DropColsPresent("service_plan", {"installation_price_cents", "service_group"}) >>)

\* Configuraci?n/Roles y permisos: mobile.technician, mobile.collector, audit_logs.read
cfg3_matrix_permissions == Revision("cfg3_matrix_permissions", {"cfg2_service_plan_group"},
    << Rows([permission |-> {"action", "created_at", "description", "id", "name", "resource"},
         role_permission |-> {"permission_id", "role_id"}, role |-> {"company_id", "id",
         "name"}]) >>,
    << Rows([role_permission |-> {"permission_id"}, permission |-> {"id", "name"}]) >>)

\* Clientes: client.dpi + deactivated_at + deactivation_reason
cl1_client_dpi_deactivation == Revision("cl1_client_dpi_deactivation", {"cfg3_matrix_permissions"},
    << AddMissing("client", {"dpi", "deactivated_at", "deactivation_reason"}),
       AttachMissing("client", [uq_client_company_dpi |-> {"company_id", "dpi"},
         ix_client_company_active |-> {"company_id", "deactivated_at"}]),
       Expect("client", {"ix_client_company_active", "uq_client_company_dpi"}) >>,
    << DetachPresent("client", {"ix_client_company_active", "uq_client_company_dpi"}),
       DropColsPresent("client", {"deactivation_reason", "deactivated_at", "dpi"}) >>)

\* Ordenes de Trabajo: taskjobkind += SUSPEND, MAINTENANCE
tj1_task_job_kinds == Revision("tj1_task_job_kinds", {"cl1_client_dpi_deactivation"},
    << Autocommit, Labels("taskjobkind", {"SUSPEND", "MAINTENANCE"}), Transaction >>,
    <<>>)

\* Ordenes de Trabajo: task_state.kind, task FKs, task_assignee.role
tk2_task_links_up ==
  << AddFilledMissing("task_state", {"kind"}),
     DetachPresent("task_state", {"ck_task_state_kind"}),
     Attach("task_state", [ck_task_state_kind |-> {"kind"}]),
     Rows([task_state |-> {"kind", "name"}]),
     AddMissing("task", {"client_id", "client_service_id", "device_category_id",
       "inventory_item_id", "parent_item_id", "address"}),
     UnreferencePresent("task", {"client_id"}),
     Reference("task", [client_id |-> "client"]),
     UnreferencePresent("task", {"client_service_id"}),
     Reference("task", [client_service_id |-> "client_service"]),
     UnreferencePresent("task", {"device_category_id"}),
     Reference("task", [device_category_id |-> "device_category"]),
     UnreferencePresent("task", {"inventory_item_id"}),
     Reference("task", [inventory_item_id |-> "inventory_item"]),
     UnreferencePresent("task", {"parent_item_id"}),
     Reference("task", [parent_item_id |-> "inventory_item"]),
     Rows([task |-> {"client_id", "client_service_id", "company_id", "device_category_id",
       "inventory_item_id", "linked_object_id", "linked_object_type"}, client |-> {"company_id",
       "id"}, client_service |-> {"client_id", "company_id", "id"},
       inventory_item |-> {"company_id", "device_type_id", "id"}, device_type |-> {"category_id",
       "id"}]),
     AttachMissing("task", [ix_task_company_client |-> {"company_id", "client_id"},
       ix_task_company_job_kind |-> {"company_id", "job_kind"},
       ix_task_company_due_date |-> {"company_id", "due_date"}]),
     AddMissing("task_assignee", {"role"}),
     DetachPresent("task_assignee", {"ck_task_assignee_role"}),
     Attach("task_assignee", [ck_task_assignee_role |-> {"role"}]),
     Rows([task_state |-> {"kind", "name"}]),
     Expect("task_assignee", {"ck_task_assignee_role"}),
     Expect("task_state", {"ck_task_state_kind"}),
     Expect("task", {"ix_task_company_client", "ix_task_company_due_date",
       "ix_task_company_job_kind"}) >>

tk2_task_links == Revision("tk2_task_links", {"tj1_task_job_kinds"}, tk2_task_links_up,
    << DetachPresent("task_assignee", {"ck_task_assignee_role"}),
       DropColsPresent("task_assignee", {"role"}),
       DetachPresent("task", {"ix_task_company_client", "ix_task_company_job_kind",
         "ix_task_company_due_date"}),
       DropColsPresent("task", {"address", "parent_item_id", "inventory_item_id",
         "device_category_id", "client_service_id", "client_id"}),
       DetachPresent("task_state", {"ck_task_state_kind"}),
       DropColsPresent("task_state", {"kind"}) >>)

\* Inventario: device_category tiers + categories, device_type serialization, inventory_item lots
inv1_general_inventory_up ==
  << DetachPresent("device_category", {"ck_device_category_tier"}),
     Attach("device_category", [ck_device_category_tier |-> {"tier"}]),
     Rows([device_category |-> {"created_at", "icon", "id", "is_active", "is_passive", "is_system",
       "key", "name", "sort_order", "tier", "updated_at"}]),
     AddFilledMissing("device_type", {"is_serialized"}),
     AddMissing("device_type", {"unit"}),
     AddFilledMissing("inventory_item", {"quantity"}),
     AddMissing("inventory_item", {"custodian_user_id", "label"}),
     UnreferencePresent("inventory_item", {"custodian_user_id"}),
     Reference("inventory_item", [custodian_user_id |-> "user"]),
     DetachPresent("inventory_item", {"ck_inventory_item_quantity_positive"}),
     Attach("inventory_item", [ck_inventory_item_quantity_positive |-> {"quantity"}]),
     AttachMissing("inventory_item", [ix_inventory_item_company_device_type |-> {"company_id",
       "device_type_id"}, ix_inventory_item_company_custodian |-> {"company_id",
       "custodian_user_id"}]),
     Rows([device_category |-> {"key"}]),
     Expect("inventory_item", {"ck_inventory_item_quantity_positive",
       "ix_inventory_item_company_custodian", "ix_inventory_item_company_device_type"}),
     Expect("device_category", {"ck_device_category_tier"}) >>

inv1_general_inventory == Revision("inv1_general_inventory", {"tk2_task_links"}, inv1_general_inventory_up,
    << DetachPresent("inventory_item", {"ix_inventory_item_company_device_type",
         "ix_inventory_item_company_custodian", "ck_inventory_item_quantity_positive"}),
       DropColsPresent("inventory_item", {"label", "custodian_user_id", "quantity"}),
       DropColsPresent("device_type", {"unit", "is_serialized"}),
       Rows([device_category |-> {"id", "key", "tier"}, device_type |-> {"category_id"}]),
       DetachPresent("device_category", {"ck_device_category_tier"}),
       Attach("device_category", [ck_device_category_tier |-> {"tier"}]) >>)

\* Pagos: uploadedfileownertype += PAYMENT, ix_order_company_client
pm1_payment_evidence == Revision("pm1_payment_evidence", {"inv1_general_inventory"},
    << Autocommit, Labels("uploadedfileownertype", {"PAYMENT"}), Transaction,
       AttachMissing("order", [ix_order_company_client |-> {"company_id", "client_id"}]),
       Expect("order", {"ix_order_company_client"}) >>,
    << DetachPresent("order", {"ix_order_company_client"}) >>)

\* Registro de actividad: ix_audit_log_created_at (created_at DESC)
al1_audit_log_created_idx == Revision("al1_audit_log_created_idx", {"pm1_payment_evidence"},
    << AttachMissing("audit_log", [ix_audit_log_created_at |-> {"created_at"}]),
       Expect("audit_log", {"ix_audit_log_created_at"}) >>,
    << DetachPresent("audit_log", {"ix_audit_log_created_at"}) >>)

\* Red/provisioning: ix_provisioning_run_company_created (company_id, created_at)
ng2_provisioning_run_list == Revision("ng2_provisioning_run_list", {"al1_audit_log_created_idx"},
    << AttachMissing("provisioning_run", [ix_provisioning_run_company_created |-> {"company_id",
         "created_at"}]),
       Expect("provisioning_run", {"ix_provisioning_run_company_created"}) >>,
    << DetachPresent("provisioning_run", {"ix_provisioning_run_company_created"}) >>)

\* Figma follow-ups: integration.enabled/provider + acs_device_registration.created_by_user_id
fg1_integration_enabled_regby == Revision("fg1_integration_enabled_regby", {"ng2_provisioning_run_list"},
    << AddFilledMissing("integration", {"enabled"}),
       AddMissing("integration", {"provider"}),
       Rows([integration |-> {"base_url", "provider"}]),
       AddMissing("acs_device_registration", {"created_by_user_id"}),
       UnreferencePresent("acs_device_registration", {"created_by_user_id"}),
       Reference("acs_device_registration", [created_by_user_id |-> "user"]) >>,
    << UnreferencePresent("acs_device_registration", {"created_by_user_id"}),
       DropColsPresent("acs_device_registration", {"created_by_user_id"}),
       DropColsPresent("integration", {"provider", "enabled"}) >>)

\* Trim device categories to the six product-backed keys
dc1_category_trim == Revision("dc1_category_trim", {"fg1_integration_enabled_regby"},
    << Rows([device_category |-> {"is_active", "key"}]) >>,
    << Rows([device_category |-> {"is_active"}]) >>)

\* Insights v2: insightcharttype += LINE, insight_dashboard.default_time_range, insight_chart.viz
iv1_insights_v2 == Revision("iv1_insights_v2", {"dc1_category_trim"},
    << Autocommit, Labels("insightcharttype", {"LINE"}), Transaction,
       AddMissing("insight_dashboard", {"default_time_range"}),
       AddMissing("insight_chart", {"viz"}),
       Rows([insight_chart |-> {"viz"}, insight_dashboard |-> {"default_time_range"}]) >>,
    << Rows([insight_chart |-> {"chart_type"}]),
       DropColsPresent("insight_chart", {"viz"}),
       DropColsPresent("insight_dashboard", {"default_time_range"}) >>)

\* vpn mode: per-tenant WireGuard-hub SOCKS5 endpoint
vpn1_vpn_socks5 == Revision("vpn1_vpn_socks5", {"iv1_insights_v2"},
    << Add("network_access", {"vpn_socks5"}),
       Rows([network_access |-> {"mode", "vpn_socks5"}]),
       Attach("network_access", [ck_network_access_vpn_socks5 |-> {"mode", "vpn_socks5"}]) >>,
    << Detach("network_access", {"ck_network_access_vpn_socks5"}),
       DropCols("network_access", {"vpn_socks5"}) >>)

\* network_access.kind: rename 'olt' to 'outbound'
na1_kind_outbound == Revision("na1_kind_outbound", {"vpn1_vpn_socks5"},
    << Detach("network_access", {"ck_network_access_kind"}),
       Rows([network_access |-> {"kind"}]),
       Attach("network_access", [ck_network_access_kind |-> {"kind"}]) >>,
    << Detach("network_access", {"ck_network_access_kind"}),
       Rows([network_access |-> {"kind"}]),
       Attach("network_access", [ck_network_access_kind |-> {"kind"}]) >>)

\* Capa 3: per-tenant CWMP Inform authentication gate + reveal permission
ac1_acs_tenant_auth == Revision("ac1_acs_tenant_auth", {"na1_kind_outbound"},
    << AddFilled("network_access", {"acs_auth_required"}),
       Attach("network_access", [ck_network_access_acs_auth_required |-> {"kind",
         "acs_auth_required"}]),
       Rows([acs_device_registration |-> {"oui", "serial_number"}]),
       Attach("acs_device_registration", [uq_acs_registration_serial_no_oui |-> {"serial_number",
         "oui"}]),
       Rows([permission |-> {"action", "created_at", "description", "id", "name", "resource"}]) >>,
    << Rows([role_permission |-> {"permission_id"}, permission |-> {"id", "name"}]),
       Detach("acs_device_registration", {"uq_acs_registration_serial_no_oui"}),
       Detach("network_access", {"ck_network_access_acs_auth_required"}),
       DropCols("network_access", {"acs_auth_required"}) >>)

\* transport axis: fold network_access into provisioning_settings, drop the table
tr1_transport_axis_up ==
  << AddFilled("provisioning_settings", {"dial_target", "proxy_kind", "acs_auth_required"}),
     Add("provisioning_settings", {"proxy_address", "gateway_host", "acs_base_url",
       "cwmp_credential_id", "cwmp_pending_credential_id"}),
     Reference("provisioning_settings", [cwmp_credential_id |-> "device_credential",
       cwmp_pending_credential_id |-> "device_credential"]),
     Rows([network_access |-> {"acs_auth_required", "acs_base_url", "company_id", "gateway_host",
       "id", "is_default", "kind", "mode", "pylon_socks5", "vpn_socks5"},
       provisioning_settings |-> {"acs_auth_required", "acs_base_url", "company_id", "created_at",
       "cwmp_credential_id", "cwmp_pending_credential_id", "default_inform_interval", "dial_target",
       "enabled", "gateway_host", "id", "proxy_address", "proxy_kind", "updated_at"},
       device_credential |-> {"company_id", "created_at", "id", "kind", "network_access_id"}]),
     DropCols("device_credential", {"network_access_id"}), Drop("network_access"),
     Attach("provisioning_settings", [ck_provisioning_settings_dial_target |-> {"dial_target"},
       ck_provisioning_settings_proxy_kind |-> {"proxy_kind"},
       ck_provisioning_settings_proxy_address |-> {"proxy_kind", "proxy_address"},
       ck_provisioning_settings_gateway_host |-> {"dial_target", "gateway_host"},
       ck_provisioning_settings_cwmp_pair |-> {"cwmp_pending_credential_id",
       "cwmp_credential_id"}]) >>

tr1_transport_axis == Revision("tr1_transport_axis", {"ac1_acs_tenant_auth"}, tr1_transport_axis_up,
    << Detach("provisioning_settings", {"ck_provisioning_settings_cwmp_pair",
         "ck_provisioning_settings_gateway_host", "ck_provisioning_settings_proxy_address",
         "ck_provisioning_settings_proxy_kind", "ck_provisioning_settings_dial_target"}),
       Create("network_access", Stamped \cup {"name", "kind", "mode", "is_default", "mgmt_subnets",
         "acs_base_url", "gateway_host", "pylon_socks5", "vpn_socks5", "acs_auth_required",
         "company_id"}, [company_id |-> "company"]),
       Attach("network_access", [uq_network_access_company_name |-> {"company_id", "name"},
         ck_network_access_kind |-> {"kind"}, ck_network_access_mode |-> {"mode"},
         ck_network_access_nat_gateway_host |-> {"mode", "gateway_host"},
         ck_network_access_pylon_socks5 |-> {"mode", "pylon_socks5"},
         ck_network_access_vpn_socks5 |-> {"mode", "vpn_socks5"},
         ck_network_access_acs_auth_required |-> {"kind", "acs_auth_required"},
         ix_network_access_company_id |-> {"company_id"}]),
       AttachMissing("network_access", [uq_network_access_default |-> {"company_id", "kind",
         "is_default"}]),
       Rows([network_access |-> {"acs_auth_required", "acs_base_url", "company_id", "created_at",
         "gateway_host", "id", "is_default", "kind", "mgmt_subnets", "mode", "name", "pylon_socks5",
         "updated_at", "vpn_socks5"}, provisioning_settings |-> {"acs_auth_required",
         "acs_base_url", "company_id", "dial_target", "gateway_host", "proxy_address",
         "proxy_kind"}]),
       Add("device_credential", {"network_access_id"}),
       Reference("device_credential", [network_access_id |-> "network_access"]),
       Attach("device_credential",
         [ix_device_credential_network_access_id |-> {"network_access_id"}]),
       Rows([device_credential |-> {"id", "network_access_id"},
         provisioning_settings |-> {"company_id", "cwmp_credential_id",
         "cwmp_pending_credential_id"}, network_access |-> {"company_id", "id", "is_default",
         "kind"}]),
       Unreference("provisioning_settings", {"cwmp_pending_credential_id", "cwmp_credential_id"}),
       DropCols("provisioning_settings", {"cwmp_pending_credential_id", "cwmp_credential_id",
         "acs_auth_required", "acs_base_url", "gateway_host", "proxy_address", "proxy_kind",
         "dial_target"}) >>)

\* Fixed task status: task.status replaces the per-tenant board columns
ts1_task_status_up ==
  << AddFilledMissing("task", {"status"}),
     Rows([task |-> {"id", "status", "task_state_id"}, task_assignee |-> {"role", "task_id"},
       task_state |-> {"id", "kind"}]),
     DetachPresent("task", {"ck_task_status"}),
     Attach("task", [ck_task_status |-> {"status"}]),
     AttachMissing("task", [ix_task_company_status |-> {"company_id", "status"}]),
     Nullable("task", {"task_state_id"}),
     Rows([task_state |-> {"id", "kind"}, workflow_trigger |-> {"field_conditions", "id",
       "resource_type"}, workflow_step |-> {"action_config", "id"}]),
     Expect("task", {"ck_task_status", "ix_task_company_status"}),
     Rows([task |-> {"status", "task_state_id"}]) >>

ts1_task_status == Revision("ts1_task_status", {"tr1_transport_axis"}, ts1_task_status_up,
    << Rows([task_state |-> {"color", "company_id", "created_at", "id", "kind", "name", "position",
         "updated_at"}, task |-> {"company_id", "status", "task_state_id"},
         workflow_trigger |-> {"field_conditions", "id"}, workflow_step |-> {"action_config",
         "id"}]),
       Fill("task", {"task_state_id"}),
       Rows([task |-> {"company_id", "status", "task_state_id"}, task_state |-> {"company_id"},
         workflow_trigger |-> {"field_conditions", "id", "resource_type", "workflow_id"},
         workflow |-> {"company_id", "id"}, workflow_step |-> {"action_config", "action_type", "id",
         "workflow_id"}]),
       NotNull("task", {"task_state_id"}),
       DetachPresent("task", {"ix_task_company_status", "ck_task_status"}),
       DropColsPresent("task", {"status"}) >>)

\* Dispatch routes: task.route_sequence
dr1_task_route_sequence == Revision("dr1_task_route_sequence", {"ts1_task_status"},
    << AddMissing("task", {"route_sequence"}),
       Rows([task |-> {"route_sequence"}]) >>,
    << DropColsPresent("task", {"route_sequence"}) >>)

\* link ports: parent_port / uplink_port on inventory_item
lp1_link_ports == Revision("lp1_link_ports", {"tr1_transport_axis"},
    << Add("inventory_item", {"parent_port", "uplink_port"}),
       Attach("inventory_item", [uq_inventory_item_parent_port |-> {"parent_id", "parent_port"}]) >>,
    << Detach("inventory_item", {"uq_inventory_item_parent_port"}),
       DropCols("inventory_item", {"uplink_port", "parent_port"}) >>)

\* Mobile integration: enum labels (RELOCATION, DEPOSITED, CONSUMED, RELEASED)
mi1_mobile_enum_labels == Revision("mi1_mobile_enum_labels", {"dr1_task_route_sequence", "lp1_link_ports"},
    << Autocommit, Labels("taskjobkind", {"RELOCATION"}),
       Labels("cashsessionstatus", {"DEPOSITED"}),
       Labels("equipmenteventtype", {"CONSUMED", "RELEASED"}), Transaction >>,
    <<>>)

\* Mobile integration: field ops schema (tasks, materials, cash, notifications)
mi2_mobile_field_ops_up ==
  << AddMissing("task", {"started_at", "completed_at"}),
     AddFilledMissing("task", {"step_progress"}),
     AddMissing("inventory_item", {"latitude", "longitude", "gps_precision_m"}),
     AddMissing("warehouse", {"latitude", "longitude"}),
     AddFilledMissing("cash_session", {"opening_cents", "reopen_count"}),
     AddMissing("cash_session", {"deposited_at", "deposited_cents", "deposit_reference",
       "closed_expected_cash_cents"}),
     AddMissing("payment", {"allocation_id", "cash_session_id"}),
     AddMissing("uploaded_file", {"idempotency_key"}),
     AddMissing("company", {"mobile_settings"}),
     AttachMissing("cash_session", [ck_cash_session_opening_nonneg |-> {"opening_cents"}]),
     ReferenceMissing("payment", [cash_session_id |-> "cash_session"]),
     CreateMissing("task_material", Stamped \cup {"quantity", "consumed_quantity", "shortfall",
       "consumed_at", "company_id", "task_id", "device_type_id", "updated_by"},
       [company_id |-> "company", task_id |-> "task", device_type_id |-> "device_type",
       updated_by |-> "user"]),
     AttachMissing("task_material", [ck_task_material_quantity_positive |-> {"quantity"},
       uq_task_material_task_type |-> {"task_id", "device_type_id"},
       ix_task_material_company_task |-> {"company_id", "task_id"}]),
     CreateMissing("user_notification", {"id", "created_at", "kind", "entity_type", "entity_id",
       "dedupe_key", "payload", "read_at", "company_id", "user_id"}, [company_id |-> "company",
       user_id |-> "user"]),
     AttachMissing("user_notification", [ck_user_notification_kind |-> {"kind"},
       uq_user_notification_dedupe |-> {"user_id", "dedupe_key"},
       ix_user_notification_feed |-> {"user_id", "read_at", "created_at"}]),
     CreateMissing("cash_movement", {"id", "created_at", "amount_cents", "note", "company_id",
       "cash_session_id", "created_by"}, [company_id |-> "company",
       cash_session_id |-> "cash_session", created_by |-> "user"]),
     AttachMissing("cash_movement", [ck_cash_movement_amount_positive |-> {"amount_cents"},
       ix_cash_movement_cash_session_id |-> {"cash_session_id"}]),
     AttachMissing("payment", [ix_payment_company_allocation |-> {"company_id", "allocation_id"},
       ix_payment_cash_session |-> {"cash_session_id"},
       ix_payment_company_received_paid |-> {"company_id", "received_by", "paid_at"}]),
     AttachMissing("uploaded_file", [uq_uploaded_file_company_idem |-> {"company_id",
       "idempotency_key"}]),
     AttachMissing("order", [ix_order_open_receivables |-> {"company_id", "due_date", "status",
       "payment_status"}]),
     Rows([task |-> {"completed_at", "status", "updated_at"}, payment |-> {"cash_session_id",
       "company_id", "kind", "paid_at", "received_by"}, cash_session |-> {"closed_at",
       "collector_id", "company_id", "id", "opened_at"}, role_permission |-> {"permission_id",
       "role_id"}, role |-> {"company_id", "id", "name"}, permission |-> {"id", "name"}]),
     Expect("order", {"ix_order_open_receivables"}),
     Expect("uploaded_file", {"uq_uploaded_file_company_idem"}),
     Expect("payment", {"ix_payment_cash_session", "ix_payment_company_allocation",
       "ix_payment_company_received_paid"}),
     Rows([cash_movement |-> {}, user_notification |-> {}, task_material |-> {},
       company |-> {"mobile_settings"}, uploaded_file |-> {"idempotency_key"},
       payment |-> {"allocation_id", "cash_session_id"},
       cash_session |-> {"closed_expected_cash_cents", "deposit_reference", "deposited_at",
       "deposited_cents", "opening_cents", "reopen_count"}, warehouse |-> {"latitude", "longitude"},
       inventory_item |-> {"gps_precision_m", "latitude", "longitude"}, task |-> {"completed_at",
       "started_at", "step_progress"}]) >>

mi2_mobile_field_ops == Revision("mi2_mobile_field_ops", {"mi1_mobile_enum_labels"}, mi2_mobile_field_ops_up,
    << Rows([role_permission |-> {"permission_id", "role_id"}, role |-> {"company_id", "id",
         "name"}, permission |-> {"id", "name"}]),
       DetachPresent("payment", {"ix_payment_company_allocation", "ix_payment_cash_session",
         "ix_payment_company_received_paid"}),
       DetachPresent("uploaded_file", {"uq_uploaded_file_company_idem"}),
       DetachPresent("order", {"ix_order_open_receivables"}), DropPresent("cash_movement"),
       DropPresent("user_notification"), DropPresent("task_material"),
       UnreferencePresent("payment", {"cash_session_id"}),
       DetachPresent("cash_session", {"ck_cash_session_opening_nonneg"}),
       DropColsPresent("company", {"mobile_settings"}),
       DropColsPresent("uploaded_file", {"idempotency_key"}),
       DropColsPresent("payment", {"cash_session_id", "allocation_id"}),
       DropColsPresent("cash_session", {"reopen_count", "closed_expected_cash_cents",
         "deposit_reference", "deposited_cents", "deposited_at", "opening_cents"}),
       DropColsPresent("warehouse", {"longitude", "latitude"}),
       DropColsPresent("inventory_item", {"gps_precision_m", "longitude", "latitude"}),
       DropColsPresent("task", {"step_progress", "completed_at", "started_at"}) >>)

\* auth_refresh_token: server-side refresh-token store (reuse detection)
rt1_auth_refresh_token == Revision("rt1_auth_refresh_token", {"mi2_mobile_field_ops"},
    << CreateMissing("auth_refresh_token", {"jti", "family_id", "user_id", "company_id",
         "client_type", "issued_at", "expires_at", "rotated_at", "replaced_by", "revoked_at"},
         [user_id |-> "user", company_id |-> "company"]),
       AttachMissing("auth_refresh_token", [ck_auth_refresh_token_client_type |-> {"client_type"},
         ix_auth_refresh_token_family_id |-> {"family_id"},
         ix_auth_refresh_token_user_id |-> {"user_id"},
         ix_auth_refresh_token_expires_at |-> {"expires_at"}]) >>,
    << DropPresent("auth_refresh_token") >>)

\* Category icons: ROUTER -> 'router', OLT -> 'server'
ci1_category_icons == Revision("ci1_category_icons", {"rt1_auth_refresh_token"},
    << Rows([device_category |-> {"icon", "key"}]) >>,
    << Rows([device_category |-> {"icon", "key"}]) >>)

\* RBAC: collapse the built-in roles to ADMIN / VIEWER / COLLECTOR / TECHNICIAN
rr1_four_builtin_roles_up ==
  << Rows([permission |-> {"action", "created_at", "description", "id", "name", "resource"},
       role |-> {"company_id", "id", "name"}, role_permission |-> {"permission_id", "role_id"},
       user_role |-> {"role_id", "user_id"}, user_invitation_role |-> {"invitation_id", "role_id"},
       notification |-> {"id", "pending_role_ids"}]) >>

rr1_four_builtin_roles == Revision("rr1_four_builtin_roles", {"ci1_category_icons"}, rr1_four_builtin_roles_up,
    << Rows([permission |-> {"action", "created_at", "description", "id", "name", "resource"},
         role |-> {"company_id", "id", "name"}, role_permission |-> {"permission_id", "role_id"},
         user_role |-> {"role_id", "user_id"}, user_invitation_role |-> {"invitation_id",
         "role_id"}, notification |-> {"id", "pending_role_ids"}]) >>)

\* legacy drop: product / recurring_order / task_state / workflow_template
ld1_legacy_drop_up ==
  << Rows([workflow |-> {"id", "name"}, role_permission |-> {"permission_id", "role_id"},
       permission |-> {"id", "name"}, recurring_order_item |-> {"product_id", "quantity",
       "recurring_order_id"}, service_plan |-> {"id", "product_id"},
       recurring_order |-> {"client_id", "company_id", "created_at", "id", "last_generated_at",
       "next_generation_date", "recurrence", "recurrence_end", "status"},
       client_service |-> {"activation_date", "billing_status", "cancelled_at", "client_id",
       "company_id", "connection_params", "created_at", "id", "last_generated_at",
       "migration_source", "next_generation_date", "notes", "quantity", "recurrence",
       "recurrence_end", "recurring_order_id", "service_plan_id", "status", "updated_at"},
       order |-> {"client_service_id", "recurring_order_id"}, task |-> {"linked_object_id",
       "linked_object_type"}, task_template |-> {"linked_object_type"},
       workflow_trigger |-> {"field_conditions", "resource_type", "workflow_id"},
       workflow_step |-> {"action_config", "workflow_id"}]),
     DetachPresent("order", {"uq_order_active_recurring_due_date"}),
     DropColsPresent("order", {"recurring_order_id"}),
     DetachPresent("order_item", {"idx_order_item_product"}),
     DropColsPresent("order_item", {"product_id"}),
     DetachPresent("service_plan", {"uq_service_plan_product"}),
     DropColsPresent("service_plan", {"product_id"}),
     DropColsPresent("client_service", {"recurring_order_id"}),
     DropColsPresent("task", {"task_state_id"}), DropPresent("recurring_order_item"),
     DropPresent("recurring_order"), DropPresent("product"), DropPresent("task_state"),
     DropPresent("workflow_template"), DropTypePresent({"taskstatecolor"}),
     Rows([permission |-> {"name"}]) >>

ld1_legacy_drop == Revision("ld1_legacy_drop", {"rr1_four_builtin_roles"}, ld1_legacy_drop_up,
    Irreversible)

FieldRevisions ==
  << rs1_route_cash, tc1_task_closeout, pi1_payment_idem, r_6e7506e57be9, cfg1_user_profile,
     cfg2_service_plan_group, cfg3_matrix_permissions, cl1_client_dpi_deactivation,
     tj1_task_job_kinds, tk2_task_links, inv1_general_inventory, pm1_payment_evidence,
     al1_audit_log_created_idx, ng2_provisioning_run_list, fg1_integration_enabled_regby,
     dc1_category_trim, iv1_insights_v2, vpn1_vpn_socks5, na1_kind_outbound, ac1_acs_tenant_auth,
     tr1_transport_axis, ts1_task_status, dr1_task_route_sequence, lp1_link_ports,
     mi1_mobile_enum_labels, mi2_mobile_field_ops, rt1_auth_refresh_token, ci1_category_icons,
     rr1_four_builtin_roles, ld1_legacy_drop >>
=============================================================================
