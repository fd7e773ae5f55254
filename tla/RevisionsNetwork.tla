-------------------------- MODULE RevisionsNetwork --------------------------
(***************************************************************************)
(* Network configuration, transports, playbooks and the network graph.     *)
(*                                                                         *)
(* One definition per revision under alembic/versions: what upgrade() and  *)
(* downgrade() ask of the server, in their order.  Neighbouring statements *)
(* of one kind on one table are written as one.  A revision whose id       *)
(* starts with a digit is named r_<id>; a long upgrade() has a definition  *)
(* of its own.                                                             *)
(***************************************************************************)
EXTENDS SchemaOps

\* cycle 5 phase 1 (network config core): device_credential, network_access, ...
nc1a_network_config_core_up ==
  << Autocommit, Labels("provisioningjobstatus", {"PENDING_INFORM"}), Transaction,
     CreateMissing("network_access", Stamped \cup {"name", "kind", "mode", "is_default",
       "mgmt_subnets", "acs_base_url", "company_id"}, [company_id |-> "company"]),
     AttachMissing("network_access", [uq_network_access_company_name |-> {"company_id", "name"},
       ck_network_access_kind |-> {"kind"}, ck_network_access_mode |-> {"mode"},
       uq_network_access_default |-> {"company_id", "kind", "is_default"}]),
     Attach("network_access", [ix_network_access_company_id |-> {"company_id"}]),
     CreateMissing("device_credential", Stamped \cup {"name", "kind", "username",
       "secret_ciphertext", "dek_wrapped", "kek_id", "fingerprint", "last_rotated_at", "company_id",
       "inventory_item_id", "device_type_id", "network_access_id"}, [company_id |-> "company",
       inventory_item_id |-> "inventory_item", device_type_id |-> "device_type",
       network_access_id |-> "network_access"]),
     AttachMissing("device_credential", [uq_device_credential_company_name |-> {"company_id",
       "name"}, ck_device_credential_kind |-> {"kind"}]),
     Attach("device_credential", [ix_device_credential_company_id |-> {"company_id"},
       ix_device_credential_inventory_item_id |-> {"inventory_item_id"},
       ix_device_credential_device_type_id |-> {"device_type_id"},
       ix_device_credential_network_access_id |-> {"network_access_id"}]),
     CreateMissing("acs_device_registration", Stamped \cup {"company_id", "inventory_item_id",
       "serial_number", "oui", "first_inform_at", "last_inform_at", "genieacs_device_id",
       "cwmp_cr_username", "cwmp_cr_secret_ciphertext", "cwmp_cr_dek_wrapped", "cwmp_cr_kek_id"},
       [company_id |-> "company", inventory_item_id |-> "inventory_item"]),
     AttachMissing("acs_device_registration", [uq_acs_registration_identity |-> {"oui",
       "serial_number"}]),
     Attach("acs_device_registration", [ix_acs_device_registration_company_id |-> {"company_id"}]),
     CreateMissing("provisioning_settings", Stamped \cup {"company_id", "enabled",
       "default_inform_interval"}, [company_id |-> "company"]),
     AttachMissing("provisioning_settings", [uq_provisioning_settings_company |-> {"company_id"}]),
     CreateMissing("device_action_log", {"id", "created_at", "company_id", "actor_user_id",
       "actor_kind", "device_kind", "device_identity", "action", "before_data", "after_data",
       "provisioning_job_id", "detail"}, [company_id |-> "company", actor_user_id |-> "user",
       provisioning_job_id |-> "provisioning_job"]),
     Attach("device_action_log", [ix_device_action_log_company_created |-> {"company_id",
       "created_at"}]),
     AddMissing("inventory_item", {"oui"}),
     AddFilledMissing("device_type", {"provisioning_enabled"}),
     AddMissing("client_service", {"provisioning_state"}),
     AddMissing("playbook", {"last_dry_run_version"}),
     AddFilledMissing("provisioning_job", {"dry_run"}),
     AddMissing("provisioning_job", {"pending_step_index", "pending_task_ids", "heartbeat_at",
       "device_lock_key"}),
     DetachPresent("provisioning_job", {"uq_provisioning_job_company_idem"}),
     UsesLabels("provisioningjobstatus", {"PENDING_INFORM"}),
     AttachMissing("provisioning_job", [uq_provisioning_job_company_idem |-> {"company_id",
       "idempotency_key", "status"}, uq_provisioning_job_device_lock |-> {"device_lock_key",
       "status"}]),
     Expect("acs_device_registration", {"uq_acs_registration_identity"}),
     Expect("network_access", {"uq_network_access_default"}),
     Expect("provisioning_job", {"uq_provisioning_job_company_idem",
       "uq_provisioning_job_device_lock"}) >>

nc1a_network_config_core == Revision("nc1a_network_config_core", {"c4b_drop_installation_address"}, nc1a_network_config_core_up,
    << Rows([provisioning_job |-> {"status"}]),
       DetachPresent("provisioning_job", {"uq_provisioning_job_device_lock",
         "uq_provisioning_job_company_idem"}),
       AttachMissing("provisioning_job", [uq_provisioning_job_company_idem |-> {"company_id",
         "idempotency_key", "status"}]),
       DropColsPresent("provisioning_job", {"device_lock_key", "heartbeat_at", "pending_task_ids",
         "pending_step_index", "dry_run"}),
       DropColsPresent("playbook", {"last_dry_run_version"}),
       DropColsPresent("client_service", {"provisioning_state"}),
       DropColsPresent("device_type", {"provisioning_enabled"}),
       DropColsPresent("inventory_item", {"oui"}), DropPresent("device_action_log"),
       DropPresent("provisioning_settings"), DropPresent("acs_device_registration"),
       DropPresent("device_credential"), DropPresent("network_access") >>)

\* cycle 5 phase 1 (device audit hardening): append-only BEFORE UPDATE/DELETE trigger on ...
nc1b_device_audit_trigger == Revision("nc1b_device_audit_trigger", {"nc1a_network_config_core"},
    << Functions({"device_action_log_append_only"}),
       DetachPresent("device_action_log", {"trg_device_action_log_append_only"}),
       Attach("device_action_log", [trg_device_action_log_append_only |-> {}]) >>,
    << DetachPresent("device_action_log", {"trg_device_action_log_append_only"}),
       DropFunctions({"device_action_log_append_only"}) >>)

\* cycle 7 (core network configuration): device_category.tier, device_type.cli_platform, ...
nc2a_core_config_up ==
  << AddMissing("device_category", {"tier"}),
     AddMissing("device_type", {"cli_platform"}),
     AddMissing("inventory_item", {"mgmt_host", "mgmt_port", "cli_protocol", "mgmt_last_check_at",
       "mgmt_last_check_ok"}),
     AddMissing("topology_device_type", {"inventory_item_id"}),
     AddFilledMissing("client_service", {"install_state"}),
     AddMissing("client_service", {"installed_at"}),
     DetachPresent("device_category", {"ck_device_category_tier"}),
     Attach("device_category", [ck_device_category_tier |-> {"tier"}]),
     DetachPresent("inventory_item", {"ck_inventory_item_cli_protocol"}),
     Attach("inventory_item", [ck_inventory_item_cli_protocol |-> {"cli_protocol"}]),
     DetachPresent("client_service", {"ck_client_service_install_state"}),
     Attach("client_service", [ck_client_service_install_state |-> {"install_state"}]),
     UnreferencePresent("topology_device_type", {"inventory_item_id"}),
     Reference("topology_device_type", [inventory_item_id |-> "inventory_item"]),
     AttachMissing("topology_device_type",
       [ix_topology_device_type_inventory_item_id |-> {"inventory_item_id"}]),
     AttachMissing("client_service", [ix_client_service_company_install_state |-> {"company_id",
       "install_state"}]),
     Rows([device_category |-> {"key", "name", "tier"}]),
     Expect("client_service", {"ck_client_service_install_state",
       "ix_client_service_company_install_state"}),
     Expect("topology_device_type", {"ix_topology_device_type_inventory_item_id"}),
     Expect("inventory_item", {"ck_inventory_item_cli_protocol"}),
     Expect("device_category", {"ck_device_category_tier"}) >>

nc2a_core_config == Revision("nc2a_core_config", {"nc1b_device_audit_trigger"}, nc2a_core_config_up,
    << Rows([device_category |-> {"key", "name"}]),
       DetachPresent("client_service", {"ix_client_service_company_install_state",
         "ck_client_service_install_state"}),
       DetachPresent("topology_device_type", {"ix_topology_device_type_inventory_item_id"}),
       UnreferencePresent("topology_device_type", {"inventory_item_id"}),
       DetachPresent("device_category", {"ck_device_category_tier"}),
       DetachPresent("inventory_item", {"ck_inventory_item_cli_protocol"}),
       DropColsPresent("client_service", {"installed_at", "install_state"}),
       DropColsPresent("topology_device_type", {"inventory_item_id"}),
       DropColsPresent("inventory_item", {"mgmt_last_check_ok", "mgmt_last_check_at",
         "cli_protocol", "mgmt_port", "mgmt_host"}),
       DropColsPresent("device_type", {"cli_platform"}),
       DropColsPresent("device_category", {"tier"}) >>)

\* cycle 8 (topology-owned playbooks): drop playbook.target_vendor + target_category_id, add ...
c8a_playbook_topology == Revision("c8a_playbook_topology", {"nc2a_core_config"},
    << UnreferencePresent("playbook", {"target_category_id"}),
       DropColsPresent("playbook", {"target_category_id", "target_vendor"}),
       AddMissing("playbook", {"topology_id"}),
       UnreferencePresent("playbook", {"topology_id"}),
       Reference("playbook", [topology_id |-> "topology"]),
       AttachMissing("playbook", [ix_playbook_topology_id |-> {"topology_id"}]),
       Expect("playbook", {"ix_playbook_topology_id"}),
       Rows([playbook |-> {"topology_id"}]) >>,
    << DetachPresent("playbook", {"ix_playbook_topology_id"}),
       UnreferencePresent("playbook", {"topology_id"}),
       DropColsPresent("playbook", {"topology_id"}),
       AddMissing("playbook", {"target_vendor", "target_category_id"}),
       UnreferencePresent("playbook", {"target_category_id"}),
       Reference("playbook", [target_category_id |-> "device_category"]) >>)

\* Free/Trial tiers: unlimited resource limits + full module set.
t1_free_trial_unlimited == Revision("t1_free_trial_unlimited", {"c8a_playbook_topology"},
    << Rows([tier |-> {"features", "modules", "name"}]) >>,
    << Rows([tier |-> {"features", "name"}]) >>)

\* Grandfather existing users as email-verified.
t2_grandfather_email_verified == Revision("t2_grandfather_email_verified", {"t1_free_trial_unlimited"},
    << Rows([user |-> {"email_verified"}]) >>,
    <<>>)

\* brownfield adoption (attested installs): client_service adoption columns + ...
ba1_attested_adoption == Revision("ba1_attested_adoption", {"t2_grandfather_email_verified"},
    << AddMissing("client_service", {"adopted_at", "adopted_by_user_id", "adoption_note"}),
       UnreferencePresent("client_service", {"adopted_by_user_id"}),
       Reference("client_service", [adopted_by_user_id |-> "user"]),
       AttachMissing("client_service", [ix_client_service_adopted |-> {"company_id",
         "adopted_at"}]),
       Rows([permission |-> {"action", "created_at", "description", "id", "name", "resource"},
         role_permission |-> {"permission_id", "role_id"}, role |-> {"company_id", "id", "name"}]),
       Expect("client_service", {"ix_client_service_adopted"}) >>,
    << Rows([role_permission |-> {"permission_id"}, permission |-> {"id", "name"}]),
       DetachPresent("client_service", {"ix_client_service_adopted"}),
       UnreferencePresent("client_service", {"adopted_by_user_id"}),
       DropColsPresent("client_service", {"adoption_note", "adopted_by_user_id", "adopted_at"}) >>)

\* drop client.installation_status/installation_date + installationstatus enum
cf1_drop_client_install_fields_up ==
  << Rows([workflow_step |-> {"action_config", "action_type", "id", "workflow_id"},
       workflow_step_edge |-> {"created_at", "from_step_id", "id", "to_step_id", "workflow_id"},
       insight_chart |-> {"spec"}]),
     DropColsPresent("client", {"installation_status", "installation_date"}),
     DropTypePresent({"installationstatus"}),
     Rows([workflow_step |-> {"action_config", "action_type", "id", "workflow_id"},
       insight_chart |-> {"spec"}, client |-> {}]) >>

cf1_drop_client_install_fields == Revision("cf1_drop_client_install_fields", {"ba1_attested_adoption"}, cf1_drop_client_install_fields_up,
    << NewTypeMissing("installationstatus", {"NOT_INSTALLED", "SURVEY_SCHEDULED",
         "INSTALL_SCHEDULED", "INSTALLED", "CANCELLED"}),
       AddFilledMissing("client", {"installation_status"}),
       AddMissing("client", {"installation_date"}) >>)

\* Recurrente tenant billing (prompt.md issue 4).
rb1_recurrente_billing == Revision("rb1_recurrente_billing", {"cf1_drop_client_install_fields"},
    << Add("tier", {"recurrente_product_id", "recurrente_price_id", "recurrente_price_yearly_id"}),
       Add("company", {"recurrente_customer_id"}),
       Add("subscription", {"recurrente_subscription_id", "recurrente_checkout_id", "card_last4",
         "card_brand"}),
       Attach("subscription",
         [uq_subscription_recurrente_subscription_id |-> {"recurrente_subscription_id"}]),
       Add("billing_invoice", {"recurrente_intent_id"}),
       Attach("billing_invoice",
         [uq_billing_invoice_recurrente_intent_id |-> {"recurrente_intent_id"}]),
       Create("billing_webhook_event", {"svix_id", "event_type", "created_at"}, None) >>,
    << Drop("billing_webhook_event"),
       Detach("billing_invoice", {"uq_billing_invoice_recurrente_intent_id"}),
       DropCols("billing_invoice", {"recurrente_intent_id"}),
       DropCols("subscription", {"card_brand", "card_last4", "recurrente_checkout_id"}),
       Detach("subscription", {"uq_subscription_recurrente_subscription_id"}),
       DropCols("subscription", {"recurrente_subscription_id"}),
       DropCols("company", {"recurrente_customer_id"}),
       DropCols("tier", {"recurrente_price_yearly_id", "recurrente_price_id",
         "recurrente_product_id"}) >>)

\* new-installation template v4 seed (task-context cycle, doc 32).
tk1_new_installation_v4 == Revision("tk1_new_installation_v4", {"rb1_recurrente_billing"},
    <<>>,
    <<>>)

\* namespaced playbook variables + provisioning-params rows (doc 33)
pv1_namespaced_variables_up ==
  << Rows([playbook |-> {"definition", "id", "last_dry_run_version"}, service_plan |-> {"id",
       "provisioning_params"}, workflow_step |-> {"action_config", "id"},
       workflow_template |-> {"definition", "id"}]) >>

pv1_namespaced_variables == Revision("pv1_namespaced_variables", {"tk1_new_installation_v4"}, pv1_namespaced_variables_up,
    Irreversible)

\* per-service provisioning parameter values (doc 33 follow-up)
sp1_service_params == Revision("sp1_service_params", {"pv1_namespaced_variables"},
    << AddMissing("client_service", {"provisioning_params"}) >>,
    << DropColsPresent("client_service", {"provisioning_params"}) >>)

\* backfill client_service.topology_id from the plan's default topology
bf1_topology_backfill == Revision("bf1_topology_backfill", {"sp1_service_params"},
    << Rows([client_service |-> {"service_plan_id", "topology_id"},
         service_plan |-> {"default_topology_id", "id"}]) >>,
    <<>>)

\* retire the seeded 'service-removal' workflow template AND its installed copies
lc1_retire_removal_tmpl == Revision("lc1_retire_removal_tmpl", {"bf1_topology_backfill"},
    << Rows([workflow |-> {"id", "is_active"}, workflow_trigger |-> {"event_type",
         "field_conditions", "resource_type", "workflow_id"}, workflow_step |-> {"action_config",
         "action_type", "workflow_id"}]) >>,
    <<>>)

\* retire the seeded 'suspension'/'reactivation' templates AND their installed copies
lc2_retire_susp_react == Revision("lc2_retire_susp_react", {"lc1_retire_removal_tmpl"},
    << Rows([workflow |-> {"id", "is_active"}, workflow_trigger |-> {"event_type",
         "field_conditions", "resource_type", "workflow_id"}, workflow_step |-> {"action_config",
         "action_type", "workflow_id"}]) >>,
    <<>>)

\* cycle 10: the company network graph - additive half (doc 35 ?8)
ng1_network_graph_up ==
  << Add("inventory_item", {"parent_id"}),
     AddFilled("inventory_item", {"network_attached"}),
     Reference("inventory_item", [parent_id |-> "inventory_item"]),
     Attach("inventory_item", [ix_inventory_item_parent_id |-> {"parent_id"},
       ix_inventory_item_company_attached |-> {"company_id", "network_attached"},
       ck_inventory_item_parent_attached |-> {"parent_id", "network_attached"},
       ck_inventory_item_not_self_parent |-> {"parent_id", "id"}]),
     AddFilled("device_category", {"is_passive"}),
     Create("device_type_playbook", Stamped \cup {"company_id", "device_type_id", "purpose",
       "playbook_id"}, [company_id |-> "company", device_type_id |-> "device_type",
       playbook_id |-> "playbook"]),
     Attach("device_type_playbook", [uq_device_type_playbook_purpose |-> {"device_type_id",
       "purpose"}, ck_device_type_playbook_purpose_format |-> {"purpose"},
       ix_device_type_playbook_company_id |-> {"company_id"},
       ix_device_type_playbook_playbook_id |-> {"playbook_id"}]),
     Create("inventory_item_playbook", Stamped \cup {"company_id", "inventory_item_id", "purpose",
       "playbook_id"}, [company_id |-> "company", inventory_item_id |-> "inventory_item",
       playbook_id |-> "playbook"]),
     Attach("inventory_item_playbook", [uq_item_playbook_purpose |-> {"inventory_item_id",
       "purpose"}, ck_item_playbook_purpose_format |-> {"purpose"},
       ix_inventory_item_playbook_company_id |-> {"company_id"},
       ix_inventory_item_playbook_playbook_id |-> {"playbook_id"}]),
     Add("client_service", {"cpe_item_id", "path_changed_at"}),
     Reference("client_service", [cpe_item_id |-> "inventory_item"]),
     Attach("client_service", [ix_client_service_cpe_item_id |-> {"cpe_item_id"}]),
     NeedsType({"provisioningjobstatus", "provisioningtrigger"}),
     Create("provisioning_run", Stamped \cup {"finished_at", "purpose", "dry_run", "status", "path",
       "plan", "frames", "idempotency_key", "triggered_by", "company_id", "client_service_id",
       "triggered_by_user_id"}, [company_id |-> "company", client_service_id |-> "client_service",
       triggered_by_user_id |-> "user"]),
     Attach("provisioning_run", [ix_provisioning_run_company_id |-> {"company_id"},
       ix_provisioning_run_client_service_id |-> {"client_service_id"},
       ix_provisioning_run_service |-> {"client_service_id", "created_at"},
       uq_provisioning_run_company_idem |-> {"company_id", "idempotency_key", "status"}]),
     Add("provisioning_job", {"run_id", "run_position"}),
     Reference("provisioning_job", [run_id |-> "provisioning_run"]),
     Attach("provisioning_job", [ix_provisioning_job_run_id |-> {"run_id"}]),
     Functions({"inventory_item_graph_guard", "inventory_item_detach_guard"}),
     Attach("inventory_item", [trg_inventory_item_graph_guard |-> {},
       trg_inventory_item_detach_guard |-> {}]) >>

ng1_network_graph == Revision("ng1_network_graph", {"lc2_retire_susp_react"}, ng1_network_graph_up,
    << DetachPresent("inventory_item", {"trg_inventory_item_detach_guard",
         "trg_inventory_item_graph_guard"}),
       DropFunctions({"inventory_item_detach_guard", "inventory_item_graph_guard"}),
       Detach("provisioning_job", {"ix_provisioning_job_run_id"}),
       Unreference("provisioning_job", {"run_id"}),
       DropCols("provisioning_job", {"run_position", "run_id"}), Drop("provisioning_run"),
       Detach("client_service", {"ix_client_service_cpe_item_id"}),
       Unreference("client_service", {"cpe_item_id"}),
       DropCols("client_service", {"path_changed_at", "cpe_item_id"}),
       Drop("inventory_item_playbook"), Drop("device_type_playbook"),
       DropCols("device_category", {"is_passive"}),
       Detach("inventory_item", {"ck_inventory_item_not_self_parent",
         "ck_inventory_item_parent_attached", "ix_inventory_item_company_attached",
         "ix_inventory_item_parent_id"}),
       Unreference("inventory_item", {"parent_id"}),
       DropCols("inventory_item", {"network_attached", "parent_id"}) >>)

\* cycle 10: guard the retired syntax, then drop Topology (doc 35 ?8)
ng2_topology_drop == Revision("ng2_topology_drop", {"ng1_network_graph"},
    << Rows([playbook |-> {"definition", "id", "name"}, client_service |-> {"cpe_item_id", "id",
         "topology_id"}, workflow_step |-> {"action_config"},
         workflow_template |-> {"definition"}]),
       Detach("client_service", {"ix_client_service_topology_id"}),
       DropColsPresent("client_service", {"topology_id"}),
       DropColsPresent("service_plan", {"default_topology_id"}),
       DropColsPresent("playbook", {"topology_id"}), DropPresent("topology_playbook"),
       DropPresent("topology_device_type"), DropPresent("topology"),
       Rows([workflow_template |-> {"definition"}, workflow_step |-> {"action_config"},
         client_service |-> {}, playbook |-> {}]) >>,
    Irreversible)

\* NAT transport mode: gateway port-mapping as a second reachability path
nat1_gateway_transport == Revision("nat1_gateway_transport", {"ng2_topology_drop"},
    << Add("network_access", {"gateway_host"}),
       Add("inventory_item", {"nat_port", "mgmt_host_key"}),
       Detach("network_access", {"ck_network_access_mode"}),
       Attach("network_access", [ck_network_access_mode |-> {"mode"}]),
       Rows([inventory_item |-> {"mgmt_port"}]),
       Attach("inventory_item", [ck_inventory_item_nat_port |-> {"nat_port"},
         ck_inventory_item_mgmt_port |-> {"mgmt_port"},
         uq_inventory_item_company_nat_port |-> {"company_id", "nat_port"}]) >>,
    << Rows([network_access |-> {"mode"}]),
       Detach("inventory_item", {"uq_inventory_item_company_nat_port",
         "ck_inventory_item_mgmt_port", "ck_inventory_item_nat_port"}),
       Detach("network_access", {"ck_network_access_mode"}),
       Attach("network_access", [ck_network_access_mode |-> {"mode"}]),
       DropCols("inventory_item", {"mgmt_host_key", "nat_port"}),
       DropCols("network_access", {"gateway_host"}) >>)

\* NAT transport: DB-level CHECK tying mode to gateway_host
nat2_gateway_host_check == Revision("nat2_gateway_host_check", {"nat1_gateway_transport"},
    << Rows([network_access |-> {"gateway_host", "mode"}]),
       Attach("network_access", [ck_network_access_nat_gateway_host |-> {"mode",
         "gateway_host"}]) >>,
    << Detach("network_access", {"ck_network_access_nat_gateway_host"}) >>)

\* nat_zt redesign: per-tenant Pylon SOCKS5 endpoint
nat3_pylon_socks5 == Revision("nat3_pylon_socks5", {"nat2_gateway_host_check"},
    << Add("network_access", {"pylon_socks5"}),
       Rows([network_access |-> {"mode", "pylon_socks5"}]),
       Attach("network_access", [ck_network_access_pylon_socks5 |-> {"mode", "pylon_socks5"}]) >>,
    << Detach("network_access", {"ck_network_access_pylon_socks5"}),
       DropCols("network_access", {"pylon_socks5"}) >>)

\* Paid tiers (Basic/Premium/Pro/Enterprise): add Network modules.
t2_paid_tier_network_modules == Revision("t2_paid_tier_network_modules", {"nat3_pylon_socks5"},
    << Rows([tier |-> {"modules", "name"}]) >>,
    << Rows([tier |-> {"modules", "name"}]) >>)

\* uplink-mobile: uploaded_file (shared polymorphic photo/signature store)
uf1_uploaded_file == Revision("uf1_uploaded_file", {"t2_paid_tier_network_modules"},
    << NewType("uploadedfileownertype", {"TASK_CLOSEOUT", "COLLECTION_VISIT", "CASH_SESSION"}),
       NewType("uploadedfilekind", {"PHOTO", "SIGNATURE"}),
       Create("uploaded_file", {"id", "created_at", "owner_type", "owner_id", "kind", "storage_key",
         "content_type", "size_bytes", "company_id", "uploaded_by"}, [company_id |-> "company",
         uploaded_by |-> "user"]),
       Attach("uploaded_file", [ix_uploaded_file_company_id |-> {"company_id"},
         ix_uploaded_file_owner |-> {"owner_type", "owner_id"}]) >>,
    << Detach("uploaded_file", {"ix_uploaded_file_owner", "ix_uploaded_file_company_id"}),
       Drop("uploaded_file"), DropTypePresent({"uploadedfilekind", "uploadedfileownertype"}) >>)

NetworkRevisions ==
  << nc1a_network_config_core, nc1b_device_audit_trigger, nc2a_core_config, c8a_playbook_topology,
     t1_free_trial_unlimited, t2_grandfather_email_verified, ba1_attested_adoption,
     cf1_drop_client_install_fields, rb1_recurrente_billing, tk1_new_installation_v4,
     pv1_namespaced_variables, sp1_service_params, bf1_topology_backfill, lc1_retire_removal_tmpl,
     lc2_retire_susp_react, ng1_network_graph, ng2_topology_drop, nat1_gateway_transport,
     nat2_gateway_host_check, nat3_pylon_socks5, t2_paid_tier_network_modules, uf1_uploaded_file >>
=============================================================================
