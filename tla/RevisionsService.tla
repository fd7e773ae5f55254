-------------------------- MODULE RevisionsService --------------------------
(***************************************************************************)
(* Services, ports, client codes, guided and zero-touch provisioning,      *)
(* dunning, payment links, the second workflow engine.                     *)
(*                                                                         *)
(* One definition per revision under alembic/versions: what upgrade() and  *)
(* downgrade() ask of the server, in their order.  Neighbouring statements *)
(* of one kind on one table are written as one.  A revision whose id       *)
(* starts with a digit is named r_<id>; a long upgrade() has a definition  *)
(* of its own.                                                             *)
(***************************************************************************)
EXTENDS SchemaOps

\* Grant service_plans.read to the system TECHNICIAN role
mp1_technician_plan_read == Revision("mp1_technician_plan_read", {"ld1_legacy_drop"},
    << Rows([role_permission |-> {"permission_id", "role_id"}, role |-> {"company_id", "id",
         "name"}, permission |-> {"id", "name"}]) >>,
    << Rows([role_permission |-> {"permission_id", "role_id"}, role |-> {"company_id", "id",
         "name"}, permission |-> {"id", "name"}]) >>)

\* client.payment_day: the client's usual payment day of month (1..31)
pd1_client_payment_day == Revision("pd1_client_payment_day", {"mp1_technician_plan_read"},
    << AddMissing("client", {"payment_day"}),
       AttachMissing("client", [ck_client_payment_day_range |-> {"payment_day"}]),
       Rows([client |-> {"payment_day"}]) >>,
    << DetachPresent("client", {"ck_client_payment_day_range"}),
       DropColsPresent("client", {"payment_day"}) >>)

\* Cash-box admin review: SUBMITTED/REJECTED/APPROVED + review trail + permission
cr1_cash_review == Revision("cr1_cash_review", {"pd1_client_payment_day"},
    << Autocommit, Labels("cashsessionstatus", {"SUBMITTED", "REJECTED", "APPROVED"}),
       Transaction,
       AddMissing("cash_session", {"submitted_at", "reviewed_at", "review_note", "reviewed_by"}),
       ReferenceMissing("cash_session", [reviewed_by |-> "user"]),
       AttachMissing("cash_session", [ix_cash_session_company_status |-> {"company_id", "status"}]),
       Rows([permission |-> {"action", "created_at", "description", "id", "name", "resource"},
         role_permission |-> {"permission_id", "role_id"}, role |-> {"company_id", "id", "name"},
         cash_session |-> {"review_note", "reviewed_at", "reviewed_by", "submitted_at"}]) >>,
    << Rows([role_permission |-> {"permission_id"}, permission |-> {"id", "name"}]),
       DetachPresent("cash_session", {"ix_cash_session_company_status"}),
       UnreferencePresent("cash_session", {"reviewed_by"}),
       DropColsPresent("cash_session", {"reviewed_by", "review_note", "reviewed_at",
         "submitted_at"}) >>)

\* Data repair: reconstruct client-service history for plan changes the ISP adoption missed
sh1_service_history_repair_up ==
  << Rows([order |-> {"client_service_id", "created_at", "id", "order_type", "status",
       "total_cents"}, client_service |-> {"activation_date", "billing_status", "cancelled_at",
       "client_id", "company_id", "created_at", "id", "next_generation_date", "recurrence_end",
       "service_plan_id", "status", "updated_at"}, service_plan |-> {"company_id", "id",
       "is_active", "kind", "name", "price_cents"}, order_item |-> {"id", "order_id",
       "product_name", "quantity", "service_plan_id", "unit_price_cents"}]) >>

sh1_service_history_repair == Revision("sh1_service_history_repair", {"cr1_cash_review"}, sh1_service_history_repair_up,
    Irreversible)

\* port-level topology: device-type port templates, item ports, network links
pt1_port_topology_up ==
  << AddMissing("device_type", {"port_template", "path_role"}),
     AttachMissing("device_type", [ck_device_type_ports_serialized |-> {"port_template",
       "is_serialized"}]),
     AttachMissing("inventory_item", [uq_inventory_item_id_company |-> {"id", "company_id"}]),
     CreateMissing("inventory_item_port", Stamped \cup {"company_id", "item_id", "name", "slot",
       "number", "medium", "direction", "origin"}, [company_id |-> "company",
       item_id |-> "inventory_item"]),
     AttachMissing("inventory_item_port", [uq_item_port_identity |-> {"id", "item_id",
       "company_id"}, ck_item_port_slot |-> {"slot"}, ck_item_port_number |-> {"number"},
       ck_item_port_medium |-> {"medium"}, ck_item_port_direction |-> {"direction"},
       ck_item_port_origin |-> {"origin"}, uq_item_port_name |-> {"item_id", "name"},
       uq_item_port_pon_number |-> {"item_id", "slot", "number", "direction", "medium"},
       ix_item_port_company |-> {"company_id"}]),
     CreateMissing("network_link", Stamped \cup {"company_id", "up_item_id", "up_port_id",
       "down_item_id", "down_port_id", "source", "task_id", "created_by_id"},
       [company_id |-> "company", task_id |-> "task", created_by_id |-> "user",
       up_port_id |-> "inventory_item_port", down_item_id |-> "inventory_item",
       down_port_id |-> "inventory_item_port"]),
     AttachMissing("network_link", [uq_link_up_port |-> {"up_port_id"},
       uq_link_down_port |-> {"down_port_id"}, uq_link_down_item |-> {"down_item_id"},
       ck_link_not_self |-> {"up_item_id", "down_item_id"}, ck_link_source |-> {"source"},
       ix_network_link_up_item |-> {"up_item_id"}, ix_network_link_company |-> {"company_id"}]),
     Functions({"network_link_assert_parent", "trg_fn_network_link_parent_sync",
       "trg_fn_inventory_item_link_sync"}),
     DetachPresent("network_link", {"trg_network_link_parent_sync"}),
     Attach("network_link", [trg_network_link_parent_sync |-> {}]),
     DetachPresent("inventory_item", {"trg_inventory_item_link_sync"}),
     Attach("inventory_item", [trg_inventory_item_link_sync |-> {}]) >>

pt1_port_topology == Revision("pt1_port_topology", {"sh1_service_history_repair"}, pt1_port_topology_up,
    << Rows([inventory_item_port |-> {"origin"}]),
       DetachPresent("inventory_item", {"trg_inventory_item_link_sync"}),
       DetachPresent("network_link", {"trg_network_link_parent_sync"}),
       DropFunctions({"trg_fn_inventory_item_link_sync", "trg_fn_network_link_parent_sync",
         "network_link_assert_parent"}),
       DropPresent("network_link"), DropPresent("inventory_item_port"),
       DetachPresent("inventory_item", {"uq_inventory_item_id_company"}),
       DetachPresent("device_type", {"ck_device_type_ports_serialized"}),
       DropColsPresent("device_type", {"path_role", "port_template"}) >>)

\* client.code: short per-company unique client id (legacy or random), overrideable
cc1_client_code == Revision("cc1_client_code", {"pt1_port_topology"},
    << Functions({"client_code_generate"}),
       AddMissing("client", {"code"}),
       Rows([client |-> {"code", "company_id", "id", "observations"}]),
       Alter("client", {"code"}),
       Fill("client", {"code"}),
       NotNull("client", {"code"}),
       AttachMissing("client", [ck_client_code_format |-> {"code"},
         uq_client_company_code |-> {"company_id", "code"}]),
       Rows([client |-> {"code"}]) >>,
    << DetachPresent("client", {"uq_client_company_code", "ck_client_code_format"}),
       DropColsPresent("client", {"code"}), DropFunctions({"client_code_generate"}) >>)

\* Revoke device_credentials.read from the system VIEWER role
vw1_viewer_no_credential_read == Revision("vw1_viewer_no_credential_read", {"cc1_client_code"},
    << Rows([role_permission |-> {"permission_id", "role_id"}, role |-> {"company_id", "id",
         "name"}, permission |-> {"id", "name"}]) >>,
    << Rows([role_permission |-> {"permission_id", "role_id"}, role |-> {"company_id", "id",
         "name"}, permission |-> {"id", "name"}]) >>)

\* Unmap the lp1 free-text port labels; drop their unique index
pt2_unmap_port_labels == Revision("pt2_unmap_port_labels", {"vw1_viewer_no_credential_read"},
    << DetachPresent("inventory_item", {"uq_inventory_item_parent_port"}) >>,
    << AttachMissing("inventory_item", [uq_inventory_item_parent_port |-> {"parent_id",
         "parent_port"}]) >>)

\* Mutant: downgrade() leaves the column.
pc1_keeps_the_column == Revision("pc1_provisioning_claim_token", {"pt2_unmap_port_labels"},
    << AddMissing("provisioning_job", {"claim_token"}) >>, <<>>)
\* Mutant: the column is in the model, and upgrade() was never filled in.
pc1_does_nothing == Revision("pc1_provisioning_claim_token", {"pt2_unmap_port_labels"}, <<>>, <<>>)

\* provisioning_job.claim_token: the worker's per-claim fence token
pc1_provisioning_claim_token == Revision("pc1_provisioning_claim_token", {"pt2_unmap_port_labels"},
    << AddMissing("provisioning_job", {"claim_token"}) >>,
    << DropColsPresent("provisioning_job", {"claim_token"}) >>)

\* task_assignee mapped as the TaskAssignee model: schema check only
ta1_task_assignee_model == Revision("ta1_task_assignee_model", {"pc1_provisioning_claim_token"},
    << Rows([task_assignee |-> {"task_id", "user_id", "role"}]),
       Expect("task_assignee", {"ck_task_assignee_role"}) >>,
    <<>>)

\* inventory_item.received_at: when the unit entered stock (FIFO key)
ri1_inventory_received_at == Revision("ri1_inventory_received_at", {"ta1_task_assignee_model"},
    << AddMissing("inventory_item", {"received_at"}),
       Rows([inventory_item |-> {"created_at", "received_at"}]),
       Fill("inventory_item", {"received_at"}),
       NotNull("inventory_item", {"received_at"}),
       Rows([inventory_item |-> {"received_at"}]) >>,
    << DropColsPresent("inventory_item", {"received_at"}) >>)

\* task.latitude/longitude: the task's own reference point (doc 46 ?4.2.1)
tl1_task_location == Revision("tl1_task_location", {"ri1_inventory_received_at"},
    << AddMissing("task", {"latitude", "longitude"}),
       AttachMissing("task", [ck_task_location |-> {"latitude", "longitude"}]),
       Rows([task |-> {}]) >>,
    << DetachPresent("task", {"ck_task_location"}),
       DropColsPresent("task", {"longitude", "latitude"}) >>)

\* task.onu_auto_assigned + reservation backfill (doc 45 ?4.3, ZTP SP4)
oa1_task_onu_auto_assigned == Revision("oa1_task_onu_auto_assigned", {"tl1_task_location"},
    << AddFilledMissing("task", {"onu_auto_assigned"}),
       Rows([inventory_item |-> {"company_id", "device_type_id", "id", "status"},
         device_type |-> {"category_id", "id"}, device_category |-> {"id", "key"},
         task |-> {"created_at", "id", "inventory_item_id", "job_kind", "onu_auto_assigned",
         "status"}, equipment_event |-> {"company_id", "created_at", "event_metadata", "event_type",
         "id", "item_id", "technician_id"}, task_assignee |-> {"role", "task_id", "user_id"}]) >>,
    << DropColsPresent("task", {"onu_auto_assigned"}) >>)

\* engine v2: run/job phase, run outcome + outputs + secrets, CLI_ENABLE credential kind
pe1_playbook_phases == Revision("pe1_playbook_phases", {"oa1_task_onu_auto_assigned"},
    << AddMissing("provisioning_run", {"phase", "error_code", "error", "outputs",
         "secrets_ciphertext", "secrets_dek_wrapped", "secrets_kek_id"}),
       AddMissing("provisioning_job", {"phase"}),
       DetachPresent("provisioning_run", {"ck_provisioning_run_phase"}),
       Attach("provisioning_run", [ck_provisioning_run_phase |-> {"phase"}]),
       DetachPresent("provisioning_job", {"ck_provisioning_job_phase"}),
       Attach("provisioning_job", [ck_provisioning_job_phase |-> {"phase"}]),
       DetachPresent("device_credential", {"ck_device_credential_kind"}),
       Attach("device_credential", [ck_device_credential_kind |-> {"kind"}]) >>,
    << Rows([device_credential |-> {"kind"}]),
       DetachPresent("device_credential", {"ck_device_credential_kind"}),
       Attach("device_credential", [ck_device_credential_kind |-> {"kind"}]),
       DetachPresent("provisioning_run", {"ck_provisioning_run_phase"}),
       DetachPresent("provisioning_job", {"ck_provisioning_job_phase"}),
       DropColsPresent("provisioning_job", {"phase"}),
       DropColsPresent("provisioning_run", {"secrets_kek_id", "secrets_dek_wrapped",
         "secrets_ciphertext", "outputs", "error", "error_code", "phase"}) >>)

\* ZTP trigger: ztp_enabled switch, ZTP_* notification kinds, push outbox, push tokens
zt1_ztp_trigger == Revision("zt1_ztp_trigger", {"pe1_playbook_phases"},
    << AddFilledMissing("provisioning_settings", {"ztp_enabled"}),
       DetachPresent("user_notification", {"ck_user_notification_kind"}),
       Attach("user_notification", [ck_user_notification_kind |-> {"kind"}]),
       AddMissing("user_notification", {"push_state"}),
       AttachMissing("user_notification", [ix_user_notification_push_pending |-> {"created_at",
         "push_state"}]),
       CreateMissing("user_push_token", Stamped \cup {"token", "platform", "app", "company_id",
         "user_id"}, [company_id |-> "company", user_id |-> "user"]),
       AttachMissing("user_push_token", [uq_user_push_token_token |-> {"token"},
         ck_user_push_token_platform |-> {"platform"}, ck_user_push_token_app |-> {"app"},
         ix_user_push_token_user_id |-> {"user_id"}]) >>,
    << DropPresent("user_push_token"),
       DetachPresent("user_notification", {"ix_user_notification_push_pending"}),
       DropColsPresent("user_notification", {"push_state"}),
       Rows([user_notification |-> {"kind"}]),
       DetachPresent("user_notification", {"ck_user_notification_kind"}),
       Attach("user_notification", [ck_user_notification_kind |-> {"kind"}]),
       DropColsPresent("provisioning_settings", {"ztp_enabled"}) >>)

\* manual playbook steps: PENDING_MANUAL job status, in-flight indexes, ZTP_MANUAL_STEP kind
zm1_manual_step == Revision("zm1_manual_step", {"zt1_ztp_trigger"},
    << Autocommit, Labels("provisioningjobstatus", {"PENDING_MANUAL"}), Transaction,
       DetachPresent("provisioning_job", {"uq_provisioning_job_company_idem"}),
       UsesLabels("provisioningjobstatus", {"PENDING_INFORM", "PENDING_MANUAL"}),
       AttachMissing("provisioning_job", [uq_provisioning_job_company_idem |-> {"company_id",
         "idempotency_key", "status"}]),
       DetachPresent("provisioning_job", {"uq_provisioning_job_device_lock"}),
       AttachMissing("provisioning_job", [uq_provisioning_job_device_lock |-> {"device_lock_key",
         "status"}]),
       DetachPresent("provisioning_run", {"uq_provisioning_run_company_idem"}),
       AttachMissing("provisioning_run", [uq_provisioning_run_company_idem |-> {"company_id",
         "idempotency_key", "status"}]),
       DetachPresent("user_notification", {"ck_user_notification_kind"}),
       Attach("user_notification", [ck_user_notification_kind |-> {"kind"}]) >>,
    << Rows([provisioning_job |-> {"status"}]),
       DetachPresent("provisioning_job", {"uq_provisioning_job_company_idem"}),
       AttachMissing("provisioning_job", [uq_provisioning_job_company_idem |-> {"company_id",
         "idempotency_key", "status"}]),
       DetachPresent("provisioning_job", {"uq_provisioning_job_device_lock"}),
       AttachMissing("provisioning_job", [uq_provisioning_job_device_lock |-> {"device_lock_key",
         "status"}]),
       DetachPresent("provisioning_run", {"uq_provisioning_run_company_idem"}),
       AttachMissing("provisioning_run", [uq_provisioning_run_company_idem |-> {"company_id",
         "idempotency_key", "status"}]),
       Rows([user_notification |-> {"kind"}]),
       DetachPresent("user_notification", {"ck_user_notification_kind"}),
       Attach("user_notification", [ck_user_notification_kind |-> {"kind"}]) >>)

\* ZTP always on: drop provisioning_settings.ztp_enabled
zt3_ztp_always_on == Revision("zt3_ztp_always_on", {"zm1_manual_step"},
    << DropColsPresent("provisioning_settings", {"ztp_enabled"}) >>,
    << AddFilledMissing("provisioning_settings", {"ztp_enabled"}) >>)

\* Backfill client.payment_day from each client's payment history
pd2_payment_day_backfill == Revision("pd2_payment_day_backfill", {"zt3_ztp_always_on"},
    << Rows([payment |-> {"id", "kind", "order_id", "paid_at", "reverses_payment_id"},
         order |-> {"client_id", "id"}, client |-> {"id", "payment_day"}]) >>,
    <<>>)

\* provisioning_run.mode + guided_timeout_seconds (guided runs, doc 50)
gr1_guided_runs == Revision("gr1_guided_runs", {"pd2_payment_day_backfill"},
    << AddFilledMissing("provisioning_run", {"mode", "guided_timeout_seconds"}),
       Rows([provisioning_run |-> {}]) >>,
    << DropColsPresent("provisioning_run", {"guided_timeout_seconds", "mode"}) >>)

\* provisioning_event outbox (provisioning worker split R2, design ?3.2)
pw1_provisioning_event == Revision("pw1_provisioning_event", {"gr1_guided_runs"},
    << CreateMissing("provisioning_event", {"id", "company_id", "kind", "run_id", "job_id",
         "payload", "created_at", "processed_at", "attempts", "last_error"},
         [company_id |-> "company"]),
       AttachMissing("provisioning_event", [ix_provisioning_event_pending |-> {"id",
         "processed_at"}]) >>,
    << DropPresent("provisioning_event") >>)

\* company.provisioning_zone: per-tenant provisioning worker routing
pz1_provisioning_zone == Revision("pz1_provisioning_zone", {"pw1_provisioning_event"},
    << AddMissing("company", {"provisioning_zone"}) >>,
    << DropColsPresent("company", {"provisioning_zone"}) >>)

\* Collection areas: one polygon per collector + the collector's home + permissions
ca1_collection_areas == Revision("ca1_collection_areas", {"pz1_provisioning_zone"},
    << CreateMissing("collection_area", Stamped \cup {"name", "color", "polygon", "company_id",
         "collector_id"}, [company_id |-> "company", collector_id |-> "user"]),
       AttachMissing("collection_area", [uq_collection_area_company_name |-> {"company_id", "name"},
         ck_collection_area_color |-> {"color"}, ck_collection_area_polygon |-> {"polygon",
         "polygon"}, ix_collection_area_company_id |-> {"company_id"},
         uq_collection_area_collector |-> {"collector_id"}]),
       AddMissing("user", {"home_latitude", "home_longitude"}),
       AttachMissing("user", [ck_user_home_location |-> {"home_latitude", "home_longitude"}]),
       Rows([permission |-> {"action", "created_at", "description", "id", "name", "resource"},
         role_permission |-> {"permission_id", "role_id"}, role |-> {"company_id", "id", "name"},
         user |-> {"home_latitude", "home_longitude"}]) >>,
    << Rows([role_permission |-> {"permission_id"}, permission |-> {"id", "name"}]),
       DetachPresent("user", {"ck_user_home_location"}),
       DropColsPresent("user", {"home_longitude", "home_latitude"}),
       DropPresent("collection_area") >>)

\* whatsapp_bot_config: men? del bot de WhatsApp (Nova) por cablera
wb1_whatsapp_bot_config == Revision("wb1_whatsapp_bot_config", {"ca1_collection_areas"},
    << CreateMissing("whatsapp_bot_config", Stamped \cup {"company_id", "enabled", "welcome_text",
         "menu_button_text", "options"}, [company_id |-> "company"]),
       AttachMissing("whatsapp_bot_config", [uq_whatsapp_bot_config_company |-> {"company_id"}]) >>,
    << DropPresent("whatsapp_bot_config") >>)

\* cp1_dunning: dunning settings, payment promises, dunning runs, portal RBAC
cp1_dunning == Revision("cp1_dunning", {"wb1_whatsapp_bot_config"},
    << AddMissing("company", {"dunning_settings"}),
       NewTypeMissing("paymentpromisesource", {"PORTAL", "COLLECTOR", "BOT"}),
       NewTypeMissing("paymentpromisestatus", {"OPEN", "KEPT", "BROKEN", "CANCELLED"}),
       NewTypeMissing("dunningrunoutcome", {"OK", "TRIPPED"}),
       CreateMissing("payment_promise", {"id", "created_at", "promised_date", "source", "status",
         "reconnected", "company_id", "client_id", "client_service_id", "suspension_id",
         "created_by_user_id"}, [company_id |-> "company", client_id |-> "client",
         client_service_id |-> "client_service", suspension_id |-> "service_suspension",
         created_by_user_id |-> "user"]),
       AttachMissing("payment_promise", [uq_payment_promise_open_service |-> {"client_service_id",
         "status"}, ix_payment_promise_open_date |-> {"company_id", "promised_date", "status"},
         ix_payment_promise_service |-> {"client_service_id"}]),
       CreateMissing("dunning_run", {"id", "ran_at", "mode", "outcome", "candidates", "suspended",
         "skipped", "company_id"}, [company_id |-> "company"]),
       AttachMissing("dunning_run", [ck_dunning_run_mode |-> {"mode"},
         ix_dunning_run_company_ran_at |-> {"company_id", "ran_at"}]),
       Rows([permission |-> {"action", "created_at", "description", "id", "name", "resource"},
         role |-> {"company_id", "created_at", "description", "id", "is_system", "name"},
         role_permission |-> {"permission_id", "role_id"}]) >>,
    << Rows([role_permission |-> {"permission_id", "role_id"}, permission |-> {"id", "name"},
         role |-> {"company_id", "id", "name"}, user_role |-> {"role_id"}]),
       DropPresent("dunning_run"), DropPresent("payment_promise"),
       DropTypePresent({"dunningrunoutcome", "paymentpromisestatus", "paymentpromisesource"}),
       DropColsPresent("company", {"dunning_settings"}) >>)

\* po1_promise_office_source: PaymentPromiseSource gains OFFICE
po1_promise_office_source == Revision("po1_promise_office_source", {"cp1_dunning"},
    << Autocommit, Labels("paymentpromisesource", {"OFFICE"}), Transaction >>,
    <<>>)

\* Plan network automation: service_plan.network_automation + allowed CPE
pa1_plan_network_automation == Revision("pa1_plan_network_automation", {"po1_promise_office_source"},
    << Autocommit, Labels("taskjobkind", {"RECONNECT"}), Transaction,
       AddFilledMissing("service_plan", {"network_automation"}),
       CreateMissing("service_plan_device_category", {"service_plan_id", "device_category_id"},
         [service_plan_id |-> "service_plan", device_category_id |-> "device_category"]),
       Rows([service_plan_device_category |-> {"device_category_id", "service_plan_id"},
         service_plan |-> {"id", "kind", "network_automation"}, device_category |-> {"id", "key"},
         permission |-> {"action", "created_at", "description", "id", "name", "resource"},
         role_permission |-> {"permission_id", "role_id"}, role |-> {"company_id", "id",
         "name"}]) >>,
    << DropPresent("service_plan_device_category"),
       DropColsPresent("service_plan", {"network_automation"}) >>)

\* Device category MICRONODE (Cable over GPON receiver at the customer)
pa2_micronode_category == Revision("pa2_micronode_category", {"pa1_plan_network_automation"},
    << Rows([device_category |-> {"created_at", "icon", "id", "is_active", "is_passive",
         "is_system", "key", "name", "sort_order", "tier", "updated_at"}]) >>,
    << Rows([device_category |-> {"id", "key"}, device_type |-> {"category_id"},
         service_plan_device_category |-> {"device_category_id"}]) >>)

\* Service entity: service, service_device_category, service_plan.service_id
sv1_service_entity == Revision("sv1_service_entity", {"pa2_micronode_category"},
    << CreateMissing("service", Stamped \cup {"company_id", "name", "service_type",
         "network_automation"}, [company_id |-> "company"]),
       AttachMissing("service", [uq_service_company_name |-> {"company_id", "name"},
         ix_service_company_id |-> {"company_id"}]),
       CreateMissing("service_device_category", {"service_id", "device_category_id"},
         [service_id |-> "service", device_category_id |-> "device_category"]),
       AddMissing("service_plan", {"service_id"}),
       ReferenceMissing("service_plan", [service_id |-> "service"]),
       AttachMissing("service_plan", [ix_service_plan_service_id |-> {"service_id"}]),
       Rows([service |-> {"company_id", "id", "name", "network_automation", "service_type"},
         service_plan |-> {"company_id", "id", "kind", "network_automation", "plan_type",
         "service_group", "service_id"}, service_device_category |-> {"device_category_id",
         "service_id"}, service_plan_device_category |-> {"device_category_id",
         "service_plan_id"}]) >>,
    << DetachPresent("service_plan", {"ix_service_plan_service_id"}),
       DropColsPresent("service_plan", {"service_id"}), DropPresent("service_device_category"),
       DropPresent("service") >>)

\* payment_link: links de pago en l?nea (Recurrente) por orden
pl1_payment_link == Revision("pl1_payment_link", {"sv1_service_entity"},
    << CreateMissing("payment_link", Stamped \cup {"company_id", "client_id", "order_id",
         "integration_id", "provider", "status", "amount_cents", "currency", "payment_methods",
         "expires_at", "checkout_id", "checkout_url", "live_mode", "last_checked_at", "checks",
         "intent_id", "payment_id", "paid_at", "review_reason", "wa_integration_id", "wa_to",
         "notified_at"}, [company_id |-> "company", client_id |-> "client", order_id |-> "order",
         integration_id |-> "integration", payment_id |-> "payment",
         wa_integration_id |-> "integration"]),
       AttachMissing("payment_link", [ck_payment_link_status |-> {"status"},
         ck_payment_link_provider |-> {"provider"}, ck_payment_link_amount |-> {"amount_cents"},
         ck_payment_link_currency |-> {"currency"}, ck_payment_link_checks |-> {"checks"},
         ck_payment_link_has_checkout |-> {"status", "checkout_id", "checkout_url"},
         ck_payment_link_paid |-> {"status", "intent_id", "payment_id", "paid_at"},
         ck_payment_link_review |-> {"status", "review_reason"},
         ix_payment_link_company_id |-> {"company_id"}, ix_payment_link_client_id |-> {"client_id"},
         ix_payment_link_company_status |-> {"company_id", "status"},
         ix_payment_link_order |-> {"order_id"}, uq_payment_link_checkout |-> {"checkout_id"},
         uq_payment_link_intent |-> {"intent_id"}, uq_payment_link_active_order |-> {"order_id",
         "status"}]) >>,
    << DropPresent("payment_link") >>)

\* pl2_payment_link_support: user.is_system + uploadedfileownertype PAYMENT_LINK
pl2_payment_link_support == Revision("pl2_payment_link_support", {"pl1_payment_link"},
    << Autocommit, Labels("uploadedfileownertype", {"PAYMENT_LINK"}), Transaction,
       AddFilledMissing("user", {"is_system"}),
       DetachPresent("user", {"ck_user_system_not_super_admin"}),
       Attach("user", [ck_user_system_not_super_admin |-> {"is_system", "is_super_admin"}]),
       Rows([user |-> {"is_system"}]) >>,
    << DetachPresent("user", {"ck_user_system_not_super_admin"}),
       DropColsPresent("user", {"is_system"}) >>)

\* SaaS billing exceptions + pay-by-invoice checkout (doc 60).
sb1_billing_exceptions == Revision("sb1_billing_exceptions", {"pl2_payment_link_support"},
    << AddFilled("subscription", {"discount_percent"}),
       Add("subscription", {"discount_until", "billing_note"}),
       Attach("subscription", [ck_subscription_discount_percent |-> {"discount_percent"}]),
       Add("billing_invoice", {"recurrente_checkout_id"}),
       Attach("billing_invoice",
         [ix_billing_invoice_recurrente_checkout_id |-> {"recurrente_checkout_id"}]) >>,
    << Detach("billing_invoice", {"ix_billing_invoice_recurrente_checkout_id"}),
       DropCols("billing_invoice", {"recurrente_checkout_id"}),
       Detach("subscription", {"ck_subscription_discount_percent"}),
       DropCols("subscription", {"billing_note", "discount_until", "discount_percent"}) >>)

\* Usage-based pricing: one plan priced by active clients (doc 61).
up1_usage_pricing == Revision("up1_usage_pricing", {"sb1_billing_exceptions"},
    << Add("tier", {"included_clients", "extra_client_price", "quote_above_clients"}),
       AddFilled("subscription", {"period_peak_clients"}),
       Add("subscription", {"custom_monthly_price", "limit_overrides",
         "recurrente_payment_method_id"}),
       Add("billing_invoice", {"period_start", "period_end", "billed_clients"}),
       Rows([tier |-> {"billing_cycle", "created_at", "extra_client_price", "features", "id",
         "included_clients", "is_active", "modules", "name", "price", "price_yearly",
         "quote_above_clients"}, company |-> {"tier_id"}, subscription |-> {"billing_cycle",
         "tier_id"}]) >>,
    << DropCols("billing_invoice", {"billed_clients", "period_end", "period_start"}),
       DropCols("subscription", {"recurrente_payment_method_id", "limit_overrides",
         "custom_monthly_price", "period_peak_clients"}),
       DropCols("tier", {"quote_above_clients", "extra_client_price", "included_clients"}) >>)

\* Workflow engine v2 (doc 63-workflow-engine, plan 63a ?2)
wf1_workflow_engine_v2_up ==
  << Autocommit, Labels("executionstatus", {"WAITING", "CANCELLED"}), Transaction,
     CreateMissing("workflow_version", Stamped \cup {"published_at", "workflow_id", "company_id",
       "number", "status", "definition", "trigger_type", "trigger_key", "source_template_version",
       "created_by", "published_by"}, [workflow_id |-> "workflow", company_id |-> "company",
       created_by |-> "user", published_by |-> "user"]),
     AttachMissing("workflow_version", [uq_workflow_version_number |-> {"workflow_id", "number"},
       ck_workflow_version_status |-> {"status"},
       ck_workflow_version_trigger_type |-> {"trigger_type"},
       ck_workflow_version_number |-> {"number"}]),
     CreateMissing("automation_template", {"id", "created_at", "key", "version", "name",
       "description", "category", "changelog", "params", "requires", "definition", "checksum"},
       None),
     AttachMissing("automation_template", [uq_automation_template_key_version |-> {"key",
       "version"}, ck_automation_template_version |-> {"version"}]),
     CreateMissing("workflow_event", {"id", "company_id", "name", "payload", "depth",
       "source_run_id", "created_at", "processed_at", "attempts", "last_error"},
       [company_id |-> "company"]),
     CreateMissing("service_boost", Stamped \cup {"company_id", "client_service_id", "extra_mb",
       "base_download_mbps", "base_upload_mbps", "boost_download_mbps", "boost_upload_mbps",
       "starts_at", "expires_at", "status", "end_reason", "start_run_id", "end_run_id",
       "workflow_execution_id", "end_attempts", "ended_at"}, [company_id |-> "company",
       client_service_id |-> "client_service"]),
     AttachMissing("service_boost", [ck_service_boost_extra_mb |-> {"extra_mb"},
       ck_service_boost_end_attempts |-> {"end_attempts"}, ck_service_boost_status |-> {"status"},
       ck_service_boost_end_reason |-> {"end_reason", "end_reason"}]),
     AddFilledMissing("workflow", {"engine_version"}),
     AddMissing("workflow", {"active_version_id", "source_template_key", "source_template_version",
       "template_params", "ignored_template_version"}),
     AddFilledMissing("workflow_execution", {"updated_at", "depth", "is_test"}),
     AddMissing("workflow_execution", {"company_id", "version_id", "definition", "dedupe_key",
       "test_options", "context", "cursor", "resume_at", "claim_token", "heartbeat_at", "client_id",
       "client_service_id", "customer_message", "error_code"}),
     ReferenceMissing("workflow_execution", [company_id |-> "company",
       version_id |-> "workflow_version"]),
     AddMissing("workflow_step_execution", {"node_key", "action_key", "input", "error_code",
       "resume_at"}),
     AddFilledMissing("workflow_step_execution", {"attempts", "simulated"}),
     AddMissing("company", {"workflow_daily_message_cap"}),
     AddMissing("provisioning_run", {"workflow_execution_id"}),
     ReferenceMissing("workflow", [active_version_id |-> "workflow_version"]),
     Rows([workflow_execution |-> {"company_id", "workflow_id"}, workflow |-> {"company_id",
       "id"}]),
     AttachMissing("workflow_version", [ix_workflow_version_workflow_id |-> {"workflow_id"},
       ix_workflow_version_company_id |-> {"company_id"},
       uq_workflow_version_draft |-> {"workflow_id", "status"},
       ix_workflow_version_trigger |-> {"company_id", "trigger_key"}]),
     AttachMissing("workflow_event", [ix_workflow_event_pending |-> {"id", "processed_at"}]),
     AttachMissing("service_boost", [ix_service_boost_company_id |-> {"company_id"},
       ix_service_boost_client_service_id |-> {"client_service_id"},
       uq_service_boost_open |-> {"client_service_id", "status"},
       ix_service_boost_due |-> {"expires_at", "status"}]),
     UsesLabels("executionstatus", {"WAITING"}),
     AttachMissing("workflow_execution", [ix_workflow_execution_company_id |-> {"company_id"},
       ix_workflow_execution_client_id |-> {"client_id"},
       ix_workflow_execution_client_service_id |-> {"client_service_id"},
       uq_workflow_execution_dedupe |-> {"workflow_id", "dedupe_key"},
       ix_workflow_execution_runnable |-> {"resume_at", "status", "definition"}]),
     AttachMissing("workflow_step_execution", [uq_step_execution_node |-> {"execution_id",
       "node_key"}, ix_step_execution_messages |-> {"action_key", "completed_at"}]) >>

wf1_workflow_engine_v2 == Revision("wf1_workflow_engine_v2", {"up1_usage_pricing"}, wf1_workflow_engine_v2_up,
    << DropColsPresent("workflow_step_execution", {"node_key", "action_key", "attempts",
         "simulated", "input", "error_code", "resume_at"}),
       DropColsPresent("workflow_execution", {"updated_at", "company_id", "version_id",
         "definition", "dedupe_key", "depth", "is_test", "test_options", "context", "cursor",
         "resume_at", "claim_token", "heartbeat_at", "client_id", "client_service_id",
         "customer_message", "error_code"}),
       DropColsPresent("workflow", {"engine_version", "active_version_id", "source_template_key",
         "source_template_version", "template_params", "ignored_template_version"}),
       DropColsPresent("company", {"workflow_daily_message_cap"}),
       DropColsPresent("provisioning_run", {"workflow_execution_id"}),
       DropPresent("service_boost"), DropPresent("workflow_event"),
       DropPresent("automation_template"), DropPresent("workflow_version") >>)

\* Conversational workflows (doc 64 / plan 64a ?2)
wf2_conversational == Revision("wf2_conversational", {"wf1_workflow_engine_v2"},
    << AddMissing("workflow_execution", {"awaited_key", "cancel_requested_at", "cancel_code"}),
       AddFilledMissing("workflow_execution", {"outbox_delivered"}),
       AddFilledMissing("workflow_step_execution", {"messages_sent"}),
       UsesLabels("executionstatus", {"WAITING"}),
       AttachMissing("workflow_execution", [uq_workflow_execution_awaited |-> {"awaited_key",
         "status"}]),
       AttachMissing("workflow_step_execution", [ix_step_execution_sent |-> {"started_at",
         "messages_sent"}]) >>,
    << DropColsPresent("workflow_step_execution", {"messages_sent"}),
       DropColsPresent("workflow_execution", {"outbox_delivered", "cancel_code",
         "cancel_requested_at", "awaited_key"}) >>)

ServiceRevisions ==
  << mp1_technician_plan_read, pd1_client_payment_day, cr1_cash_review, sh1_service_history_repair,
     pt1_port_topology, cc1_client_code, vw1_viewer_no_credential_read, pt2_unmap_port_labels,
     pc1_provisioning_claim_token, ta1_task_assignee_model, ri1_inventory_received_at,
     tl1_task_location, oa1_task_onu_auto_assigned, pe1_playbook_phases, zt1_ztp_trigger,
     zm1_manual_step, zt3_ztp_always_on, pd2_payment_day_backfill, gr1_guided_runs,
     pw1_provisioning_event, pz1_provisioning_zone, ca1_collection_areas, wb1_whatsapp_bot_config,
     cp1_dunning, po1_promise_office_source, pa1_plan_network_automation, pa2_micronode_category,
     sv1_service_entity, pl1_payment_link, pl2_payment_link_support, sb1_billing_exceptions,
     up1_usage_pricing, wf1_workflow_engine_v2, wf2_conversational >>
=============================================================================
