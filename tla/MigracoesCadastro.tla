------------------------- MODULE MigracoesCadastro --------------------------
(***************************************************************************)
(* The migrations of the registers: unique e-mails, settings, quick        *)
(* replies, custom fields, invites, internal chat, departments, chatbots,  *)
(* and the removal of the integrations module.                             *)
(***************************************************************************)
EXTENDS MigracoesBase

EmailUnicoEmUsers1789480000005 == [
    up |-> <<Nomeia("uq_users_email", "users")>>,
    down |-> <<Se(Anula("uq_users_email"))>>]

CreatePasswordResetsTable1789480000006 == [
    up |-> <<Se(Cria("password_resets", {"user_id", "token_hash", "expires_at"}, {"id", "used_at",
                 "created_at"}, {<<"passwordresets_user_fk", "user_id", "users">>})),
             Nomeia("uq_password_resets_token_hash", "password_resets")>>,
    down |-> <<Se(Anula("uq_password_resets_token_hash")),
               Se(Solta("password_resets"))>>]

CreateSystemSettingsTable1789480000007 == [
    up |-> <<Se(Cria("system_settings", {"chave", "valor"}, {"id", "updated_at", "updated_by"},
                 {<<"systemsettings_user_fk", "updated_by", "users">>}))>>,
    down |-> <<Se(Solta("system_settings"))>>]

CreateCustomFieldsTable1789490000000 == [
    up |-> <<Se(Cria("custom_fields", {"nome", "tipo", "aplica_a"}, {"id", "opcoes", "created_at",
                 "updated_at", "deleted_at"}, {})),
             Nomeia("uq_custom_fields_nome", "custom_fields")>>,
    down |-> <<Se(Anula("uq_custom_fields_nome")),
               Se(Solta("custom_fields"))>>]

CreateCustomValuesTables1789490000001 == [
    up |-> <<Se(Cria("contact_custom_values", {"contact_id", "custom_field_id", "valor"},
                 {"created_at", "updated_at"},
                 {<<"contactcustomvalue_contact_fk", "contact_id", "contacts">>,
                 <<"contactcustomvalue_field_fk", "custom_field_id", "custom_fields">>})),
             Se(Cria("client_custom_values", {"client_id", "custom_field_id", "valor"},
                 {"created_at", "updated_at"},
                 {<<"clientcustomvalue_client_fk", "client_id", "clients">>,
                 <<"clientcustomvalue_field_fk", "custom_field_id", "custom_fields">>}))>>,
    down |-> <<Se(Solta("client_custom_values")),
               Se(Solta("contact_custom_values"))>>]

CreateCustomFieldPermissions1789490000002 == [
    up |-> <<Modulos({13}),
             Semeia({<<46, 13, "custom.field:view">>, <<47, 13, "custom.field:add">>,
                 <<48, 13, "custom.field:update">>, <<49, 13, "custom.field:delete">>}),
             Concede({Administrador}, 46..49)>>,
    down |-> <<Revoga(PadroesDoSistema, 46..49),
               ApagaPermissoes(46..49),
               ApagaModulos({13})>>]

CreateSupportChatEventsTable1789500000000 == [
    up |-> <<Se(Cria("support_chat_events", {"support_chat_id", "tipo"}, {"id", "user_origem_id",
                 "user_destino_id", "motivo", "created_at"},
                 {<<"supportchatevent_chat_fk", "support_chat_id", "support_chats">>,
                 <<"supportchatevent_origem_fk", "user_origem_id", "users">>,
                 <<"supportchatevent_destino_fk", "user_destino_id", "users">>}))>>,
    down |-> <<Se(Solta("support_chat_events"))>>]

CreateTransferPermission1789500000001 == [
    up |-> <<Semeia({<<50, 5, "support.chat:transfer">>}),
             Concede({Administrador}, {50})>>,
    down |-> <<Revoga(PadroesDoSistema, {50}),
               ApagaPermissoes({50})>>]

AddMensagensAutomaticasToChannels1789500000002 == [
    up |-> <<Poe("channels", {}, {"mensagem_saudacao", "mensagem_despedida"})>>,
    down |-> <<Tira("channels", {"mensagem_saudacao", "mensagem_despedida"})>>]

AddPreferenciasTemaToUsers1789510000000 == [
    up |-> <<Poe("users", {}, {"tema", "modo_tema"})>>,
    down |-> <<Tira("users", {"tema", "modo_tema"})>>]

CreateQuickRepliesTable1789520000000 == [
    up |-> <<Se(Cria("quick_replies", {"atalho", "mensagem"}, {"id", "anexo_key", "anexo_nome",
                 "anexo_mimetype", "anexo_tipo", "created_at", "updated_at", "deleted_at"}, {})),
             Nomeia("uq_quick_replies_atalho", "quick_replies")>>,
    down |-> <<Se(Anula("uq_quick_replies_atalho")),
               Se(Solta("quick_replies"))>>]

CreateQuickReplyPermissions1789520000001 == [
    up |-> <<Modulos({14}),
             Semeia({<<51, 14, "quick.reply:view">>, <<52, 14, "quick.reply:add">>,
                 <<53, 14, "quick.reply:update">>, <<54, 14, "quick.reply:delete">>}),
             Concede({Administrador}, 51..54)>>,
    down |-> <<Revoga(PadroesDoSistema, 51..54),
               ApagaPermissoes(51..54),
               ApagaModulos({14})>>]

AddLastNameToContactsAndUsers1789530000000 == [
    up |-> <<Poe("contacts", {}, {"last_name"}),
             Poe("users", {}, {"last_name"})>>,
    down |-> <<Tira("users", {"last_name"}),
               Tira("contacts", {"last_name"})>>]

CreateUserGranularPermissions1789540000000 == [
    up |-> <<Semeia({<<55, 2, "user:change_own_email">>, <<56, 2, "user:change_group">>}),
             Concede({Administrador}, 55..56)>>,
    down |-> <<Revoga(PadroesDoSistema, 55..56),
               ApagaPermissoes(55..56)>>]

CreateChannelConfigPermission1789550000000 == [
    up |-> <<Semeia({<<57, 4, "channel:config">>}),
             Concede({Administrador}, {57})>>,
    down |-> <<Revoga(PadroesDoSistema, {57}),
               ApagaPermissoes({57})>>]

CreateProfilePermissions1789560000000 == [
    up |-> <<Semeia({<<58, 2, "user:profile_view">>, <<59, 2, "user:profile_update">>}),
             Concede(PadroesDoSistema, 58..59)>>,
    down |-> <<Revoga(PadroesDoSistema, 58..59),
               ApagaPermissoes(58..59)>>]

RemovePermissionUpdatePermission1789570000000 == [
    up |-> <<Revoga(PadroesDoSistema, {41}),
             ApagaPermissoes({41})>>,
    down |-> <<Semeia({<<41, 11, "permission:update">>}),
               Concede({Administrador}, {41})>>]

CreateServiceAlertsTable1789580000000 == [
    up |-> <<Se(Cria("service_alerts", {"titulo", "mensagem"}, {"id", "ativo", "expira_em",
                 "created_at", "updated_at", "deleted_at"}, {})),
             Se(Cria("service_alert_x_channel", {"service_alert_id", "channel_id"}, {},
                 {<<"fk_service_alert_x_channel_alert", "service_alert_id", "service_alerts">>,
                 <<"fk_service_alert_x_channel_channel", "channel_id", "channels">>})),
             Modulos({15}),
             Semeia({<<60, 15, "service.alert:view">>, <<61, 15, "service.alert:add">>,
                 <<62, 15, "service.alert:update">>, <<63, 15, "service.alert:delete">>}),
             Concede({Administrador}, 60..63)>>,
    down |-> <<Revoga(PadroesDoSistema, 60..63),
               ApagaPermissoes(60..63),
               ApagaModulos({15}),
               Se(Solta("service_alert_x_channel")),
               Se(Solta("service_alerts"))>>]

CreateInternalChatTables1789590000000 == [
    up |-> <<Se(Cria("internal_chats", {"user_a_id", "user_b_id"}, {"id", "last_message_at",
                 "created_at", "updated_at"}, {<<"fk_internal_chats_user_a", "user_a_id", "users">>,
                 <<"fk_internal_chats_user_b", "user_b_id", "users">>})),
             Nomeia("ck_internal_chats_par_ordenado", "internal_chats"),
             Nomeia("uq_internal_chats_par", "internal_chats"),
             Se(Cria("internal_chat_messages", {"internal_chat_id", "sender_id", "type"}, {"id",
                 "content", "has_media", "media_url", "media_type", "media_size", "file_name",
                 "media_expired", "media_expired_at", "read_at", "created_at", "updated_at"},
                 {<<"fk_internal_chat_messages_chat", "internal_chat_id", "internal_chats">>,
                 <<"fk_internal_chat_messages_sender", "sender_id", "users">>}))>>,
    down |-> <<Se(Solta("internal_chat_messages")),
               Se(Solta("internal_chats"))>>]

CreateInternalChatPermissions1789590000001 == [
    up |-> <<Modulos({16}),
             Semeia({<<64, 16, "internal.chat:view">>, <<65, 16, "internal.chat:send">>}),
             Concede(PadroesDoSistema, 64..65)>>,
    down |-> <<Revoga(PadroesDoSistema, 64..65),
               ApagaPermissoes(64..65),
               ApagaModulos({16})>>]

CreateUserConfigTable1789600000000 == [
    up |-> <<Se(Cria("user_config", {"user_id", "chave", "valor"}, {"id", "updated_at"},
                 {<<"userconfig_user_fk", "user_id", "users">>})),
             Nomeia("uq_user_config_chave", "user_config")>>,
    down |-> <<Se(Solta("user_config"))>>]

MigrarTemaParaUserConfig1789600000001 == [
    up |-> <<Tira("users", {"tema"}),
             Tira("users", {"modo_tema"})>>,
    down |-> <<Poe("users", {}, {"tema"}),
               Poe("users", {}, {"modo_tema"})>>]

CreateDepartmentsTable1789610000000 == [
    up |-> <<Se(Cria("departments", {"name"}, {"id", "description", "created_at", "updated_at",
                 "deleted_at"}, {})),
             Nomeia("uq_departments_name", "departments"),
             Se(Cria("user_x_department", {"user_id", "department_id"}, {},
                 {<<"userxdepartment_user_fk", "user_id", "users">>,
                 <<"userxdepartment_department_fk", "department_id", "departments">>})),
             Modulos({17}),
             Semeia({<<66, 17, "department:view">>, <<67, 17, "department:add">>,
                 <<68, 17, "department:update">>, <<69, 17, "department:delete">>}),
             Concede({Administrador}, 66..69)>>,
    down |-> <<Revoga(PadroesDoSistema, 66..69),
               ApagaPermissoes(66..69),
               ApagaModulos({17}),
               Se(Solta("user_x_department")),
               Se(Solta("departments"))>>]

CreateChannelXDepartmentTable1789620000000 == [
    up |-> <<Se(Cria("channel_x_department", {"channel_id", "department_id"}, {},
                 {<<"channelxdepartment_channel_fk", "channel_id", "channels">>,
                 <<"channelxdepartment_department_fk", "department_id", "departments">>}))>>,
    down |-> <<Se(Solta("channel_x_department"))>>]

CreateChatbotsTables1789630000000 == [
    up |-> <<Se(Cria("chatbots", {"name", "type"}, {"id", "active", "channel_id", "settings",
                 "current_published_version_id", "created_at", "updated_at", "deleted_at"},
                 {<<"chatbots_channel_fk", "channel_id", "channels">>})),
             Nomeia("uq_chatbots_name", "chatbots"),
             Nomeia("uq_chatbots_channel_type_active", "chatbots"),
             Se(Cria("chatbot_flow_versions", {"chatbot_id", "status", "graph", "version_number"},
                 {"id", "published_at", "created_at"},
                 {<<"chatbotflowversions_chatbot_fk", "chatbot_id", "chatbots">>})),
             Nomeia("uq_chatbot_flow_versions_draft", "chatbot_flow_versions"),
             Liga("chatbots", "chatbots_current_published_version_fk",
                 "current_published_version_id", "chatbot_flow_versions"),
             Modulos({18}),
             Semeia({<<70, 18, "chatbot:view">>, <<71, 18, "chatbot:add">>,
                 <<72, 18, "chatbot:update">>, <<73, 18, "chatbot:delete">>,
                 <<74, 18, "chatbot:publish">>, <<75, 18, "holiday:view">>, <<76, 18, "holiday:add">>,
                 <<77, 18, "holiday:update">>, <<78, 18, "holiday:delete">>}),
             Concede({Administrador}, 70..78)>>,
    down |-> <<Revoga(PadroesDoSistema, 70..78),
               ApagaPermissoes(70..78),
               ApagaModulos({18}),
               Se(Desliga("chatbots", "chatbots_current_published_version_fk")),
               Se(Solta("chatbot_flow_versions")),
               Se(Solta("chatbots"))>>]

CreateChatbotFlowExecutionsTable1789640000000 == [
    up |-> <<Se(Cria("chatbot_flow_executions", {"contact_id", "chatbot_id", "flow_version_id",
                 "current_flow_version_id", "status"}, {"id", "support_chat_id", "call_stack",
                 "variables", "counters", "waiting_for", "current_node_id", "version", "created_at",
                 "updated_at", "finished_at"},
                 {<<"chatbotflowexecutions_contact_fk", "contact_id", "contacts">>,
                 <<"chatbotflowexecutions_supportchat_fk", "support_chat_id", "support_chats">>,
                 <<"chatbotflowexecutions_chatbot_fk", "chatbot_id", "chatbots">>,
                 <<"chatbotflowexecutions_flowversion_fk", "flow_version_id", "chatbot_flow_versions">>,
                 <<"chatbotflowexecutions_currentflowversion_fk", "current_flow_version_id", "chatbot_flow_versions">>}))>>,
    down |-> <<Se(Solta("chatbot_flow_executions"))>>]

CreateDepartmentSchedulesTable1789650000000 == [
    up |-> <<Se(Cria("department_schedules", {"department_id", "weekday", "start_time", "end_time"},
                 {"id", "created_at"},
                 {<<"departmentschedules_department_fk", "department_id", "departments">>})),
             Poe("departments", {}, {"absence_message"})>>,
    down |-> <<Tira("departments", {"absence_message"}),
               Se(Solta("department_schedules"))>>]

AddScheduleEnabledToDepartments1789660000000 == [
    up |-> <<Poe("departments", {}, {"schedule_enabled"})>>,
    down |-> <<Tira("departments", {"schedule_enabled"})>>]

AddHasNoClientToContacts1789670000000 == [
    up |-> <<Poe("contacts", {}, {"has_no_client"})>>,
    down |-> <<Tira("contacts", {"has_no_client"})>>]

AddAvatarIsManualToContacts1789680000000 == [
    up |-> <<Poe("contacts", {}, {"avatar_is_manual"})>>,
    down |-> <<Tira("contacts", {"avatar_is_manual"})>>]

AddIgnoreSupportToContacts1789690000000 == [
    up |-> <<Poe("contacts", {}, {"ignore_support"})>>,
    down |-> <<Tira("contacts", {"ignore_support"})>>]

AddMarkedUnreadToSupportChats1789700000000 == [
    up |-> <<Poe("support_chats", {}, {"marked_unread"})>>,
    down |-> <<Tira("support_chats", {"marked_unread"})>>]

CreateAttendanceSettingsTable1789710000000 == [
    up |-> <<Se(Cria("attendance_settings", {"chave", "valor"}, {"id", "updated_at", "updated_by"},
                 {<<"attendance_settings_updated_by_fk", "updated_by", "users">>})),
             Modulos({19}),
             Semeia({<<79, 19, "attendance_settings:manage">>}),
             Concede({Administrador}, {79})>>,
    down |-> <<Revoga(PadroesDoSistema, {79}),
               ApagaPermissoes({79}),
               ApagaModulos({19}),
               Se(Solta("attendance_settings"))>>]

CreateSupportChatViewOthersPermission1789720000000 == [
    up |-> <<Semeia({<<80, 5, "support.chat:view_others">>}),
             Concede({Administrador}, {80})>>,
    down |-> <<Revoga(PadroesDoSistema, {80}),
               ApagaPermissoes({80})>>]

AddAnexoToChannelsMensagensAutomaticas1789730000000 == [
    up |-> <<Poe("channels", {}, {"saudacao_anexo_key", "saudacao_anexo_nome",
                 "saudacao_anexo_mimetype", "saudacao_anexo_tipo", "despedida_anexo_key",
                 "despedida_anexo_nome", "despedida_anexo_mimetype", "despedida_anexo_tipo"})>>,
    down |-> <<Tira("channels", {"saudacao_anexo_key", "saudacao_anexo_nome",
                   "saudacao_anexo_mimetype", "saudacao_anexo_tipo", "despedida_anexo_key",
                   "despedida_anexo_nome", "despedida_anexo_mimetype", "despedida_anexo_tipo"})>>]

RemoveIntegrationsModule1789740000000 == [
    up |-> <<Se(Desliga("channels", "fk_integration_id_channels")),
             Se(Tira("channels", {"integration_id"})),
             Se(Anula("uq_integrations_default")),
             Se(Desliga("integrations", "fk_integration_provider_id_integrations")),
             Se(Solta("integrations")),
             Se(Solta("integration_providers")),
             Revoga(PadroesDoSistema, 31..34),
             ApagaPermissoes(31..34),
             ApagaModulos({9})>>,
    down |-> <<Impede>>]

AddDepartmentToSupportChats1789750000000 == [
    up |-> <<Poe("support_chats", {}, {"department_id"}),
             Liga("support_chats", "fk_department_id_support_chats", "department_id", "departments")>>,
    down |-> <<Desliga("support_chats", "fk_department_id_support_chats"),
               Tira("support_chats", {"department_id"})>>]

AddColorToDepartments1789760000000 == [
    up |-> <<Poe("departments", {}, {"color"})>>,
    down |-> <<Tira("departments", {"color"})>>]
=============================================================================
