----------------------------- MODULE Entidades ------------------------------
(***************************************************************************)
(* The TypeORM entities: for each, the table it is mapped to, the columns an *)
(* INSERT of it always gives a value to (dadas), those its decorators let the *)
(* INSERT leave to the database - nullable, with a default, generated, filled *)
(* by a date decorator - (deixadas), and the join tables it declares.      *)
(* Types, lengths and the navigation of relations are left out.            *)
(***************************************************************************)
EXTENDS Esquema


AttendanceSettings == [tabela |-> "attendance_settings",
    dadas |-> {"chave", "valor"},
    deixadas |-> {"id", "updated_at", "updated_by"},
    juncoes |-> {}]

ChannelStatus == [tabela |-> "channel_status",
    dadas |-> {"name"},
    deixadas |-> {"id"},
    juncoes |-> {}]

Channels == [tabela |-> "channels",
    dadas |-> {"name", "channel_status_id"},
    deixadas |-> {"id", "chatbot_habilitado", "chatbot_saida_por_padrao", "phone_number",
        "session_id", "instance_token", "qr_code", "pairing_code", "mensagem_saudacao",
        "saudacao_anexo_key", "saudacao_anexo_nome", "saudacao_anexo_mimetype", "saudacao_anexo_tipo",
        "mensagem_despedida", "despedida_anexo_key", "despedida_anexo_nome", "despedida_anexo_mimetype",
        "despedida_anexo_tipo", "rejeitar_chamadas", "rejeitar_chamadas_enviar_mensagem",
        "rejeitar_chamadas_mensagem", "inatividade_ativa", "inatividade_resolver_em_minutos",
        "inatividade_avisar_em_minutos", "inatividade_mensagem_aviso", "inatividade_enviar_despedida",
        "inatividade_usar_mensagem_propria", "inatividade_mensagem_finalizacao", "connected_at",
        "disconnected_at", "created_at", "updated_at", "deleted_at", "default_department_id"},
    juncoes |-> {<<"channel_x_department", {"channel_id", "department_id"}>>}]

ChatbotFlowExecutions == [tabela |-> "chatbot_flow_executions",
    dadas |-> {"contact_id", "chatbot_id", "flow_version_id", "current_flow_version_id",
        "status"},
    deixadas |-> {"id", "support_chat_id", "phase", "call_stack", "variables", "counters",
        "waiting_for", "current_node_id", "version", "created_at", "updated_at", "finished_at"},
    juncoes |-> {}]

ChatbotFlowVersions == [tabela |-> "chatbot_flow_versions",
    dadas |-> {"chatbot_id", "status", "graph", "version_number"},
    deixadas |-> {"id", "published_at", "created_at"},
    juncoes |-> {}]

Chatbots == [tabela |-> "chatbots",
    dadas |-> {"name", "type"},
    deixadas |-> {"id", "active", "settings", "current_published_version_id", "created_at",
        "updated_at", "deleted_at"},
    juncoes |-> {<<"channel_x_chatbot", {"chatbot_id", "channel_id"}>>}]

Clients == [tabela |-> "clients",
    dadas |-> {"nome"},
    deixadas |-> {"id", "cnpj", "created_at", "updated_at", "status"},
    juncoes |-> {<<"client_x_tag", {"client_id", "tag_id"}>>}]

Contacts == [tabela |-> "contacts",
    dadas |-> {"name", "avatar_url", "remote_jid"},
    deixadas |-> {"id", "client_id", "last_name", "name_is_manual", "is_avatar_external",
        "avatar_is_manual", "phone", "has_no_client", "ignore_support", "automation_disabled", "lid",
        "created_at", "updated_at", "status"},
    juncoes |-> {}]

LogSistema == [tabela |-> "log_sistema",
    dadas |-> {"rota", "metodo", "request_data", "queries"},
    deixadas |-> {"id", "user_id", "ip", "datetime_request"},
    juncoes |-> {}]

ClientCustomValues == [tabela |-> "client_custom_values",
    dadas |-> {"client_id", "custom_field_id", "valor"},
    deixadas |-> {"created_at", "updated_at"},
    juncoes |-> {}]

ContactCustomValues == [tabela |-> "contact_custom_values",
    dadas |-> {"contact_id", "custom_field_id", "valor"},
    deixadas |-> {"created_at", "updated_at"},
    juncoes |-> {}]

CustomFields == [tabela |-> "custom_fields",
    dadas |-> {"nome", "tipo", "aplica_a"},
    deixadas |-> {"id", "opcoes", "created_at", "updated_at", "deleted_at"},
    juncoes |-> {}]

DepartmentScheduleExceptions == [tabela |-> "department_schedule_exceptions",
    dadas |-> {"department_id", "date", "description", "mode"},
    deixadas |-> {"id", "recurring", "intervals", "holiday_id", "created_at"},
    juncoes |-> {}]

DepartmentSchedules == [tabela |-> "department_schedules",
    dadas |-> {"department_id", "weekday", "start_time", "end_time"},
    deixadas |-> {"id", "created_at"},
    juncoes |-> {}]

Departments == [tabela |-> "departments",
    dadas |-> {"name"},
    deixadas |-> {"id", "description", "color", "absence_message", "schedule_enabled",
        "respect_holidays", "created_at", "updated_at", "deleted_at"},
    juncoes |-> {}]

Holidays == [tabela |-> "holidays",
    dadas |-> {"name", "month", "day"},
    deixadas |-> {"id", "recurring", "is_system", "year", "created_at", "updated_at",
        "deleted_at"},
    juncoes |-> {}]

InternalChatMessages == [tabela |-> "internal_chat_messages",
    dadas |-> {"internal_chat_id", "sender_id", "type"},
    deixadas |-> {"id", "content", "has_media", "media_url", "media_type", "media_size",
        "file_name", "media_expired", "media_expired_at", "read_at", "created_at", "updated_at"},
    juncoes |-> {}]

InternalChats == [tabela |-> "internal_chats",
    dadas |-> {"user_a_id", "user_b_id"},
    deixadas |-> {"id", "last_message_at", "created_at", "updated_at"},
    juncoes |-> {}]

NotificationRecipients == [tabela |-> "notification_recipient",
    dadas |-> {"notification_id", "user_id"},
    deixadas |-> {"id", "is_read", "read_at", "created_at"},
    juncoes |-> {}]

Notifications == [tabela |-> "notification",
    dadas |-> {"type", "title", "message"},
    deixadas |-> {"id", "data", "created_at"},
    juncoes |-> {}]

PasswordResets == [tabela |-> "password_resets",
    dadas |-> {"user_id", "token_hash", "expires_at"},
    deixadas |-> {"id", "used_at", "created_at"},
    juncoes |-> {}]

PermissionGroups == [tabela |-> "permission_groups",
    dadas |-> {"name"},
    deixadas |-> {"id", "description", "is_system", "created_at", "updated_at", "deleted_at"},
    juncoes |-> {<<"permission_group_x_permission", {"permission_group_id", "permission_id"}>>}]

PermissionModule == [tabela |-> "permission_module",
    dadas |-> {"nome"},
    deixadas |-> {"id"},
    juncoes |-> {}]

PermissionXUser == [tabela |-> "permission_x_user",
    dadas |-> {"user_id", "permission_id"},
    deixadas |-> {},
    juncoes |-> {}]

Permissions == [tabela |-> "permissions",
    dadas |-> {"label", "permission_module_id", "name"},
    deixadas |-> {"id"},
    juncoes |-> {}]

QuickReplies == [tabela |-> "quick_replies",
    dadas |-> {"atalho", "mensagem"},
    deixadas |-> {"id", "anexo_key", "anexo_nome", "anexo_mimetype", "anexo_tipo", "created_at",
        "updated_at", "deleted_at"},
    juncoes |-> {}]

Schedules == [tabela |-> "schedules",
    dadas |-> {"title", "starts_at", "ends_at", "user_id"},
    deixadas |-> {"id", "description", "reminder_minutes", "client_id", "contact_id",
        "created_at", "updated_at"},
    juncoes |-> {}]

ServiceAlerts == [tabela |-> "service_alerts",
    dadas |-> {"titulo", "mensagem"},
    deixadas |-> {"id", "ativo", "expira_em", "created_at", "updated_at", "deleted_at"},
    juncoes |-> {<<"service_alert_x_channel", {"service_alert_id", "channel_id"}>>}]

Services == [tabela |-> "services",
    dadas |-> {"name"},
    deixadas |-> {"id", "service_price", "created_at", "status"},
    juncoes |-> {}]

ProtocolCounters == [tabela |-> "protocol_counters",
    dadas |-> {"counter", "competencia"},
    deixadas |-> {"id"},
    juncoes |-> {}]

SupportChatEvents == [tabela |-> "support_chat_events",
    dadas |-> {"support_chat_id", "tipo"},
    deixadas |-> {"id", "user_origem_id", "user_destino_id", "motivo", "department_origem_id",
        "department_destino_id", "created_at"},
    juncoes |-> {}]

SupportChatStatus == [tabela |-> "support_chat_status",
    dadas |-> {"name"},
    deixadas |-> {"id", "is_final"},
    juncoes |-> {}]

SupportChats == [tabela |-> "support_chats",
    dadas |-> {"channel_id", "contact_id", "support_chat_status_id", "protocol"},
    deixadas |-> {"id", "user_id", "department_id", "started_by_agent", "pos_atendimento_ativo",
        "unread_count", "marked_unread", "last_message", "last_message_type", "last_message_id",
        "is_waiting", "created_at", "answered_at", "finished_at", "updated_at", "observation_user",
        "paused_at", "paused_total_seconds", "inatividade_avisada_em"},
    juncoes |-> {}]

SupportChatMessages == [tabela |-> "support_chat_messages",
    dadas |-> {"support_chat_id", "channel_id", "message_id", "datetime", "ack", "type", "from",
        "to", "raw_payload"},
    deixadas |-> {"id", "from_me", "is_automatic", "content", "has_media", "media_url",
        "media_type", "media_size", "file_name", "media_expired", "media_expired_at", "has_quoted",
        "is_forwarded", "quoted_msg_id", "quoted_msg", "device_type", "is_deleted", "hidden_at",
        "is_system_hidden", "is_edited", "is_gif", "has_reaction", "reaction", "created_at",
        "updated_at"},
    juncoes |-> {}]

SupportServices == [tabela |-> "support_services",
    dadas |-> {"support_id", "service_id"},
    deixadas |-> {"id", "service_fee"},
    juncoes |-> {}]

SupportStatus == [tabela |-> "support_status",
    dadas |-> {"descricao"},
    deixadas |-> {"id"},
    juncoes |-> {}]

Supports == [tabela |-> "supports",
    dadas |-> {"client_id", "contact_id", "user_id", "tipo_entrada", "esta_pago",
        "support_status_id"},
    deixadas |-> {"id", "data_referencia", "hora_inicio", "hora_fim", "comentario"},
    juncoes |-> {}]

SystemSettings == [tabela |-> "system_settings",
    dadas |-> {"chave", "valor"},
    deixadas |-> {"id", "updated_at", "updated_by"},
    juncoes |-> {}]

Tags == [tabela |-> "tags",
    dadas |-> {"name", "color"},
    deixadas |-> {"id", "text_color", "created_at", "updated_at", "deleted_at"},
    juncoes |-> {}]

UserConfig == [tabela |-> "user_config",
    dadas |-> {"user_id", "chave", "valor"},
    deixadas |-> {"id", "updated_at"},
    juncoes |-> {}]

UserInvites == [tabela |-> "user_invites",
    dadas |-> {"user_id", "token_hash", "expires_at"},
    deixadas |-> {"id", "used_at", "created_at"},
    juncoes |-> {}]

UserRefreshTokens == [tabela |-> "user_refresh_tokens",
    dadas |-> {"user_id", "refresh_token"},
    deixadas |-> {"id", "expires_at"},
    juncoes |-> {}]

Users == [tabela |-> "users",
    dadas |-> {"name", "email", "password", "lastlogin_at", "schedule_color"},
    deixadas |-> {"id", "last_name", "valor_hora", "avatar_url", "is_requestpassword",
        "created_at", "role", "permission_group_id", "is_superuser", "status"},
    juncoes |-> {<<"user_x_department", {"user_id", "department_id"}>>}]

TodasAsEntidades == {AttendanceSettings, ChannelStatus, Channels, ChatbotFlowExecutions,
    ChatbotFlowVersions, Chatbots, Clients, Contacts, LogSistema, ClientCustomValues,
    ContactCustomValues, CustomFields, DepartmentScheduleExceptions, DepartmentSchedules,
    Departments, Holidays, InternalChatMessages, InternalChats, NotificationRecipients,
    Notifications, PasswordResets, PermissionGroups, PermissionModule, PermissionXUser, Permissions,
    QuickReplies, Schedules, ServiceAlerts, Services, ProtocolCounters, SupportChatEvents,
    SupportChatStatus, SupportChats, SupportChatMessages, SupportServices, SupportStatus, Supports,
    SystemSettings, Tags, UserConfig, UserInvites, UserRefreshTokens, Users}

\* What an entity needs and schema `s` does not offer: columns the table lacks,
\* columns the table demands and the entity does not have.
Faltas(e, s) ==
    IF e.tabela \notin Tabelas(s) THEN {e.tabela}
    ELSE ((e.dadas \cup e.deixadas) \ Colunas(s, e.tabela))
         \cup (s.tab[e.tabela].req \ (e.dadas \cup e.deixadas))
         \cup UNION {IF j[1] \in Tabelas(s) THEN j[2] \ Colunas(s, j[1]) ELSE {j[1]} : j \in e.juncoes}

\* Columns the entity may leave to the database and the database does not fill.
Abandonadas(e, s) ==
    IF e.tabela \notin Tabelas(s) THEN {}
    ELSE {<<e.tabela, c>> : c \in e.deixadas \cap s.tab[e.tabela].req}
=============================================================================
