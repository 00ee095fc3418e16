------------------------ MODULE MigracoesAtendimento ------------------------
(***************************************************************************)
(* The migrations of the attendance: events, inactivity, pauses, flow      *)
(* executions, the agenda with its two corrections, holidays, routing by   *)
(* department and the exit flow.                                           *)
(***************************************************************************)
EXTENDS MigracoesCadastro

CreateUserInvitesTable1789770000000 == [
    up |-> <<Se(Cria("user_invites", {"user_id", "token_hash", "expires_at"}, {"id", "used_at",
                 "created_at"}, {<<"userinvites_user_fk", "user_id", "users">>})),
             Nomeia("uq_user_invites_token_hash", "user_invites")>>,
    down |-> <<Se(Anula("uq_user_invites_token_hash")),
               Se(Solta("user_invites"))>>]

RenomeiaCanaisParaConexoes1789780000000 == [
    up |-> <<>>,
    down |-> <<>>]

AddPairingCodeToChannels1789790000000 == [
    up |-> <<Poe("channels", {}, {"pairing_code"})>>,
    down |-> <<Tira("channels", {"pairing_code"})>>]

AddNameIsManualToContacts1789800000000 == [
    up |-> <<Poe("contacts", {}, {"name_is_manual"})>>,
    down |-> <<Tira("contacts", {"name_is_manual"})>>]

AddInactivityResolutionToChannels1789810000000 == [
    up |-> <<Insere("support_chat_status", {6}),
             Poe("channels", {}, {"inatividade_ativa", "inatividade_resolver_em_minutos",
                 "inatividade_avisar_em_minutos", "inatividade_mensagem_aviso"}),
             Poe("support_chats", {}, {"inatividade_avisada_em"})>>,
    down |-> <<Tira("support_chats", {"inatividade_avisada_em"}),
               Tira("channels", {"inatividade_ativa", "inatividade_resolver_em_minutos",
                   "inatividade_avisar_em_minutos", "inatividade_mensagem_aviso"}),
               Exame,
               Apaga("support_chat_status", {6})>>]

AddInatividadeEnviarDespedidaToChannels1789820000000 == [
    up |-> <<Poe("channels", {}, {"inatividade_enviar_despedida"})>>,
    down |-> <<Tira("channels", {"inatividade_enviar_despedida"})>>]

AddIsAutomaticToSupportChatMessages1789830000000 == [
    up |-> <<Poe("support_chat_messages", {}, {"is_automatic"})>>,
    down |-> <<Tira("support_chat_messages", {"is_automatic"})>>]

AddLidToContacts1789840000000 == [
    up |-> <<Poe("contacts", {}, {"lid"}),
             Nomeia("uq_contacts_lid", "contacts")>>,
    down |-> <<Anula("uq_contacts_lid"),
               Tira("contacts", {"lid"})>>]

\* (mutant) The column of the paused time is forgotten.
PausaSemTempo == [
    up |-> <<Poe("support_chats", {}, {"paused_at"}),
             Semeia({<<81, 5, "support.chat:pause">>}),
             Concede({Administrador}, {81})>>,
    down |-> <<Revoga(PadroesDoSistema, {81}),
               ApagaPermissoes({81}),
               Tira("support_chats", {"paused_total_seconds"}),
               Tira("support_chats", {"paused_at"})>>]

\* (mutant) The permission is created and given to nobody.
PausaSemConcessao == [
    up |-> <<Poe("support_chats", {}, {"paused_at", "paused_total_seconds"}),
             Semeia({<<81, 5, "support.chat:pause">>})>>,
    down |-> <<Revoga(PadroesDoSistema, {81}),
               ApagaPermissoes({81}),
               Tira("support_chats", {"paused_total_seconds"}),
               Tira("support_chats", {"paused_at"})>>]

AddPausaToSupportChats1789850000000 == [
    up |-> <<Poe("support_chats", {}, {"paused_at", "paused_total_seconds"}),
             Semeia({<<81, 5, "support.chat:pause">>}),
             Concede({Administrador}, {81})>>,
    down |-> <<Revoga(PadroesDoSistema, {81}),
               ApagaPermissoes({81}),
               Tira("support_chats", {"paused_total_seconds"}),
               Tira("support_chats", {"paused_at"})>>]

AddIsForwardedToSupportChatMessages1789860000000 == [
    up |-> <<Poe("support_chat_messages", {}, {"is_forwarded"})>>,
    down |-> <<Tira("support_chat_messages", {"is_forwarded"})>>]

AddRejeicaoChamadasToChannels1789870000000 == [
    up |-> <<Poe("channels", {}, {"rejeitar_chamadas", "rejeitar_chamadas_enviar_mensagem",
                 "rejeitar_chamadas_mensagem"})>>,
    down |-> <<Tira("channels", {"rejeitar_chamadas_mensagem"}),
               Tira("channels", {"rejeitar_chamadas_enviar_mensagem"}),
               Tira("channels", {"rejeitar_chamadas"})>>]

AddIsSystemHiddenToSupportChatMessages1789880000000 == [
    up |-> <<Poe("support_chat_messages", {}, {"is_system_hidden"})>>,
    down |-> <<Tira("support_chat_messages", {"is_system_hidden"})>>]

AddCompetenciaToProtocolCounters1789890000000 == [
    up |-> <<Se(Poe("protocol_counters", {}, {"competencia"})),
             Exige("protocol_counters", {"competencia"}),
             Se(Nomeia("ux_protocol_counters_competencia", "protocol_counters"))>>,
    down |-> <<Se(Anula("ux_protocol_counters_competencia")),
               Se(Tira("protocol_counters", {"competencia"}))>>]

AddInatividadeMensagemFinalizacaoToChannels1789900000000 == [
    up |-> <<Poe("channels", {}, {"inatividade_mensagem_finalizacao"})>>,
    down |-> <<Tira("channels", {"inatividade_mensagem_finalizacao"})>>]

AddInatividadeUsarMensagemPropriaToChannels1789910000000 == [
    up |-> <<Poe("channels", {}, {"inatividade_usar_mensagem_propria"})>>,
    down |-> <<Tira("channels", {"inatividade_usar_mensagem_propria"})>>]

CreateReportsPermissions1789920000000 == [
    up |-> <<Modulos({20}),
             Semeia({<<82, 20, "report.attendance:view">>}),
             Concede({Administrador}, {82})>>,
    down |-> <<Revoga(PadroesDoSistema, {82}),
               ApagaPermissoes({82}),
               ApagaModulos({20})>>]

CreateProductivityReportPermission1789930000000 == [
    up |-> <<Semeia({<<83, 20, "report.productivity:view">>}),
             Concede({Administrador}, {83})>>,
    down |-> <<Revoga(PadroesDoSistema, {83}),
               ApagaPermissoes({83})>>]

CreateClientReportPermission1789940000000 == [
    up |-> <<Semeia({<<84, 20, "report.client:view">>}),
             Concede({Administrador}, {84})>>,
    down |-> <<Revoga(PadroesDoSistema, {84}),
               ApagaPermissoes({84})>>]

CreateClientDetailReportPermission1789950000000 == [
    up |-> <<Semeia({<<85, 20, "report.client_detail:view">>}),
             Concede({Administrador}, {85})>>,
    down |-> <<Revoga(PadroesDoSistema, {85}),
               ApagaPermissoes({85})>>]

CreateSupportChatHistoryPermission1789960000000 == [
    up |-> <<Semeia({<<86, 5, "support.chat:history">>}),
             Concede({Administrador}, {86})>>,
    down |-> <<Revoga(PadroesDoSistema, {86}),
               ApagaPermissoes({86})>>]

CreateSchedulesBase1789970000000 == [
    up |-> <<Se(Cria("schedules", {"title", "starts_at", "ends_at", "user_id"}, {"id",
                 "description", "reminder_minutes", "client_id", "contact_id", "created_at",
                 "updated_at"}, {<<"schedules_user_fk", "user_id", "users">>,
                 <<"schedules_client_fk", "client_id", "clients">>,
                 <<"schedules_contact_fk", "contact_id", "contacts">>})),
             Nomeia("schedules_valid_interval", "schedules"),
             Nomeia("schedules_valid_reminder", "schedules"),
             Se(Cria("notification", {"type", "title", "message"}, {"id", "data", "created_at"},
                 {})),
             Se(Cria("notification_recipient", {"notification_id", "user_id"}, {"id", "is_read",
                 "read_at", "created_at"},
                 {<<"notification_recipient_notification_fk", "notification_id", "notification">>,
                 <<"notification_recipient_user_fk", "user_id", "users">>})),
             Nomeia("uq_notification_recipient_user", "notification_recipient"),
             Poe("users", {}, {"schedule_color"}),
             Exame,
             Exige("users", {"schedule_color"}),
             Nomeia("uq_users_schedule_color", "users"),
             Modulos({21}),
             Semeia({<<87, 21, "schedule:view">>, <<88, 21, "schedule:add">>,
                 <<89, 21, "schedule:edit">>, <<90, 21, "schedule:delete">>}),
             Concede({Administrador}, 87..90)>>,
    down |-> <<Revoga(PadroesDoSistema, 87..90),
               ApagaPermissoes(87..90),
               ApagaModulos({21}),
               Anula("uq_users_schedule_color"),
               Tira("users", {"schedule_color"}),
               Se(Solta("notification_recipient")),
               Se(Solta("notification")),
               Se(Solta("schedules"))>>]

CorrigirNotificacoesAgenda1789980000000 == [
    up |-> <<Se(RenomeiaTabela("notifications", "notification")),
             Se(RenomeiaTabela("notification_recipients", "notification_recipient")),
             Se(RenomeiaColuna("notification", "corpo", "mensagem")),
             Se(Desliga("notification", "notifications_schedule_fk")),
             Se(Tira("notification", {"schedule_id"})),
             Se(RenomeiaFk("notification_recipient", "notification_recipients_notification_fk",
                 "notification_recipient_notification_fk")),
             Se(RenomeiaFk("notification_recipient", "notification_recipients_user_fk",
                 "notification_recipient_user_fk")),
             Se(RenomeiaNome("uq_notification_recipients_destinatario",
                 "uq_notification_recipient_destinatario"))>>,
    down |-> <<Se(RenomeiaNome("uq_notification_recipient_destinatario",
                   "uq_notification_recipients_destinatario")),
               Se(RenomeiaFk("notification_recipient", "notification_recipient_user_fk",
                   "notification_recipients_user_fk")),
               Se(RenomeiaFk("notification_recipient", "notification_recipient_notification_fk",
                   "notification_recipients_notification_fk")),
               Poe("notification", {}, {"schedule_id"}),
               Liga("notification", "notifications_schedule_fk", "schedule_id", "schedules"),
               RenomeiaColuna("notification", "mensagem", "corpo"),
               RenomeiaTabela("notification_recipient", "notification_recipients"),
               RenomeiaTabela("notification", "notifications")>>]

\* (mutant) One column keeps its old name.
AgendaComUmNomeAntigo == [
    up |-> <<Se(RenomeiaColuna("schedules", "titulo", "title")),
             Se(RenomeiaColuna("schedules", "observacao", "description")),
             Se(RenomeiaColuna("schedules", "inicio_em", "starts_at")),
             Se(RenomeiaColuna("schedules", "fim_em", "ends_at")),
             Se(RenomeiaColuna("schedules", "lembrete_minutos", "reminder_minutes")),
             Se(RenomeiaNome("schedules_intervalo_valido", "schedules_valid_interval")),
             Se(RenomeiaNome("schedules_lembrete_valido", "schedules_valid_reminder")),
             Se(RenomeiaColuna("notification", "tipo", "type")),
             Se(RenomeiaColuna("notification", "titulo", "title")),
             Se(RenomeiaColuna("notification", "mensagem", "message")),
             Se(RenomeiaColuna("notification_recipient", "lida", "is_read")),
             Se(RenomeiaColuna("notification_recipient", "lida_em", "read_at")),
             Se(RenomeiaNome("uq_notification_recipient_destinatario",
                 "uq_notification_recipient_user"))>>,
    down |-> <<RenomeiaNome("schedules_valid_reminder", "schedules_lembrete_valido"),
               RenomeiaNome("schedules_valid_interval", "schedules_intervalo_valido"),
               RenomeiaColuna("schedules", "reminder_minutes", "lembrete_minutos"),
               RenomeiaColuna("schedules", "ends_at", "fim_em"),
               RenomeiaColuna("schedules", "starts_at", "inicio_em"),
               RenomeiaColuna("schedules", "description", "observacao"),
               RenomeiaColuna("schedules", "title", "titulo"),
               RenomeiaColuna("notification", "data", "dados"),
               RenomeiaColuna("notification", "message", "mensagem"),
               RenomeiaColuna("notification", "title", "titulo"),
               RenomeiaColuna("notification", "type", "tipo"),
               Se(RenomeiaNome("uq_notification_recipient_user",
                   "uq_notification_recipient_destinatario")),
               RenomeiaColuna("notification_recipient", "read_at", "lida_em"),
               RenomeiaColuna("notification_recipient", "is_read", "lida")>>]

UsarEnglishCoreNaAgenda1789990000000 == [
    up |-> <<Se(RenomeiaColuna("schedules", "titulo", "title")),
             Se(RenomeiaColuna("schedules", "observacao", "description")),
             Se(RenomeiaColuna("schedules", "inicio_em", "starts_at")),
             Se(RenomeiaColuna("schedules", "fim_em", "ends_at")),
             Se(RenomeiaColuna("schedules", "lembrete_minutos", "reminder_minutes")),
             Se(RenomeiaNome("schedules_intervalo_valido", "schedules_valid_interval")),
             Se(RenomeiaNome("schedules_lembrete_valido", "schedules_valid_reminder")),
             Se(RenomeiaColuna("notification", "tipo", "type")),
             Se(RenomeiaColuna("notification", "titulo", "title")),
             Se(RenomeiaColuna("notification", "mensagem", "message")),
             Se(RenomeiaColuna("notification", "dados", "data")),
             Se(RenomeiaColuna("notification_recipient", "lida", "is_read")),
             Se(RenomeiaColuna("notification_recipient", "lida_em", "read_at")),
             Se(RenomeiaNome("uq_notification_recipient_destinatario",
                 "uq_notification_recipient_user"))>>,
    down |-> <<RenomeiaNome("schedules_valid_reminder", "schedules_lembrete_valido"),
               RenomeiaNome("schedules_valid_interval", "schedules_intervalo_valido"),
               RenomeiaColuna("schedules", "reminder_minutes", "lembrete_minutos"),
               RenomeiaColuna("schedules", "ends_at", "fim_em"),
               RenomeiaColuna("schedules", "starts_at", "inicio_em"),
               RenomeiaColuna("schedules", "description", "observacao"),
               RenomeiaColuna("schedules", "title", "titulo"),
               RenomeiaColuna("notification", "data", "dados"),
               RenomeiaColuna("notification", "message", "mensagem"),
               RenomeiaColuna("notification", "title", "titulo"),
               RenomeiaColuna("notification", "type", "tipo"),
               Se(RenomeiaNome("uq_notification_recipient_user",
                   "uq_notification_recipient_destinatario")),
               RenomeiaColuna("notification_recipient", "read_at", "lida_em"),
               RenomeiaColuna("notification_recipient", "is_read", "lida")>>]

AmpliarAntecedenciasLembreteAgenda1790000000000 == [
    up |-> <<Anula("schedules_valid_reminder"),
             Nomeia("schedules_valid_reminder", "schedules")>>,
    down |-> <<Anula("schedules_valid_reminder"),
               Nomeia("schedules_valid_reminder", "schedules")>>]

AddStartedByAgentToSupportChats1790010000000 == [
    up |-> <<Poe("support_chats", {}, {"started_by_agent"})>>,
    down |-> <<Tira("support_chats", {"started_by_agent"})>>]

CreateHolidaysTable1790010000000 == [
    up |-> <<Se(Cria("holidays", {"name", "month", "day"}, {"id", "recurring", "is_system", "year",
                 "created_at", "updated_at", "deleted_at"}, {})),
             Nomeia("chk_holidays_year_por_recorrencia", "holidays"),
             Modulos({22}),
             Semeia({<<91, 22, "holiday:view">>, <<92, 22, "holiday:add">>,
                 <<93, 22, "holiday:update">>, <<94, 22, "holiday:delete">>}),
             Concede({Administrador}, 91..94)>>,
    down |-> <<Revoga(PadroesDoSistema, 91..94),
               ApagaPermissoes(91..94),
               ApagaModulos({22}),
               Se(Solta("holidays"))>>]

ChatbotChannelParaMuitosParaMuitos1790020000000 == [
    up |-> <<Se(Cria("channel_x_chatbot", {"channel_id", "chatbot_id"}, {},
                 {<<"channelxchatbot_channel_fk", "channel_id", "channels">>,
                 <<"channelxchatbot_chatbot_fk", "chatbot_id", "chatbots">>})),
             Se(Anula("uq_chatbots_channel_type_active")),
             Desliga("chatbots", "chatbots_channel_fk"),
             Tira("chatbots", {"channel_id"})>>,
    down |-> <<Poe("chatbots", {}, {"channel_id"}),
               Liga("chatbots", "chatbots_channel_fk", "channel_id", "channels"),
               Exame,
               Nomeia("uq_chatbots_channel_type_active", "chatbots"),
               Se(Solta("channel_x_chatbot"))>>]

AddFinalizadoPeloChatbotStatus1790030000000 == [
    up |-> <<Insere("support_chat_status", {7})>>,
    down |-> <<Apaga("support_chat_status", {7})>>]

AddDepartmentRouting1790040000000 == [
    up |-> <<Poe("channels", {}, {"default_department_id"}),
             Liga("channels", "channels_default_department_id_fkey", "default_department_id",
                 "departments"),
             Poe("support_chat_events", {}, {"department_origem_id", "department_destino_id"}),
             Liga("support_chat_events", "support_chat_events_department_origem_id_fkey",
                 "department_origem_id", "departments"),
             Liga("support_chat_events", "support_chat_events_department_destino_id_fkey",
                 "department_destino_id", "departments"),
             Semeia({<<95, 5, "support.chat:view_all_departments">>}),
             Concede({Administrador}, {95}),
             Nomeia("support_chats_department_abertos_idx", "support_chats")>>,
    down |-> <<Anula("support_chats_department_abertos_idx"),
               Revoga(PadroesDoSistema, {95}),
               ApagaPermissoes({95}),
               Tira("support_chat_events", {"department_origem_id", "department_destino_id"}),
               Tira("channels", {"default_department_id"})>>]

AddDepartmentScheduleExceptions1790050000000 == [
    up |-> <<Poe("departments", {}, {"respect_holidays"}),
             Cria("department_schedule_exceptions", {"department_id", "date", "description",
                 "mode"}, {"id", "intervals", "holiday_id", "created_at"},
                 {<<"department_schedule_exceptions_department_id_fkey", "department_id", "departments">>,
                 <<"department_schedule_exceptions_holiday_id_fkey", "holiday_id", "holidays">>}),
             Nomeia("department_schedule_exceptions_department_date_key",
                 "department_schedule_exceptions")>>,
    down |-> <<Solta("department_schedule_exceptions"),
               Tira("departments", {"respect_holidays"})>>]

SepararFilaChatbot1790060000000 == [
    up |-> <<>>,
    down |-> <<>>]

ConfigurarModuloChatbot1790070000000 == [
    up |-> <<>>,
    down |-> <<>>]

ExcecoesSetorAnuais1790080000000 == [
    up |-> <<Poe("department_schedule_exceptions", {}, {"recurring"}),
             Anula("department_schedule_exceptions_department_date_key"),
             Nomeia("department_schedule_exceptions_department_date_recurrence_key",
                 "department_schedule_exceptions"),
             Nomeia("department_schedule_exceptions_annual_reference_check",
                 "department_schedule_exceptions")>>,
    down |-> <<Exame,
               Anula("department_schedule_exceptions_annual_reference_check"),
               Anula("department_schedule_exceptions_department_date_recurrence_key"),
               Nomeia("department_schedule_exceptions_department_date_key",
                   "department_schedule_exceptions"),
               Tira("department_schedule_exceptions", {"recurring"})>>]

ChatbotPorCanal1790090000000 == [
    up |-> <<Poe("channels", {}, {"chatbot_habilitado"})>>,
    down |-> <<Exame,
               Tira("channels", {"chatbot_habilitado"})>>]

PosAtendimentoMesmoProtocolo1790100000000 == [
    up |-> <<Poe("support_chats", {}, {"pos_atendimento_ativo"}),
             Nomeia("support_chats_pos_atendimento_finalizado", "support_chats"),
             Poe("chatbot_flow_executions", {}, {"phase"}),
             Nomeia("chatbot_flow_executions_phase_check", "chatbot_flow_executions"),
             Nomeia("chatbot_saida_por_atendimento", "chatbot_flow_executions")>>,
    down |-> <<Exame,
               Anula("chatbot_saida_por_atendimento"),
               Anula("chatbot_flow_executions_phase_check"),
               Tira("chatbot_flow_executions", {"phase"}),
               Anula("support_chats_pos_atendimento_finalizado"),
               Tira("support_chats", {"pos_atendimento_ativo"})>>]

PreferenciaPermissaoFluxoSaida1790110000000 == [
    up |-> <<Poe("channels", {}, {"chatbot_saida_por_padrao"}),
             SemeiaSeFalta(5, "support.chat:change_exit_flow"),
             ConcedePorNome({Administrador}, {"support.chat:change_exit_flow"})>>,
    down |-> <<RevogaPorNome(PadroesDoSistema, {"support.chat:change_exit_flow"}),
               ApagaPorNome({"support.chat:change_exit_flow"}),
               Tira("channels", {"chatbot_saida_por_padrao"})>>]

SaidaAposEncerramentoChatbot1790120000000 == [
    up |-> <<Anula("support_chats_pos_atendimento_finalizado"),
             Nomeia("support_chats_pos_atendimento_finalizado", "support_chats")>>,
    down |-> <<Exame,
               Anula("support_chats_pos_atendimento_finalizado"),
               Nomeia("support_chats_pos_atendimento_finalizado", "support_chats")>>]

DesabilitarAutomacaoContato1790130000000 == [
    up |-> <<Poe("contacts", {}, {"automation_disabled"})>>,
    down |-> <<Exame,
               Tira("contacts", {"automation_disabled"})>>]

\* The order in which TypeORM runs them: by the timestamp that ends the class name.
Migracoes == <<
    CreateUsersTable1704379411392, CreateClientsTable1725885677231,
    CreateContactsTable1725896694498, CreateSupportsStatusTable1726357464159,
    CreateSupportsTable1726357566010, CampoPagosupport1735388775966,
    CreatePermissionModuleTable1738349913964, CreatePermissionsTable1738349913965,
    CreatePermissionXUserTable1738352257503, CreateServicesTable1739075239283,
    CreateSupportServicesTable1739076120026, CreateLogSistemaTable1739922407037,
    CreateUserRefreshTokensTable1741525777343, CreateChannelStatusTable1761251449715,
    CreateSupportChatStatusTable1761251472613, CreateChannelsTable1761251488012,
    CreateSupportChatsTable1761251493663, CreateSupportChatMessagesTable1761251530976,
    CreateProtocolCounterTable1762386510336, ChangeQuotedMsg1767390103455,
    CreateIntegrationProvidersTable1788991327969, CreateIntegrationsTable1788991327970,
    AddIntegrationToChannels1788991327971, AdjustColumnsForBaileysFormat1788991327972,
    CreateIntegrationPermissions1788991327973, FixSupportChatMessagesIdDefault1788995702084,
    AddMediaExpiredToMessages1788997359560, AddFileNameToMessages1789160000000,
    ConvertTimestampsToTimestamptz1789300000000, FixTimestampsComDefaultDoBanco1789310000000,
    AddHiddenAtToMessages1789420000000, ReactionsParaJsonb1789440000000,
    CreateTagsTable1789460000000, CreateClientXTagTable1789460000001,
    CreateTagPermissions1789460000002, RemoveTagsDeContacts1789460000003,
    AddTextColorToTags1789470000000, CreatePermissionGroupsTable1789480000000,
    CreatePermissionGroupXPermissionTable1789480000001, AddPermissionGroupIdToUsers1789480000002,
    CorrigePermissoesDivergentes1789480000003, SeedGruposPermissaoPadrao1789480000004,
    EmailUnicoEmUsers1789480000005, CreatePasswordResetsTable1789480000006,
    CreateSystemSettingsTable1789480000007, CreateCustomFieldsTable1789490000000,
    CreateCustomValuesTables1789490000001, CreateCustomFieldPermissions1789490000002,
    CreateSupportChatEventsTable1789500000000, CreateTransferPermission1789500000001,
    AddMensagensAutomaticasToChannels1789500000002, AddPreferenciasTemaToUsers1789510000000,
    CreateQuickRepliesTable1789520000000, CreateQuickReplyPermissions1789520000001,
    AddLastNameToContactsAndUsers1789530000000, CreateUserGranularPermissions1789540000000,
    CreateChannelConfigPermission1789550000000, CreateProfilePermissions1789560000000,
    RemovePermissionUpdatePermission1789570000000, CreateServiceAlertsTable1789580000000,
    CreateInternalChatTables1789590000000, CreateInternalChatPermissions1789590000001,
    CreateUserConfigTable1789600000000, MigrarTemaParaUserConfig1789600000001,
    CreateDepartmentsTable1789610000000, CreateChannelXDepartmentTable1789620000000,
    CreateChatbotsTables1789630000000, CreateChatbotFlowExecutionsTable1789640000000,
    CreateDepartmentSchedulesTable1789650000000, AddScheduleEnabledToDepartments1789660000000,
    AddHasNoClientToContacts1789670000000, AddAvatarIsManualToContacts1789680000000,
    AddIgnoreSupportToContacts1789690000000, AddMarkedUnreadToSupportChats1789700000000,
    CreateAttendanceSettingsTable1789710000000,
    CreateSupportChatViewOthersPermission1789720000000,
    AddAnexoToChannelsMensagensAutomaticas1789730000000, RemoveIntegrationsModule1789740000000,
    AddDepartmentToSupportChats1789750000000, AddColorToDepartments1789760000000,
    CreateUserInvitesTable1789770000000, RenomeiaCanaisParaConexoes1789780000000,
    AddPairingCodeToChannels1789790000000, AddNameIsManualToContacts1789800000000,
    AddInactivityResolutionToChannels1789810000000,
    AddInatividadeEnviarDespedidaToChannels1789820000000,
    AddIsAutomaticToSupportChatMessages1789830000000, AddLidToContacts1789840000000,
    AddPausaToSupportChats1789850000000, AddIsForwardedToSupportChatMessages1789860000000,
    AddRejeicaoChamadasToChannels1789870000000,
    AddIsSystemHiddenToSupportChatMessages1789880000000,
    AddCompetenciaToProtocolCounters1789890000000,
    AddInatividadeMensagemFinalizacaoToChannels1789900000000,
    AddInatividadeUsarMensagemPropriaToChannels1789910000000,
    CreateReportsPermissions1789920000000, CreateProductivityReportPermission1789930000000,
    CreateClientReportPermission1789940000000, CreateClientDetailReportPermission1789950000000,
    CreateSupportChatHistoryPermission1789960000000, CreateSchedulesBase1789970000000,
    CorrigirNotificacoesAgenda1789980000000, UsarEnglishCoreNaAgenda1789990000000,
    AmpliarAntecedenciasLembreteAgenda1790000000000, AddStartedByAgentToSupportChats1790010000000,
    CreateHolidaysTable1790010000000, ChatbotChannelParaMuitosParaMuitos1790020000000,
    AddFinalizadoPeloChatbotStatus1790030000000, AddDepartmentRouting1790040000000,
    AddDepartmentScheduleExceptions1790050000000, SepararFilaChatbot1790060000000,
    ConfigurarModuloChatbot1790070000000, ExcecoesSetorAnuais1790080000000,
    ChatbotPorCanal1790090000000, PosAtendimentoMesmoProtocolo1790100000000,
    PreferenciaPermissaoFluxoSaida1790110000000, SaidaAposEncerramentoChatbot1790120000000,
    DesabilitarAutomacaoContato1790130000000>>
=============================================================================
