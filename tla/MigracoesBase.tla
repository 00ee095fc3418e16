--------------------------- MODULE MigracoesBase ----------------------------
(***************************************************************************)
(* The first migrations: users, clients, supports, channels, conversations *)
(* and messages, the permission catalogue and its three system groups.     *)
(* One definition per migration, named after its class: the commands of    *)
(* its up() and of its down(), in the order they are awaited.  Commands    *)
(* that only rewrite row contents or widen a type are left out.            *)
(***************************************************************************)
EXTENDS Esquema

\* Every permission id: what "SELECT ..., id FROM permissions" covers.
Todas == 1..200

\* The names the supervisors' seed leaves out by their prefixes user:, integration:,
\* permission_group: and permission:, among those that exist when it runs.
ForaDoSupervisor == {
    "user:view", "user:add", "user:update", "user:delete",
    "integration:view", "integration:add", "integration:update", "integration:delete",
    "permission:view", "permission:update", "permission_group:view", "permission_group:add",
    "permission_group:update", "permission_group:delete"}
DoAtendente == {
    "support:view", "support:add", "support:update", "support.chat:view", "support.chat:add",
    "support.chat:update", "message:update", "message:delete", "client:view", "client:add",
    "client:update", "contact:view", "contact:add", "contact:update", "contact:view_by_client",
    "tag:view", "service:view", "channel:view"}

CreateUsersTable1704379411392 == [
    up |-> <<Se(Cria("users", {"name", "email", "password"}, {"id", "valor_hora", "avatar_url",
                 "is_requestpassword", "created_at", "lastlogin_at", "role", "is_superuser", "status"},
                 {}))>>,
    down |-> <<Solta("users")>>]

CreateClientsTable1725885677231 == [
    up |-> <<Cria("clients", {"nome"}, {"id", "cnpj", "created_at", "updated_at", "status"}, {})>>,
    down |-> <<Solta("clients")>>]

CreateContactsTable1725896694498 == [
    up |-> <<Cria("contacts", {"name"}, {"id", "client_id", "avatar_url", "is_avatar_external",
                 "tags", "phone", "remote_jid", "created_at", "updated_at", "status"}, {}),
             Liga("contacts", "contacts_clients_fk", "client_id", "clients")>>,
    down |-> <<Desliga("contacts", "contacts_clients_fk"),
               Solta("contacts")>>]

CreateSupportsStatusTable1726357464159 == [
    up |-> <<Se(Cria("support_status", {"descricao"}, {"id"}, {})),
             Insere("support_status", 1..4)>>,
    down |-> <<Solta("support_status")>>]

CreateSupportsTable1726357566010 == [
    up |-> <<Cria("supports", {"client_id", "user_id", "data_referencia", "hora_inicio", "hora_fim",
                 "tipo_entrada", "support_status_id"}, {"id", "contact_id", "comentario"},
                 {<<"supports_clients_fk", "client_id", "clients">>,
                 <<"supports_contacts_fk", "contact_id", "contacts">>,
                 <<"supports_users_fk", "user_id", "users">>,
                 <<"supports_status_fk", "support_status_id", "support_status">>})>>,
    down |-> <<Solta("supports")>>]

CampoPagosupport1735388775966 == [
    up |-> <<Poe("supports", {}, {"esta_pago"})>>,
    down |-> <<Tira("supports", {"esta_pago"})>>]

CreatePermissionModuleTable1738349913964 == [
    up |-> <<Se(Cria("permission_module", {"nome"}, {"id"}, {})),
             Modulos({1, 2, 3, 4, 5, 6, 7, 8})>>,
    down |-> <<Solta("permission_module")>>]

CreatePermissionsTable1738349913965 == [
    up |-> <<Cria("permissions", {"label", "permission_module_id", "name"}, {"id"},
                 {<<"permission_permission_module_fk", "permission_module_id", "permission_module">>}),
             Semeia({<<1, 1, "support:view">>, <<2, 1, "support:add">>, <<3, 1, "support:update">>,
                 <<4, 1, "support:delete">>, <<5, 2, "user:view">>, <<6, 2, "user:add">>,
                 <<7, 2, "user:update">>, <<8, 2, "user:delete">>, <<9, 3, "service:view">>,
                 <<10, 3, "service:add">>, <<11, 3, "service:update">>, <<12, 3, "service:delete">>,
                 <<13, 4, "channel:view">>, <<14, 4, "channel:add">>, <<15, 4, "channel:update">>,
                 <<16, 4, "channel:delete">>, <<17, 5, "support.chat:view">>,
                 <<18, 5, "support.chat:add">>, <<19, 5, "support.chat:update">>,
                 <<20, 5, "support.chat:delete">>, <<21, 6, "message:update">>,
                 <<22, 6, "message:delete">>, <<23, 7, "client:view">>, <<24, 7, "client:add">>,
                 <<25, 7, "client:update">>, <<26, 7, "client:delete">>, <<27, 8, "contact:view">>,
                 <<28, 8, "contact:add">>, <<29, 8, "contact:update">>, <<30, 8, "contact:delete">>})>>,
    down |-> <<Solta("permissions")>>]

CreatePermissionXUserTable1738352257503 == [
    up |-> <<Cria("permission_x_user", {"user_id", "permission_id"}, {}, {})>>,
    down |-> <<Solta("permission_x_user")>>]

CreateServicesTable1739075239283 == [
    up |-> <<Cria("services", {"name", "service_price"}, {"id", "created_at", "status"}, {})>>,
    down |-> <<Solta("services")>>]

CreateSupportServicesTable1739076120026 == [
    up |-> <<Cria("support_services", {"support_id", "service_id", "service_fee"}, {"id"},
                 {<<"supportservices_support_fk", "support_id", "supports">>,
                 <<"supportservices_service_fk", "service_id", "services">>})>>,
    down |-> <<Solta("support_services")>>]

CreateLogSistemaTable1739922407037 == [
    up |-> <<Cria("log_sistema", {"rota", "user_id", "metodo", "request_data", "queries"}, {"id",
                 "ip", "datetime_request"}, {})>>,
    down |-> <<Solta("log_sistema")>>]

CreateUserRefreshTokensTable1741525777343 == [
    up |-> <<Cria("user_refresh_tokens", {"user_id", "refresh_token", "expires_at"}, {"id"},
                 {<<"user_refresh_token_user_fk", "user_id", "users">>})>>,
    down |-> <<Solta("user_refresh_tokens")>>]

CreateChannelStatusTable1761251449715 == [
    up |-> <<Se(Cria("channel_status", {"name"}, {"id"}, {})),
             Insere("channel_status", {1, 2, 3, 4, 5})>>,
    down |-> <<Solta("channel_status")>>]

CreateSupportChatStatusTable1761251472613 == [
    up |-> <<Se(Cria("support_chat_status", {"name"}, {"id", "is_final"}, {})),
             Insere("support_chat_status", {1, 2, 3, 4, 5})>>,
    down |-> <<Solta("support_chat_status")>>]

CreateChannelsTable1761251488012 == [
    up |-> <<Se(Cria("channels", {"name"}, {"id", "phone_number", "session_id", "channel_status_id",
                 "qr_code", "connected_at", "disconnected_at", "created_at", "updated_at",
                 "deleted_at"},
                 {<<"fk_channel_status_id_channels", "channel_status_id", "channel_status">>}))>>,
    down |-> <<Desliga("channels", "fk_channel_status_id_channels"),
               Solta("channels")>>]

CreateSupportChatsTable1761251493663 == [
    up |-> <<Se(Cria("support_chats", {"channel_id", "contact_id", "support_chat_status_id",
                 "protocol"}, {"id", "user_id", "unread_count", "last_message", "last_message_type",
                 "last_message_id", "is_waiting", "created_at", "answered_at", "finished_at",
                 "updated_at", "observation_user"},
                 {<<"fk_users_id_support_chats", "user_id", "users">>,
                 <<"fk_channels_id_support_chats", "channel_id", "channels">>,
                 <<"fk_contacts_id_support_chats", "contact_id", "contacts">>,
                 <<"fk_support_chat_status_id_support_chats", "support_chat_status_id", "support_chat_status">>}))>>,
    down |-> <<Desliga("support_chats", "fk_users_id_support_chats"),
               Desliga("support_chats", "fk_channels_id_support_chats"),
               Desliga("support_chats", "fk_contacts_id_support_chats"),
               Desliga("support_chats", "fk_support_chat_status_id_support_chats"),
               Solta("support_chats")>>]

CreateSupportChatMessagesTable1761251530976 == [
    up |-> <<Se(Cria("support_chat_messages", {"id", "support_chat_id", "channel_id", "message_id",
                 "datetime", "ack", "type", "from_me", "from", "to", "device_type", "raw_payload"},
                 {"content", "has_media", "media_url", "media_type", "media_size", "is_deleted",
                 "is_edited", "is_gif", "has_reaction", "reaction", "created_at", "updated_at"},
                 {<<"fk_support_chat_id_support_chat_messages", "support_chat_id", "support_chats">>,
                 <<"fk_channels_id_support_chat_messages", "channel_id", "channels">>}))>>,
    down |-> <<Desliga("support_chat_messages", "fk_support_chat_id_support_chat_messages"),
               Desliga("support_chat_messages", "fk_channels_id_support_chat_messages"),
               Solta("support_chat_messages")>>]

CreateProtocolCounterTable1762386510336 == [
    up |-> <<Cria("protocol_counters", {"counter"}, {"id"}, {})>>,
    down |-> <<Solta("protocol_counters")>>]

ChangeQuotedMsg1767390103455 == [
    up |-> <<Poe("support_chat_messages", {}, {"has_quoted", "quoted_msg_id", "quoted_msg"})>>,
    down |-> <<Tira("support_chat_messages", {"has_quoted", "quoted_msg_id", "quoted_msg"})>>]

CreateIntegrationProvidersTable1788991327969 == [
    up |-> <<Se(Cria("integration_providers", {"name", "slug"}, {"id", "is_active", "created_at",
                 "updated_at"}, {})),
             Insere("integration_providers", {1, 2, 3})>>,
    down |-> <<Solta("integration_providers")>>]

CreateIntegrationsTable1788991327970 == [
    up |-> <<Se(Cria("integrations", {"integration_provider_id", "name"}, {"id", "base_url",
                 "credentials", "webhook_url", "webhook_secret", "is_default", "is_active",
                 "created_at", "updated_at", "deleted_at"},
                 {<<"fk_integration_provider_id_integrations", "integration_provider_id", "integration_providers">>})),
             Nomeia("uq_integrations_default", "integrations")>>,
    down |-> <<Se(Anula("uq_integrations_default")),
               Desliga("integrations", "fk_integration_provider_id_integrations"),
               Solta("integrations")>>]

AddIntegrationToChannels1788991327971 == [
    up |-> <<Poe("channels", {}, {"integration_id", "instance_token"}),
             Liga("channels", "fk_integration_id_channels", "integration_id", "integrations")>>,
    down |-> <<Se(Desliga("channels", "fk_integration_id_channels")),
               Tira("channels", {"integration_id", "instance_token"})>>]

AdjustColumnsForBaileysFormat1788991327972 == [
    up |-> <<Libera("support_chat_messages", {"device_type"})>>,
    down |-> <<Exame,
               Exige("support_chat_messages", {"device_type"})>>]

CreateIntegrationPermissions1788991327973 == [
    up |-> <<Modulos({9}),
             Semeia({<<31, 9, "integration:view">>, <<32, 9, "integration:add">>,
                 <<33, 9, "integration:update">>, <<34, 9, "integration:delete">>})>>,
    down |-> <<ApagaPermissoes(31..34),
               ApagaModulos({9})>>]

FixSupportChatMessagesIdDefault1788995702084 == [
    up |-> <<Libera("support_chat_messages", {"id"})>>,
    down |-> <<Exige("support_chat_messages", {"id"})>>]

AddMediaExpiredToMessages1788997359560 == [
    up |-> <<Poe("support_chat_messages", {}, {"media_expired", "media_expired_at"})>>,
    down |-> <<Tira("support_chat_messages", {"media_expired", "media_expired_at"})>>]

AddFileNameToMessages1789160000000 == [
    up |-> <<Poe("support_chat_messages", {}, {"file_name"})>>,
    down |-> <<Tira("support_chat_messages", {"file_name"})>>]

ConvertTimestampsToTimestamptz1789300000000 == [
    up |-> <<>>,
    down |-> <<>>]

FixTimestampsComDefaultDoBanco1789310000000 == [
    up |-> <<>>,
    down |-> <<>>]

AddHiddenAtToMessages1789420000000 == [
    up |-> <<Se(Poe("support_chat_messages", {}, {"hidden_at"}))>>,
    down |-> <<Tira("support_chat_messages", {"hidden_at"})>>]

ReactionsParaJsonb1789440000000 == [
    up |-> <<>>,
    down |-> <<>>]

CreateTagsTable1789460000000 == [
    up |-> <<Se(Cria("tags", {"name", "color"}, {"id", "created_at", "updated_at", "deleted_at"},
                 {})),
             Nomeia("uq_tags_name", "tags")>>,
    down |-> <<Se(Anula("uq_tags_name")),
               Se(Solta("tags"))>>]

CreateClientXTagTable1789460000001 == [
    up |-> <<Se(Cria("client_x_tag", {"client_id", "tag_id"}, {},
                 {<<"clientxtag_client_fk", "client_id", "clients">>,
                 <<"clientxtag_tag_fk", "tag_id", "tags">>}))>>,
    down |-> <<Se(Solta("client_x_tag"))>>]

CreateTagPermissions1789460000002 == [
    up |-> <<Modulos({10}),
             Semeia({<<35, 10, "tag:view">>, <<36, 10, "tag:add">>, <<37, 10, "tag:update">>,
                 <<38, 10, "tag:delete">>})>>,
    down |-> <<ApagaPermissoes(35..38),
               ApagaModulos({10})>>]

RemoveTagsDeContacts1789460000003 == [
    up |-> <<Se(Tira("contacts", {"tags"}))>>,
    down |-> <<Se(Poe("contacts", {}, {"tags"}))>>]

AddTextColorToTags1789470000000 == [
    up |-> <<Se(Poe("tags", {}, {"text_color"}))>>,
    down |-> <<Tira("tags", {"text_color"})>>]

CreatePermissionGroupsTable1789480000000 == [
    up |-> <<Se(Cria("permission_groups", {"name"}, {"id", "description", "is_system", "created_at",
                 "updated_at", "deleted_at"}, {})),
             Nomeia("uq_permission_groups_name", "permission_groups")>>,
    down |-> <<Se(Anula("uq_permission_groups_name")),
               Se(Solta("permission_groups"))>>]

CreatePermissionGroupXPermissionTable1789480000001 == [
    up |-> <<Se(Cria("permission_group_x_permission", {"permission_group_id", "permission_id"}, {},
                 {<<"pgxpermission_group_fk", "permission_group_id", "permission_groups">>,
                 <<"pgxpermission_permission_fk", "permission_id", "permissions">>}))>>,
    down |-> <<Se(Solta("permission_group_x_permission"))>>]

AddPermissionGroupIdToUsers1789480000002 == [
    up |-> <<Poe("users", {}, {"permission_group_id"}),
             Liga("users", "users_permission_group_fk", "permission_group_id", "permission_groups")>>,
    down |-> <<Desliga("users", "users_permission_group_fk"),
               Tira("users", {"permission_group_id"})>>]

CorrigePermissoesDivergentes1789480000003 == [
    up |-> <<Modulos({11, 12}),
             Semeia({<<39, 8, "contact:view_by_client">>, <<40, 11, "permission:view">>,
                 <<41, 11, "permission:update">>, <<42, 12, "permission_group:view">>,
                 <<43, 12, "permission_group:add">>, <<44, 12, "permission_group:update">>,
                 <<45, 12, "permission_group:delete">>})>>,
    down |-> <<Revoga(PadroesDoSistema, 39..45),
               ApagaPermissoes(39..45),
               ApagaModulos({11, 12})>>]

SeedGruposPermissaoPadrao1789480000004 == [
    up |-> <<Insere("permission_groups", PadroesDoSistema),
             ConcedeExceto({Administrador}, {}),
             ConcedeExceto({Supervisor}, ForaDoSupervisor),
             ConcedePorNome({Atendente}, DoAtendente)>>,
    down |-> <<Revoga(PadroesDoSistema, Todas),
               Apaga("permission_groups", PadroesDoSistema)>>]
=============================================================================
