------------------------------- MODULE Rotas --------------------------------
(***************************************************************************)
(* The HTTP routes of the API, one definition per controller: for each     *)
(* route its verb, its path (P stands for a parameter), the method that    *)
(* answers it, and what PermissionGuard asks of the caller.  What a method *)
(* does is the business of the modules of the services; parsing and        *)
(* validation of bodies and parameters are left out.                       *)
(***************************************************************************)
EXTENDS Naturals, Sequences

P == ":"

Rota(verbo, caminho, metodo, permissoes) ==
    [verbo |-> verbo, caminho |-> caminho, metodo |-> metodo, guarda |-> "permissao", permissoes |-> permissoes]
\* @SemPermissao: any authenticated user.
Livre(verbo, caminho, metodo) ==
    [verbo |-> verbo, caminho |-> caminho, metodo |-> metodo, guarda |-> "sem_permissao", permissoes |-> {}]
\* @ApenasSuperusuario: the master user only.
Mestre(verbo, caminho, metodo) ==
    [verbo |-> verbo, caminho |-> caminho, metodo |-> metodo, guarda |-> "superusuario", permissoes |-> {}]
\* No PermissionGuard: the route authenticates by itself, or not at all.
Publica(verbo, caminho, metodo) ==
    [verbo |-> verbo, caminho |-> caminho, metodo |-> metodo, guarda |-> "nenhuma", permissoes |-> {}]

AttendanceSettingsController == <<
    Livre("GET", <<"vigentes">>, "vigentes"),
    Rota("GET", <<>>, "listar", {"attendance_settings:manage"}),
    Rota("PATCH", <<>>, "atualizar", {"attendance_settings:manage"})>>

AuthController == <<
    Publica("POST", <<"signin">>, "signin"),
    Publica("POST", <<"refresh">>, "refresh"),
    Publica("POST", <<"logout">>, "logout")>>

ChannelsController == <<
    Rota("GET", <<"chatbots", "opcoes">>, "opcoesChatbot", {"channel:view", "channel:add",
        "channel:update"}),
    Rota("GET", <<>>, "getActiveChannels", {"channel:view"}),
    Rota("GET", <<P>>, "findChannel", {"channel:view"}),
    Rota("GET", <<P, "start">>, "startSession", {"channel:config"}),
    Rota("GET", <<P, "terminate">>, "closeSession", {"channel:config"}),
    Rota("POST", <<P, "reiniciar">>, "restartSession", {"channel:config"}),
    Rota("GET", <<P, "sincronizar-status">>, "sincronizarStatus", {"channel:view"}),
    Rota("POST", <<>>, "createChannel", {"channel:add"}),
    Rota("PATCH", <<P>>, "updateChannel", {"channel:update"}),
    Rota("DELETE", <<P>>, "removeChannel", {"channel:delete"}),
    Rota("POST", <<"assinar-anexo">>, "assinarAnexo", {"channel:add", "channel:update"})>>

ChatbotsController == <<
    Rota("GET", <<>>, "findAll", {"chatbot:view"}),
    Rota("GET", <<"destinos-atendimento">>, "destinosAtendimento", {"chatbot:view",
        "chatbot:update", "chatbot:publish"}),
    Rota("GET", <<P>>, "findOne", {"chatbot:view"}),
    Rota("POST", <<>>, "create", {"chatbot:add"}),
    Rota("PATCH", <<P>>, "update", {"chatbot:update"}),
    Rota("DELETE", <<P>>, "remove", {"chatbot:delete"}),
    Rota("GET", <<P, "flow">>, "findDraft", {"chatbot:view"}),
    Rota("PUT", <<P, "flow">>, "saveFlow", {"chatbot:update"}),
    Rota("POST", <<P, "publish">>, "publish", {"chatbot:publish"}),
    Rota("POST", <<P, "unpublish">>, "unpublish", {"chatbot:publish"}),
    Rota("POST", <<"sign-media">>, "assinarMedia", {"chatbot:update"})>>

ClientController == <<
    Rota("POST", <<>>, "createClient", {"client:add"}),
    Rota("PATCH", <<P>>, "updateClient", {"client:update"}),
    Rota("PATCH", <<P, "tags">>, "atualizarEtiquetas", {"client:update"}),
    Rota("DELETE", <<P>>, "removeClient", {"client:delete"}),
    Rota("GET", <<>>, "findAll", {"client:view"}),
    Rota("GET", <<P>>, "findOne", {"client:view"})>>

ContactsController == <<
    Rota("GET", <<>>, "getAllContacts", {"contact:view"}),
    Rota("POST", <<>>, "createContact", {"contact:add"}),
    Rota("DELETE", <<"contact", P>>, "deleteContact", {"contact:delete"}),
    Rota("PATCH", <<"contact", P>>, "updateContact", {"contact:update"}),
    Rota("POST", <<"contact", P, "mesclar", P>>, "mesclarContatos", {"contact:update"}),
    Rota("GET", <<"contact">>, "getAllContactsByClients", {"contact:view_by_client"}),
    Rota("POST", <<"contact", P, "sign-avatar">>, "signAvatar", {"contact:update"}),
    Rota("POST", <<"contact", P, "buscar-foto-whatsapp">>, "buscarFotoDoWhatsapp",
        {"contact:update"})>>

CustomFieldsController == <<
    Rota("GET", <<>>, "findAll", {"custom.field:view", "contact:update", "client:update"}),
    Rota("GET", <<P>>, "findOne", {"custom.field:view"}),
    Rota("POST", <<>>, "create", {"custom.field:add"}),
    Rota("PATCH", <<P>>, "update", {"custom.field:update"}),
    Rota("DELETE", <<P>>, "remove", {"custom.field:delete"})>>

DashboardController == <<
    Livre("GET", <<"movimento-por-semana">>, "movimentoPorSemana"),
    Livre("GET", <<"resumo">>, "resumo"),
    Livre("GET", <<"serie-finalizados">>, "serieFinalizados"),
    Livre("GET", <<"movimento-por-hora">>, "movimentoPorHora")>>

DepartmentsController == <<
    Rota("GET", <<>>, "findAll", {"department:view", "user:update", "user:add", "channel:update",
        "channel:add", "support.chat:update", "support.chat:transfer", "chatbot:update"}),
    Rota("GET", <<P>>, "findOne", {"department:view"}),
    Rota("POST", <<>>, "create", {"department:add"}),
    Rota("PATCH", <<P>>, "update", {"department:update"}),
    Rota("DELETE", <<P>>, "remove", {"department:delete"}),
    Rota("GET", <<P, "users">>, "membros", {"department:view"}),
    Rota("PATCH", <<P, "users">>, "atualizaMembros", {"department:update"}),
    Rota("GET", <<P, "schedule">>, "getSchedule", {"department:view"}),
    Rota("PATCH", <<P, "schedule">>, "updateSchedule", {"department:update"}),
    Rota("GET", <<P, "schedule-exceptions">>, "listarExcecoes", {"department:view",
        "department:update"}),
    Rota("POST", <<P, "schedule-exceptions">>, "criarExcecao", {"department:update"}),
    Rota("PATCH", <<P, "schedule-exceptions", P>>, "editarExcecao", {"department:update"}),
    Rota("DELETE", <<P, "schedule-exceptions", P>>, "removerExcecao", {"department:update"})>>

HealthController == <<
    Publica("GET", <<>>, "verificar")>>

HolidaysController == <<
    Rota("GET", <<>>, "findAll", {"holiday:view", "department:view", "department:update",
        "schedule:view"}),
    Rota("GET", <<P>>, "findOne", {"holiday:view"}),
    Rota("POST", <<>>, "create", {"holiday:add"}),
    Rota("PATCH", <<P>>, "update", {"holiday:update"}),
    Rota("DELETE", <<P>>, "remove", {"holiday:delete"})>>

InternalChatsController == <<
    Rota("GET", <<"colegas">>, "listarColegas", {"internal.chat:view"}),
    Rota("GET", <<>>, "listarConversas", {"internal.chat:view"}),
    Rota("GET", <<"nao-lidas">>, "contarNaoLidas", {"internal.chat:view"}),
    Rota("POST", <<"sign-media">>, "assinarMidia", {"internal.chat:send"}),
    Rota("GET", <<P, "messages">>, "listarMensagens", {"internal.chat:view"}),
    Rota("PATCH", <<P, "read">>, "marcarLidas", {"internal.chat:view"}),
    Rota("POST", <<P, "messages">>, "enviar", {"internal.chat:send"})>>

NotificationsController == <<
    Livre("GET", <<>>, "listar"),
    Livre("PATCH", <<"read-all">>, "lerTodas"),
    Livre("PATCH", <<P, "read">>, "lerUma")>>

PasswordResetController == <<
    Publica("POST", <<"esqueci-senha">>, "solicitar"),
    Publica("GET", <<"redefinir-senha", P, "valido">>, "validar"),
    Publica("POST", <<"redefinir-senha">>, "redefinir")>>

PermissionGroupsController == <<
    Rota("GET", <<>>, "findAll", {"permission_group:view"}),
    Rota("GET", <<P>>, "findOne", {"permission_group:view"}),
    Rota("POST", <<>>, "create", {"permission_group:add"}),
    Rota("PATCH", <<P>>, "update", {"permission_group:update"}),
    Rota("DELETE", <<P>>, "remove", {"permission_group:delete"})>>

PermissionsController == <<
    Rota("GET", <<>>, "findAll", {"permission:view"}),
    Rota("GET", <<"modules">>, "findAllModules", {"permission:view"})>>

QuickRepliesController == <<
    Rota("GET", <<>>, "findAll", {"quick.reply:view", "support.chat:view"}),
    Rota("GET", <<P>>, "findOne", {"quick.reply:view", "support.chat:view"}),
    Rota("POST", <<>>, "create", {"quick.reply:add"}),
    Rota("PATCH", <<P>>, "update", {"quick.reply:update"}),
    Rota("DELETE", <<P>>, "remove", {"quick.reply:delete"}),
    Rota("POST", <<"assinar-anexo">>, "assinarAnexo", {"quick.reply:add", "quick.reply:update"}),
    Rota("POST", <<P, "preparar-anexo">>, "prepararAnexo", {"support.chat:update"})>>

ReportsController == <<
    Rota("GET", <<"attendance">>, "atendimentos", {"report.attendance:view",
        "support.chat:history"}),
    Rota("GET", <<"attendance", "pdf">>, "atendimentosPdf", {"report.attendance:view"}),
    Rota("GET", <<"attendance", "excel">>, "atendimentosExcel", {"report.attendance:view"}),
    Rota("GET", <<"productivity">>, "produtividade", {"report.productivity:view"}),
    Rota("GET", <<"productivity", "pdf">>, "produtividadePdf", {"report.productivity:view"}),
    Rota("GET", <<"productivity", "excel">>, "produtividadeExcel", {"report.productivity:view"}),
    Rota("GET", <<"client">>, "porCliente", {"report.client:view"}),
    Rota("GET", <<"client", "pdf">>, "porClientePdf", {"report.client:view"}),
    Rota("GET", <<"client", "excel">>, "porClienteExcel", {"report.client:view"}),
    Rota("GET", <<"client-detail", "search">>, "buscarClienteOuContato",
        {"report.client_detail:view"}),
    Rota("GET", <<"client-detail", "resolve">>, "resolverClienteOuContato",
        {"report.client_detail:view"}),
    Rota("GET", <<"client-detail">>, "detalheDoCliente", {"report.client_detail:view"}),
    Rota("GET", <<"client-detail", "pdf">>, "detalheDoClientePdf", {"report.client_detail:view"}),
    Rota("GET", <<"client-detail", "excel">>, "detalheDoClienteExcel",
        {"report.client_detail:view"})>>

SchedulesController == <<
    Rota("GET", <<>>, "listar", {"schedule:view"}),
    Rota("GET", <<"atendentes">>, "listarAtendentes", {"schedule:view"}),
    Rota("GET", <<P>>, "buscar", {"schedule:view"}),
    Rota("POST", <<"conflitos">>, "conflitos", {"schedule:add"}),
    Rota("POST", <<>>, "criar", {"schedule:add"}),
    Rota("PATCH", <<P>>, "atualizar", {"schedule:edit"}),
    Rota("DELETE", <<P>>, "remover", {"schedule:delete"})>>

ServiceAlertsController == <<
    Rota("GET", <<>>, "findAll", {"service.alert:view"}),
    Rota("GET", <<P>>, "findOne", {"service.alert:view"}),
    Rota("POST", <<>>, "create", {"service.alert:add"}),
    Rota("PATCH", <<P>>, "update", {"service.alert:update"}),
    Rota("PATCH", <<P, "ativo">>, "alternarAtivo", {"service.alert:update"}),
    Rota("DELETE", <<P>>, "remove", {"service.alert:delete"})>>

ServicesController == <<
    Rota("GET", <<>>, "findAll", {"service:view"}),
    Rota("SSE", <<"sse">>, "sse", {"service:view"}),
    Rota("GET", <<P>>, "findById", {"service:view"}),
    Rota("POST", <<>>, "createService", {"service:add"}),
    Rota("PATCH", <<P>>, "updateService", {"service:update"}),
    Rota("DELETE", <<P>>, "deleteService", {"service:delete"})>>

SupportChatsController == <<
    Rota("POST", <<"nova">>, "criarNova", {"support.chat:update"}),
    Rota("POST", <<P, "send-message">>, "sendMessage", {"support.chat:update"}),
    Rota("POST", <<"sign-media-post">>, "signMediaPost", {"support.chat:update"}),
    Rota("POST", <<P, "send-reply">>, "replyMessage", {"support.chat:update"}),
    Rota("GET", <<>>, "listAllSupportChats", {"support.chat:view"}),
    Rota("GET", <<P, "messages">>, "findSupportChatById", {"support.chat:view",
        "support.chat:history"}),
    Rota("GET", <<P, "mensagem-citada", P>>, "findMensagemCitata", {"support.chat:view"}),
    Rota("GET", <<P, "anteriores">>, "contarAnteriores", {"support.chat:view"}),
    Rota("GET", <<P, "anterior">>, "findAnterior", {"support.chat:view"}),
    Rota("POST", <<P, "send-media">>, "sendMedia", {"support.chat:update"}),
    Rota("POST", <<P, "delete-message">>, "deleteMessage", {"message:delete"}),
    Rota("POST", <<P, "ocultar-mensagens">>, "ocultarMensagens", {"message:delete"}),
    Rota("POST", <<P, "marcar-lida">>, "marcarComoLida", {"support.chat:view"}),
    Rota("POST", <<P, "marcar-nao-lida">>, "marcarComoNaoLida", {"support.chat:view"}),
    Rota("POST", <<P, "iniciar">>, "iniciarAtendimento", {"support.chat:update"}),
    Rota("POST", <<P, "pausar">>, "pausarAtendimento", {"support.chat:pause"}),
    Rota("POST", <<P, "retomar">>, "retomarAtendimento", {"support.chat:pause"}),
    Rota("GET", <<P, "fluxo-saida">>, "fluxoSaida", {"support.chat:update"}),
    Rota("POST", <<P, "finalizar">>, "finalizarAtendimento", {"support.chat:update"}),
    Rota("POST", <<P, "finalizar-sem-atendimento">>, "finalizarSemAtendimento",
        {"support.chat:update"}),
    Rota("POST", <<P, "transferir">>, "transferirAtendimento", {"support.chat:transfer"}),
    Rota("GET", <<P, "destinos-transferencia">>, "destinosTransferencia",
        {"support.chat:transfer"}),
    Rota("POST", <<P, "edit-message">>, "editMessage", {"message:update"}),
    Rota("POST", <<P, "send-reaction">>, "sendReaction", {"support.chat:update"})>>

SupportsController == <<
    Rota("GET", <<>>, "findAll", {"support:view"}),
    Rota("GET", <<"status">>, "getListStatus", {"support:view"}),
    Rota("GET", <<P, "filter">>, "filterByDate", {"support:view"}),
    Rota("GET", <<"get_by_user", P>>, "findByUserId", {"support:view"}),
    Rota("GET", <<P>>, "findOne", {"support:view"}),
    Rota("POST", <<>>, "createSupport", {"support:add"}),
    Rota("PATCH", <<P>>, "updateSupport", {"support:update"}),
    Rota("DELETE", <<P>>, "deleteSupport", {"support:delete"})>>

SystemSettingsController == <<
    Mestre("GET", <<>>, "listar"),
    Mestre("PATCH", <<>>, "atualizar"),
    Mestre("POST", <<"testar-email">>, "testarEmail")>>

TagsController == <<
    Rota("GET", <<>>, "findAll", {"tag:view"}),
    Rota("GET", <<P>>, "findOne", {"tag:view"}),
    Rota("POST", <<>>, "create", {"tag:add"}),
    Rota("PATCH", <<P>>, "update", {"tag:update"}),
    Rota("DELETE", <<P>>, "remove", {"tag:delete"})>>

UserConfigController == <<
    Livre("GET", <<>>, "paraTela"),
    Livre("PATCH", <<>>, "atualizar")>>

UserInvitesController == <<
    Publica("GET", <<P, "valido">>, "validar"),
    Publica("POST", <<P, "aceitar">>, "aceitar")>>

UsersController == <<
    Livre("GET", <<"info">>, "userInfo"),
    Rota("GET", <<"meu-perfil">>, "meuPerfil", {"user:profile_view"}),
    Rota("PATCH", <<"meu-perfil">>, "atualizaMeuPerfil", {"user:profile_update"}),
    Livre("PATCH", <<"preferencias-tema">>, "atualizaPreferenciasTema"),
    Rota("GET", <<>>, "findAll", {"user:view", "support.chat:transfer", "report.attendance:view"}),
    Rota("GET", <<"cores-agenda">>, "coresAgenda", {"user:view", "user:add", "user:update"}),
    Rota("GET", <<P>>, "findOne", {"user:view"}),
    Rota("POST", <<"sign-avatar">>, "signAvatar", {"user:update"}),
    Rota("POST", <<>>, "addUser", {"user:add"}),
    Rota("PATCH", <<P>>, "updateUser", {"user:update"}),
    Rota("DELETE", <<P>>, "deleteUser", {"user:delete"}),
    Rota("POST", <<P, "reenviar-convite">>, "reenviarConvite", {"user:add"}),
    Rota("POST", <<P, "link-convite">>, "linkConvite", {"user:add"})>>

WhatsappController == <<
    Publica("POST", <<"webhook">>, "handleWebhook")>>

Controladores == {AttendanceSettingsController, AuthController, ChannelsController,
    ChatbotsController, ClientController, ContactsController, CustomFieldsController,
    DashboardController, DepartmentsController, HealthController, HolidaysController,
    InternalChatsController, NotificationsController, PasswordResetController,
    PermissionGroupsController, PermissionsController, QuickRepliesController, ReportsController,
    SchedulesController, ServiceAlertsController, ServicesController, SupportChatsController,
    SupportsController, SystemSettingsController, TagsController, UserConfigController,
    UserInvitesController, UsersController, WhatsappController}

TodasAsRotas == UNION {{c[i] : i \in DOMAIN c} : c \in Controladores}

\* PermissionGuard.canActivate for an authenticated user, in the guard's order.
\* `tem` is the set of names permissoesDoUsuario answers.
Ativa(rota, superusuario, tem) ==
    CASE rota.guarda = "superusuario" -> superusuario
      [] rota.guarda = "sem_permissao" -> TRUE
      [] OTHER -> superusuario \/ rota.permissoes \cap tem # {}

\* Route `a` takes every request that route `b` could take: Nest tries them in order.
Encobre(a, b) ==
    /\ a.verbo = b.verbo
    /\ Len(a.caminho) = Len(b.caminho)
    /\ \A k \in DOMAIN a.caminho : a.caminho[k] \in {P, b.caminho[k]}
=============================================================================
