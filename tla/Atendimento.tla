------------------------------ MODULE Atendimento ------------------------------
(****************************************************************************)
(* The support chat ("atendimento"): the rows of support_chats that one    *)
(* contact has on one channel, the chatbot executions attached to them,    *)
(* and everybody who writes them:                                          *)
(*   - the HTTP requests of the attendants, each of which READS the row,    *)
(*     validates it, may talk to WhatsApp, and only then runs a             *)
(*     transaction whose UPDATE ... WHERE decides again;                    *)
(*   - the webhook worker, which opens a chat for an incoming message;      *)
(*   - the chatbot worker, whose step commits first and then, outside the   *)
(*     transaction, hands the chat over, closes it or gives it back;        *)
(*   - the inactivity cron and the administrator's automation switches.     *)
(* A database transaction is one action.  Everything a handler does after   *)
(* reading the row and before writing it happens in a later action, so any  *)
(* other actor may run in between, and the process may stop there.          *)
(****************************************************************************)
EXTENDS Naturals, FiniteSets

CONSTANTS
  Conversas,     \* the protocols the contact may open (bound on support_chats.id)
  Atendentes,    \* users who attend
  Masters,       \* those of them with is_superuser
  Setores,       \* departments linked to the channel
  SetoresDe,     \* departments of each attendant, all of them with view_all_departments
  VeOutros,      \* attendants with support.chat:view_others
  SetorPadrao,   \* channels.default_department_id
  Requisicoes,   \* slots for HTTP requests in flight (bound)
  Chaves,        \* automation switches an administrator flips in this instance
  FluxoEntrada,  \* the channel has an active, published entry flow
  FluxoSaida,    \* the channel has an active, published exit flow
  Ninguem,       \* user_id IS NULL
  Livre          \* an idle slot or worker

ASSUME ConstantesDoAtendimento ==
  /\ Masters \subseteq Atendentes
  /\ SetorPadrao \in Setores
  /\ SetoresDe \in [Atendentes -> SUBSET Setores]
  /\ VeOutros \subseteq Atendentes
  /\ Chaves \subseteq {"modulo", "canal", "contato"}
  /\ FluxoEntrada \in BOOLEAN
  /\ FluxoSaida \in BOOLEAN
  /\ Ninguem \notin Atendentes

VARIABLES
  conversa,   \* the support_chats rows
  execucao,   \* status of the chatbot_flow_executions of each chat, by phase
  ligadas,    \* the automation switches that are on
  pedido,     \* requests that have read the row and have not written it yet
  webhook,    \* the transaction of onMessageCreate that found no open chat
  bot,        \* what the chatbot worker still has to do after its commit
  cron        \* chats the inactivity cron has decided to close

vars == <<conversa, execucao, ligadas, pedido, webhook, bot, cron>>

--------------------------------------------------------------------------------
(* Rows *)

NaoAssumidos == {"AGUARDANDO", "EM_FILA"}
Finais == {"FINALIZADO_SEM_RESPOSTA", "FINALIZADO", "FINALIZADO_POR_INATIVIDADE",
           "FINALIZADO_PELO_CHATBOT"}
Encerraveis == {"FINALIZADO", "FINALIZADO_PELO_CHATBOT"}  \* those with an exit flow
Status == {"NAO_ABERTA", "EM_ANDAMENTO"} \cup NaoAssumidos \cup Finais

Donos == Atendentes \cup {Ninguem}

\* user_id, department_id, is_waiting, answered_at # NULL, paused_at # NULL,
\* pos_atendimento_ativo.
Linha == [status : Status, dono : Donos, setor : Setores, esperando : BOOLEAN,
          respondida : BOOLEAN, pausada : BOOLEAN, pos : BOOLEAN]

LinhaAusente ==
  [status |-> "NAO_ABERTA", dono |-> Ninguem, setor |-> SetorPadrao, esperando |-> FALSE,
   respondida |-> FALSE, pausada |-> FALSE, pos |-> FALSE]

\* The row abre() inserts; is_waiting is TRUE by the column's default.
LinhaNova(setor) ==
  [LinhaAusente EXCEPT !.status = "AGUARDANDO", !.setor = setor, !.esperando = TRUE]

\* buscaAberta: not final, or final with the exit flow still holding the protocol.
Aberta(c) ==
  /\ conversa[c].status # "NAO_ABERTA"
  /\ conversa[c].status \notin Finais \/ conversa[c].pos

--------------------------------------------------------------------------------
(* Executions *)

Fases == {"entrada", "saida"}
Vivas == {"running", "suspended"}
EstadosExecucao == Vivas \cup {"inexistente", "completed", "failed", "aborted"}

\* abortarDoAtendimento
Abortadas(porFase) ==
  [f \in Fases |-> IF porFase[f] \in Vivas THEN "aborted" ELSE porFase[f]]

\* abortarDoAtendimento followed by iniciar(..., 'saida')
ComSaidaIniciada(porFase) == [Abortadas(porFase) EXCEPT !["saida"] = "running"]

\* chatbotHabilitado, channel.chatbot_habilitado and permiteAutomacao, together.
AutomacaoLigada == {"modulo", "canal", "contato"} \subseteq ligadas
TemFluxoSaida == FluxoSaida /\ "canal" \in ligadas

--------------------------------------------------------------------------------
(* Requests, the bot's remaining work, and the initial state *)

Operacoes == {"validado", "iniciar", "pausar", "retomar", "finalizar", "finalizarComSaida",
              "saidaAutorizada", "transferir", "descartar", "criar"}

\* dono and setor are the columns the handler remembers from its read (or, for
\* a transfer, setor is the target department); destino is the new owner asked for.
\* visto is the department the guard saw; where the handler reads the row again, dono is
\* the owner the guard saw.
Pedido == [op : Operacoes, quem : Atendentes, conversa : Conversas, dono : Donos,
           visto : Setores, setor : Setores, destino : Donos]

Etapas == {"encaminhar", "encerrar", "encerrarComSaida", "despedir", "liberar",
           "devolver", "concluir"}

TarefaDoBot == [conversa : Conversas, fase : Fases, etapa : Etapas, saida : BOOLEAN,
                setor : Setores, destino : Donos]

\* modulo: what chatbotHabilitado answered; decidida, comFluxo: decideAcaoDoChatbot.
AberturaPendente == [modulo : BOOLEAN, decidida : BOOLEAN, comFluxo : BOOLEAN]

\* No request, no task, no message.
ASSUME LivreEhLivre == Livre \notin Pedido \cup TarefaDoBot \cup AberturaPendente

TypeOK ==
  /\ conversa \in [Conversas -> Linha]
  /\ execucao \in [Conversas -> [Fases -> EstadosExecucao]]
  /\ ligadas \subseteq {"modulo", "canal", "contato"}
  /\ pedido \in [Requisicoes -> Pedido \cup {Livre}]
  /\ webhook \in AberturaPendente \cup {Livre}
  /\ bot \in TarefaDoBot \cup {Livre}
  /\ cron \subseteq Conversas

Init ==
  /\ conversa = [c \in Conversas |-> LinhaAusente]
  /\ execucao = [c \in Conversas |-> [f \in Fases |-> "inexistente"]]
  /\ ligadas = {"modulo", "canal", "contato"}
  /\ pedido = [r \in Requisicoes |-> Livre]
  /\ webhook = Livre
  /\ bot = Livre
  /\ cron = {}

\* Frames: who else may write what.
TabelasIguais == UNCHANGED <<conversa, execucao>>
SoOPedido == UNCHANGED <<ligadas, webhook, bot, cron>>
SoOBot == UNCHANGED <<ligadas, pedido, webhook, cron>>

--------------------------------------------------------------------------------
(* Attendants: what each request reads and checks *)

PodeAgir(u, c) == u \in Masters \/ conversa[c].dono = u

NovoPedido(op, u, c) ==
  [op |-> op, quem |-> u, conversa |-> c, dono |-> conversa[c].dono,
   visto |-> conversa[c].setor, setor |-> conversa[c].setor, destino |-> Ninguem]

Chega(r, p) ==
  /\ pedido[r] = Livre
  /\ pedido' = [pedido EXCEPT ![r] = p]
  /\ TabelasIguais /\ SoOPedido

AlcancaSetor(u, setor) == u \in Masters \/ setor \in SetoresDe[u]

\* podeVer: the owner always may; others by department and, in attendance, view_others.
PodeVer(u, l) ==
  \/ l.dono = u
  \/ /\ AlcancaSetor(u, l.setor)
     /\ l.status = "EM_ANDAMENTO" /\ l.dono # Ninguem => u \in Masters \cup VeOutros

\* AcessoAtendimentoGuard reads the row before the handler does.  A handler that asks for
\* the owner or a master (PodeAgir) lets nobody by whom the guard, at that same moment,
\* would not: only for those that ask for nobody in particular is it a step of its own.
ValidarAcesso(r, u, c) ==
  /\ conversa[c].status # "NAO_ABERTA" /\ PodeVer(u, conversa[c])
  /\ Chega(r, NovoPedido("validado", u, c))

\* findParaEstado after the guard: the handler refuses what is taken or over, and
\* remembers the department as it is by now.
LeNaoAssumido(r, op) ==
  /\ pedido[r] # Livre /\ pedido[r].op = "validado"
  /\ LET l == conversa[pedido[r].conversa]
     IN pedido' = [pedido EXCEPT ![r] = IF l.status \in NaoAssumidos
                                        THEN [@ EXCEPT !.op = op, !.setor = l.setor]
                                        ELSE Livre]
  /\ TabelasIguais /\ SoOPedido

LeIniciar(r) == LeNaoAssumido(r, "iniciar")

LeDescartar(r) == LeNaoAssumido(r, "descartar")

LePausar(r, u, c) ==
  /\ conversa[c].status = "EM_ANDAMENTO" /\ PodeAgir(u, c) /\ ~conversa[c].pausada
  /\ Chega(r, NovoPedido("pausar", u, c))

LeRetomar(r, u, c) ==
  /\ conversa[c].status = "EM_ANDAMENTO" /\ PodeAgir(u, c) /\ conversa[c].pausada
  /\ Chega(r, NovoPedido("retomar", u, c))

\* finalizarAtendimento chooses here between the two ways of closing; the
\* farewell message of the plain one is sent before its UPDATE.
LeFinalizar(r, u, c) ==
  /\ conversa[c].status = "EM_ANDAMENTO" /\ PodeAgir(u, c)
  /\ \/ Chega(r, NovoPedido("finalizar", u, c))
     \/ "contato" \in ligadas /\ Chega(r, NovoPedido("finalizarComSaida", u, c))

LeTransferir(r, u, c) ==
  /\ conversa[c].status = "EM_ANDAMENTO" /\ PodeAgir(u, c)
  /\ \E destino \in Donos \ (IF conversa[c].dono = Ninguem THEN {} ELSE {conversa[c].dono}),
        setor \in Setores :
       Chega(r, [NovoPedido("transferir", u, c) EXCEPT !.destino = destino, !.setor = setor])

\* criarNova: the search for an open chat found none; the INSERT is still to come.
\* The request names no row yet: its conversa is any unused id.
LeCriar(r, u) ==
  /\ \A c \in Conversas : ~Aberta(c)
  /\ \E c \in Conversas : conversa[c].status = "NAO_ABERTA"
  /\ LET c == CHOOSE c \in Conversas : conversa[c].status = "NAO_ABERTA"
     IN \E setor \in Setores :
          Chega(r, [NovoPedido("criar", u, c) EXCEPT !.setor = setor])

--------------------------------------------------------------------------------
(* Attendants: the transaction of each request.  When its WHERE matches no row   *)
(* the handler answers 409 and nothing changes.                                  *)

Responde(r) == pedido' = [pedido EXCEPT ![r] = Livre] /\ SoOPedido

Grava(c, linha) == conversa' = [conversa EXCEPT ![c] = linha]

Executa(r, op) == pedido[r] # Livre /\ pedido[r].op = op

Assume(l, u) ==
  [l EXCEPT !.dono = u, !.respondida = TRUE, !.esperando = FALSE, !.status = "EM_ANDAMENTO"]

\* Finalizar's SET clause, which also folds an open pause into the total.
Encerra(l, status) ==
  [l EXCEPT !.status = status, !.esperando = FALSE, !.pausada = FALSE]

\* The WHERE of assumir; (mutant) without the department.
OndeQuerQueEspere(l, p) == l.status \in NaoAssumidos
EsperaNoSetor(l, p) == l.status \in NaoAssumidos /\ l.setor = p.setor

Assumir(r) ==
  /\ Executa(r, "iniciar")
  /\ LET p == pedido[r]
         l == conversa[p.conversa]
     IN IF EsperaNoSetor(l, p)
        THEN /\ Grava(p.conversa, Assume(l, p.quem))
             /\ execucao' = [execucao EXCEPT ![p.conversa] = Abortadas(@)]
        ELSE TabelasIguais
  /\ Responde(r)

Pausar(r) ==
  /\ Executa(r, "pausar")
  /\ LET p == pedido[r]
         l == conversa[p.conversa]
     IN IF l.status = "EM_ANDAMENTO" /\ l.dono = p.dono /\ ~l.pausada
        THEN Grava(p.conversa, [l EXCEPT !.pausada = TRUE])
        ELSE conversa' = conversa
  /\ execucao' = execucao
  /\ Responde(r)

Retomar(r) ==
  /\ Executa(r, "retomar")
  /\ LET p == pedido[r]
         l == conversa[p.conversa]
     IN IF l.status = "EM_ANDAMENTO" /\ l.pausada
        THEN Grava(p.conversa, [l EXCEPT !.pausada = FALSE])
        ELSE conversa' = conversa
  /\ execucao' = execucao
  /\ Responde(r)

Finalizar(r) ==
  /\ Executa(r, "finalizar")
  /\ LET p == pedido[r]
         l == conversa[p.conversa]
     IN IF l.status = "EM_ANDAMENTO"
        THEN Grava(p.conversa, Encerra(l, "FINALIZADO"))
        ELSE conversa' = conversa
  /\ execucao' = execucao
  /\ Responde(r)

\* finalizarComFluxoSaida reads the switches first; the module's stays locked FOR
\* SHARE until its commit, those of the contact and of the channel may change.
AutorizarSaida(r) ==
  /\ Executa(r, "finalizarComSaida")
  /\ pedido' = [pedido EXCEPT ![r] = IF AutomacaoLigada THEN [@ EXCEPT !.op = "saidaAutorizada"]
                                                        ELSE Livre]
  /\ TabelasIguais /\ SoOPedido

FinalizarComFluxoSaida(r) ==
  /\ Executa(r, "saidaAutorizada")
  /\ LET p == pedido[r]
         l == conversa[p.conversa]
     IN IF l.status = "EM_ANDAMENTO" /\ PodeAgir(p.quem, p.conversa) /\ FluxoSaida
        THEN /\ Grava(p.conversa, [Encerra(l, "FINALIZADO") EXCEPT !.pos = TRUE])
             /\ execucao' = [execucao EXCEPT ![p.conversa] = ComSaidaIniciada(@)]
        ELSE TabelasIguais
  /\ Responde(r)

\* The WHERE of transferir; (mutant) whoever the owner is by now.
DeQuemQuerQueSeja(l, p) == l.status = "EM_ANDAMENTO"
AindaDoDono(l, p) == l.status = "EM_ANDAMENTO" /\ l.dono = p.dono

\* (mutant) the bot's queue taken for the human one
StatusNoBot(dono) == IF dono = Ninguem THEN "EM_FILA" ELSE "EM_ANDAMENTO"
StatusDe(dono) == IF dono = Ninguem THEN "AGUARDANDO" ELSE "EM_ANDAMENTO"

Transferir(r) ==
  /\ Executa(r, "transferir")
  /\ LET p == pedido[r]
         l == conversa[p.conversa]
     IN IF AindaDoDono(l, p)
        THEN Grava(p.conversa,
               [l EXCEPT !.dono = p.destino, !.setor = p.setor, !.pausada = FALSE,
                         !.esperando = (p.destino = Ninguem), !.status = StatusDe(p.destino)])
        ELSE conversa' = conversa
  /\ execucao' = execucao
  /\ Responde(r)

\* finalizarNaoAssumido, shared by finalizarSemAtendimento and finalizarPorChatbot;
\* (mutants) is_waiting is forgotten, and any chat that is not over is closed.
EncerraEsperando(l, status) == [l EXCEPT !.status = status]
EncerraNaoAssumido(l, status) == [l EXCEPT !.status = status, !.esperando = FALSE]

NaoTerminou(l) == l.status \notin Finais
NinguemAssumiu(l) == l.status \in NaoAssumidos

FinalizarSemAtendimento(r) ==
  /\ Executa(r, "descartar")
  /\ LET p == pedido[r]
         l == conversa[p.conversa]
     IN IF NinguemAssumiu(l)
        THEN /\ Grava(p.conversa, EncerraNaoAssumido(l, "FINALIZADO_SEM_RESPOSTA"))
             /\ execucao' = [execucao EXCEPT ![p.conversa] = Abortadas(@)]
        ELSE TabelasIguais
  /\ Responde(r)

\* abre and assumir in one transaction.  Only the INSERT takes a protocol, so
\* one opened meanwhile by somebody else does not stop it.
CriarNova(r) ==
  /\ Executa(r, "criar")
  /\ \E c \in Conversas :
       /\ conversa[c].status = "NAO_ABERTA"
       /\ Grava(c, Assume(LinhaNova(pedido[r].setor), pedido[r].quem))
  /\ execucao' = execucao
  /\ Responde(r)

--------------------------------------------------------------------------------
(* The webhook worker *)

\* onMessageCreate up to a search that found no open chat.  A message for an
\* open chat leaves the columns modelled here alone.
ReceberMensagem ==
  /\ webhook = Livre
  /\ \A c \in Conversas : ~Aberta(c)
  /\ \E c \in Conversas : conversa[c].status = "NAO_ABERTA"
  /\ webhook' = [modulo |-> "modulo" \in ligadas, decidida |-> FALSE, comFluxo |-> FALSE]
  /\ TabelasIguais /\ UNCHANGED <<ligadas, pedido, bot, cron>>

\* decideAcaoDoChatbot: a customer's first message goes to the entry flow; a
\* message typed on the phone, or no flow, waits for an attendant.
DecidirAcaoDoChatbot ==
  /\ webhook # Livre /\ ~webhook.decidida
  /\ \E doCliente \in BOOLEAN :
       webhook' = [webhook EXCEPT !.decidida = TRUE,
                     !.comFluxo = /\ doCliente /\ webhook.modulo /\ FluxoEntrada
                                  /\ {"canal", "contato"} \subseteq ligadas]
  /\ TabelasIguais /\ UNCHANGED <<ligadas, pedido, bot, cron>>

\* The commit: abre's row, and with a flow iniciar's execution and atualizaStatus.
AbrirConversa ==
  /\ webhook # Livre /\ webhook.decidida
  /\ \E c \in Conversas :
       /\ conversa[c].status = "NAO_ABERTA"
       /\ Grava(c, [LinhaNova(SetorPadrao) EXCEPT
                      !.status = IF webhook.comFluxo THEN "EM_FILA" ELSE "AGUARDANDO"])
       /\ execucao' = [execucao EXCEPT ![c]["entrada"] =
                          IF webhook.comFluxo THEN "running" ELSE @]
  /\ webhook' = Livre
  /\ UNCHANGED <<ligadas, pedido, bot, cron>>

--------------------------------------------------------------------------------
(* The chatbot worker (one job at a time) *)

\* The chat is the bot's; (mutant) nobody's.
SemDono(l) == l.dono = Ninguem
ComOBot(l) == l.status = "EM_FILA" /\ l.dono = Ninguem

\* bloquearParaExecucaoBot, under the row lock the attendants' UPDATEs take too.
PermitidoAoBot(c, f) ==
  /\ AutomacaoLigada
  /\ IF f = "saida"
     THEN conversa[c].status \in Encerraveis /\ conversa[c].pos
     ELSE ComOBot(conversa[c])

Tarefa(c, f, etapa) ==
  [conversa |-> c, fase |-> f, etapa |-> etapa, saida |-> FALSE,
   setor |-> SetorPadrao, destino |-> Ninguem]

Termina(c, f, estado, resta) ==
  /\ execucao' = [execucao EXCEPT ![c][f] = estado]
  /\ bot' = resta

\* What runLoop may come to, and what is left to do after the commit: nothing when it
\* waits for the customer; otherwise the protocol is freed in the end.
RunLoop(c, f) ==
  \/ Termina(c, f, "suspended", Livre)
  \/ \E estado \in {"completed", "failed"} : Termina(c, f, estado, Tarefa(c, f, "liberar"))
  \/ /\ f = "entrada"
     /\ \E saida \in BOOLEAN :
          Termina(c, f, "completed", [Tarefa(c, f, "encerrar") EXCEPT !.saida = saida])
  \/ /\ f = "entrada"
     /\ \E setor \in Setores, destino \in Donos :
          Termina(c, f, "completed",
                  [Tarefa(c, f, "encaminhar") EXCEPT !.setor = setor, !.destino = destino])

\* ExecutionEngine.step, its transaction.  An entry flow may pass set_department
\* nodes on the way.
PassoDoBot(c, f) ==
  /\ bot = Livre /\ execucao[c][f] \in Vivas
  /\ IF PermitidoAoBot(c, f)
     THEN /\ RunLoop(c, f)
          /\ IF f = "entrada"
             THEN \E setor \in Setores : Grava(c, [conversa[c] EXCEPT !.setor = setor])
             ELSE conversa' = conversa
     ELSE /\ execucao' = [execucao EXCEPT ![c] = Abortadas(@)]
          /\ bot' = Tarefa(c, f, "devolver")
          /\ conversa' = conversa
  /\ UNCHANGED <<ligadas, pedido, webhook, cron>>

NaEtapa(etapa) == bot # Livre /\ bot.etapa = etapa

Segue(etapa) == bot' = [bot EXCEPT !.etapa = etapa] /\ SoOBot

\* encaminharPorChatbot: the destination may have become invalid meanwhile, which
\* throws, and then only the finally block runs.
EncaminharPorChatbot ==
  /\ NaEtapa("encaminhar")
  /\ LET l == conversa[bot.conversa]
     IN \/ /\ AutomacaoLigada /\ ComOBot(l)
           /\ Grava(bot.conversa,
                [l EXCEPT !.setor = bot.setor, !.dono = bot.destino, !.status = StatusDe(bot.destino),
                          !.esperando = (bot.destino = Ninguem),
                          !.respondida = @ \/ bot.destino # Ninguem])
           /\ execucao' = [execucao EXCEPT ![bot.conversa] = Abortadas(@)]
        \/ TabelasIguais
  /\ Segue("liberar")

\* encerrarPorChatbot up to its choice of how to close.
LeEncerrarPorChatbot ==
  /\ NaEtapa("encerrar")
  /\ LET l == conversa[bot.conversa]
     IN Segue(IF ~ComOBot(l) \/ "contato" \notin ligadas
              THEN "liberar"
              ELSE IF bot.saida THEN "encerrarComSaida" ELSE "despedir")
  /\ TabelasIguais

EncerrarComFluxoSaidaPorChatbot ==
  /\ NaEtapa("encerrarComSaida")
  /\ LET l == conversa[bot.conversa]
         conduz == ComOBot(l)
     IN CASE "contato" \notin ligadas -> TabelasIguais /\ Segue("liberar")
          [] "contato" \in ligadas /\ "modulo" \notin ligadas ->
               TabelasIguais /\ Segue("despedir")
          [] {"contato", "modulo"} \subseteq ligadas /\ ~conduz ->
               TabelasIguais /\ Segue("liberar")
          [] {"contato", "modulo"} \subseteq ligadas /\ conduz /\ ~TemFluxoSaida ->
               TabelasIguais /\ Segue("despedir")
          [] OTHER ->
               /\ Grava(bot.conversa,
                    [EncerraNaoAssumido(l, "FINALIZADO_PELO_CHATBOT") EXCEPT !.pos = TRUE])
               /\ execucao' = [execucao EXCEPT ![bot.conversa] = ComSaidaIniciada(@)]
               /\ Segue("liberar")

\* After the farewell message.
FinalizarPorChatbot ==
  /\ NaEtapa("despedir")
  /\ LET l == conversa[bot.conversa]
     IN IF NinguemAssumiu(l)
        THEN Grava(bot.conversa, EncerraNaoAssumido(l, "FINALIZADO_PELO_CHATBOT"))
        ELSE conversa' = conversa
  /\ execucao' = execucao
  /\ Segue("liberar")

\* devolverBotParaEspera
DevolveParaEspera(c) ==
  LET l == conversa[c]
  IN IF ComOBot(l)
     THEN Grava(c, [l EXCEPT !.status = "AGUARDANDO"])
     ELSE conversa' = conversa

\* concluirPosAtendimento
ConcluiPos(c) ==
  LET l == conversa[c]
  IN IF l.pos /\ l.status \in Encerraveis
     THEN Grava(c, [l EXCEPT !.pos = FALSE])
     ELSE conversa' = conversa

\* The finally block of step.
LiberarProtocolo ==
  /\ NaEtapa("liberar")
  /\ IF bot.fase = "saida" THEN ConcluiPos(bot.conversa) ELSE DevolveParaEspera(bot.conversa)
  /\ execucao' = execucao
  /\ bot' = Livre /\ SoOBot

\* A step that found itself forbidden to go on: two statements, one after the other.
DevolverInterrompida ==
  /\ NaEtapa("devolver")
  /\ DevolveParaEspera(bot.conversa)
  /\ execucao' = execucao
  /\ Segue("concluir")

ConcluirInterrompida ==
  /\ NaEtapa("concluir")
  /\ ConcluiPos(bot.conversa)
  /\ execucao' = execucao
  /\ bot' = Livre /\ SoOBot

\* recuperandoJob: a retried job of an exit flow that had ended only frees the protocol.
RetomarReserva(c) ==
  /\ bot = Livre /\ execucao[c]["saida"] \in {"completed", "failed", "aborted"}
  /\ bot' = Tarefa(c, "saida", "liberar")
  /\ TabelasIguais /\ SoOBot

--------------------------------------------------------------------------------
(* The inactivity cron *)

\* buscarInativosPorCanal, findParaEstado and the contact's policy; the closing
\* message may be sent before the transaction.  Cron runs may overlap.
LeInativa(c) ==
  /\ conversa[c].status = "EM_ANDAMENTO" /\ conversa[c].respondida /\ ~conversa[c].pausada
  /\ "contato" \in ligadas
  /\ c \notin cron /\ cron' = cron \cup {c}
  /\ TabelasIguais /\ UNCHANGED <<ligadas, pedido, webhook, bot>>

\* The WHERE of finalizarPorInatividade; (mutant) any chat somebody answered.
JaRespondida(l) == l.respondida
EmAndamento(l) == l.status = "EM_ANDAMENTO"

FinalizarPorInatividade(c) ==
  /\ c \in cron /\ cron' = cron \ {c}
  /\ IF EmAndamento(conversa[c])
     THEN Grava(c, EncerraNaoAssumido(conversa[c], "FINALIZADO_POR_INATIVIDADE"))
     ELSE conversa' = conversa
  /\ UNCHANGED <<execucao, ligadas, pedido, webhook, bot>>

--------------------------------------------------------------------------------
(* Administration, and a crash *)

\* AttendanceSettingsService.atualizar, ChatbotsDoCanalService.desabilitar and
\* interromperAutomacoesContato write the same thing.  A transaction that has read
\* the module's switch FOR SHARE keeps it until its commit.
PodeMudar(k) ==
  k = "modulo" => webhook = Livre /\ \A r \in Requisicoes : ~Executa(r, "saidaAutorizada")

Desligar(k) ==
  /\ k \in ligadas /\ PodeMudar(k)
  /\ ligadas' = ligadas \ {k}
  /\ conversa' = [c \in Conversas |->
       [conversa[c] EXCEPT !.pos = FALSE,
          !.status = IF @ = "EM_FILA" /\ conversa[c].dono = Ninguem THEN "AGUARDANDO" ELSE @]]
  /\ execucao' = [c \in Conversas |-> Abortadas(execucao[c])]
  /\ UNCHANGED <<pedido, webhook, bot, cron>>

Ligar(k) ==
  /\ k \notin ligadas /\ PodeMudar(k)
  /\ ligadas' = ligadas \cup {k}
  /\ TabelasIguais /\ UNCHANGED <<pedido, webhook, bot, cron>>

\* The process restarts: everything that lived in its memory is lost, an open
\* transaction is rolled back.
Queda ==
  /\ pedido' = [r \in Requisicoes |-> Livre]
  /\ webhook' = Livre /\ bot' = Livre /\ cron' = {}
  /\ TabelasIguais /\ ligadas' = ligadas

--------------------------------------------------------------------------------
Leitura ==
  \E r \in Requisicoes, u \in Atendentes :
    \/ LeCriar(r, u)
    \/ \E c \in Conversas :
         \/ ValidarAcesso(r, u, c) \/ LePausar(r, u, c) \/ LeRetomar(r, u, c)
         \/ LeFinalizar(r, u, c) \/ LeTransferir(r, u, c)

Releitura == \E r \in Requisicoes : LeIniciar(r) \/ LeDescartar(r)

Gravacao ==
  \E r \in Requisicoes :
    \/ Assumir(r) \/ Pausar(r) \/ Retomar(r) \/ Finalizar(r) \/ AutorizarSaida(r)
    \/ FinalizarComFluxoSaida(r) \/ Transferir(r) \/ FinalizarSemAtendimento(r) \/ CriarNova(r)

AposOCommit ==
  \/ EncaminharPorChatbot \/ LeEncerrarPorChatbot \/ EncerrarComFluxoSaidaPorChatbot
  \/ FinalizarPorChatbot \/ LiberarProtocolo \/ DevolverInterrompida \/ ConcluirInterrompida

Next ==
  \/ Leitura \/ Releitura \/ Gravacao
  \/ ReceberMensagem \/ DecidirAcaoDoChatbot \/ AbrirConversa
  \/ \E c \in Conversas : \E f \in Fases : PassoDoBot(c, f)
  \/ AposOCommit
  \/ \E c \in Conversas : RetomarReserva(c) \/ LeInativa(c) \/ FinalizarPorInatividade(c)
  \/ \E k \in Chaves : Desligar(k) \/ Ligar(k)
  \/ Queda

Spec == Init /\ [][Next]_vars

--------------------------------------------------------------------------------
(* Safety *)

\* Whoever interleaves, a chat nobody has taken (waiting or with the bot) has no
\* owner and is marked as waiting; a chat in attendance has an owner and has been
\* answered, which is what the inactivity scan and the reports rely on.  Six
\* different UPDATEs write these columns, each setting only some of them.
DonoConformeStatus ==
  \A c \in Conversas :
    LET l == conversa[c]
    IN /\ l.status \in NaoAssumidos => l.dono = Ninguem /\ l.esperando
       /\ l.status = "EM_ANDAMENTO" => l.dono # Ninguem /\ l.respondida /\ ~l.esperando
       /\ l.status \in Finais => ~l.esperando

\* The protocol is held for an exit flow (pos_atendimento_ativo) only while the chat
\* is finished in one of the two ways that have one: the CHECK constraint of the
\* table, which an UPDATE of status or of pos alone could violate.
ReservaSoEmEncerrada ==
  \A c \in Conversas : conversa[c].pos => conversa[c].status \in Encerraveis

\* The bot never runs over a human: a live entry execution belongs to a chat that is
\* still with the bot, a live exit execution to one that has been closed.  Taking,
\* discarding and switching off must abort what is running in the same transaction.
SemBotNoAtendimento ==
  \A c \in Conversas :
    /\ execucao[c]["entrada"] \in Vivas => conversa[c].status = "EM_FILA"
    /\ execucao[c]["saida"] \in Vivas => conversa[c].status \in Encerraveis

\* A finished protocol is finished for good: no late request, worker effect, cron
\* decision or administrator's switch changes how it ended or whose it was.
FinalEhPermanente ==
  [][\A c \in Conversas :
       conversa[c].status \in Finais =>
         /\ conversa'[c].status = conversa[c].status
         /\ conversa'[c].dono = conversa[c].dono
         /\ conversa'[c].setor = conversa[c].setor]_vars

\* The human prevails: what the chatbot worker still had to do after its commit
\* leaves a chat that was taken in the meantime exactly as it is.
HumanoPrevalece ==
  [][\A c \in Conversas :
       bot' # bot /\ conversa[c].status = "EM_ANDAMENTO" => conversa'[c] = conversa[c]]_vars

\* Nobody loses an attendance without handing it over: an owner is replaced only by
\* a transfer whose request had read that same owner, never by a second "iniciar",
\* a late hand-off of the bot or a transfer decided before another one.
EntregaSoPorTransferencia ==
  [][\A c \in Conversas :
       conversa[c].dono # Ninguem /\ conversa'[c].dono # conversa[c].dono =>
         \E r \in Requisicoes :
           /\ Executa(r, "transferir") /\ pedido'[r] = Livre
           /\ pedido[r].conversa = c /\ pedido[r].dono = conversa[c].dono
           /\ pedido[r].quem \in Masters \cup {conversa[c].dono}]_vars

\* An attendant takes a chat only in a department he is cleared for.  His clearance was
\* checked by the guard, two readings before the UPDATE; between the guard's and the
\* handler's the chat may have gone to another department, or he may have given it up,
\* and then, only then, he takes it where the handler read it and nobody asks again.
AssumeNoSetorConferido ==
  [][\A r \in Requisicoes :
       Executa(r, "iniciar") /\ pedido'[r] = Livre =>
         LET p == pedido[r]
         IN conversa'[p.conversa] # conversa[p.conversa] =>
              /\ conversa'[p.conversa].dono = p.quem
              /\ \/ AlcancaSetor(p.quem, conversa'[p.conversa].setor)
                 \/ /\ conversa'[p.conversa].setor = p.setor
                    /\ p.setor # p.visto \/ p.dono = p.quem]_vars

\* A protocol that was never opened has no owner.
SemDonoAntesDeAbrir ==
  \A c \in Conversas : conversa[c].status = "NAO_ABERTA" => conversa[c].dono = Ninguem

\* An exit flow is only ever started for a chat that is finished for good.
SaidaSoDeEncerrada ==
  \A c \in Conversas :
    execucao[c]["saida"] # "inexistente" => conversa[c].status \in Encerraveis

\* What the worker still has to do concerns an opened chat whose entry flow is over,
\* so that closing it or giving it back leaves no execution running behind.
TarefaSemEntradaViva ==
  bot # Livre => /\ conversa[bot.conversa].status # "NAO_ABERTA"
                 /\ execucao[bot.conversa]["entrada"] \notin Vivas

\* Every database constraint and cross-table agreement above, together with what
\* makes them inductive: no step of any actor leaves the set of consistent states.
BancoConsistente ==
  /\ TypeOK
  /\ DonoConformeStatus
  /\ ReservaSoEmEncerrada
  /\ SemBotNoAtendimento
  /\ SemDonoAntesDeAbrir
  /\ SaidaSoDeEncerrada
  /\ TarefaSemEntradaViva

--------------------------------------------------------------------------------
(* What comments and messages of the code say, and the code does not ensure.  *)
(* It is given to TLC alone, to exhibit the interleaving that refutes it.      *)

\* criarNova and onMessageCreate: a contact that already has an open chat on the
\* channel keeps it, no second one is opened.
UmaAbertaPorContato ==
  \A c, d \in Conversas : Aberta(c) /\ Aberta(d) => c = d

--------------------------------------------------------------------------------
(* The life cycle this module implements *)

EstadoDaConversa ==
  [c \in Conversas |->
     CASE conversa[c].status = "NAO_ABERTA" -> "inexistente"
       [] conversa[c].status = "AGUARDANDO" -> "naFila"
       [] conversa[c].status = "EM_FILA" -> "comBot"
       [] conversa[c].status = "EM_ANDAMENTO" -> "emAtendimento"
       [] conversa[c].status \in Finais /\ conversa[c].pos -> "reservada"
       [] OTHER -> "encerrada"]

DonoDaConversa == [c \in Conversas |-> conversa[c].dono]

DesfechoDaConversa ==
  [c \in Conversas |-> IF conversa[c].status \in Finais THEN conversa[c].status ELSE "nenhum"]

Ciclo == INSTANCE CicloDeVida
  WITH estado <- EstadoDaConversa, dono <- DonoDaConversa, desfecho <- DesfechoDaConversa

\* Every interleaving of attendants, webhook, worker, cron and switches is a run of
\* the life cycle: no chat returns to the bot once it has left it, none ends in a
\* way its phase does not allow, and no protocol is reserved again after being freed.
SegueOCicloDeVida == Ciclo!Spec

--------------------------------------------------------------------------------
(* The contract between the worker and everybody else, which MotorChatbot keeps too *)

FasesDetidas ==
  [c \in Conversas |-> (IF ComOBot(conversa[c]) THEN {"entrada"} ELSE {})
                        \cup (IF conversa[c].pos THEN {"saida"} ELSE {})]

DevidaPeloBot ==
  [c \in Conversas |-> IF bot = Livre \/ bot.conversa # c THEN "nada"
                       ELSE IF bot.etapa \in {"devolver", "concluir"} THEN "ambas" ELSE bot.fase]

Contrato == INSTANCE Conducao
  WITH estado <- execucao, detida <- FasesDetidas, devida <- DevidaPeloBot

\* Whoever interleaves, an execution is created once and with its chat in the bot's hands,
\* who takes the chat ends the execution in the same transaction, and the bot gets back
\* no chat that left it.
SegueAConducao == Contrato!Spec

================================================================================
