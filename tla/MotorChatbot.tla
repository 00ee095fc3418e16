------------------------------ MODULE MotorChatbot -----------------------------
(****************************************************************************)
(* One chatbot execution: its row in chatbot_flow_executions, the BullMQ     *)
(* queue that drives it, the worker that runs its steps, the webhook that    *)
(* stores the customer's replies, and the cron that puts back into the      *)
(* queue what a failure has lost.  The chat is reduced to whether the bot    *)
(* still holds it (EM_FILA with no owner, or pos_atendimento_ativo), and the *)
(* switches of its channel and contact to whether they allow the bot.        *)
(*                                                                           *)
(* Both webhook and worker lock the chat's row in their transactions, but    *)
(* renovarPrazoAposEnvio writes the execution outside of that lock.          *)
(****************************************************************************)
EXTENDS Naturals, FiniteSets

CONSTANTS
  Fase,        \* the execution's phase
  MaxEsperas,  \* questions the flow may ask (bound)
  MaxFalhas,   \* failures of the database, of WhatsApp or of enqueueing (bound)
  MaxQuedas,   \* process crashes (bound)
  MaxPerdas,   \* losses of the queue's contents (bound)
  Nada         \* idle, absent

ASSUME ConstantesDoMotor ==
  /\ Fase \in {"entrada", "saida"}
  /\ {MaxEsperas, MaxFalhas, MaxQuedas, MaxPerdas} \subseteq Nat

VARIABLES
  execucao,      \* the row of chatbot_flow_executions
  detida,        \* the bot holds the chat
  ligada,        \* the channel's and the contact's switches allow the bot
  fila,          \* jobs in Redis, the active one included
  aEnfileirar,   \* jobs a committed transaction has yet to enqueue
  trabalho,      \* the job being processed
  webhook,       \* the reply's transaction, after it read the execution
  cron,          \* jobs the recovery cron found pending and has yet to enqueue
  problemas,     \* how many failures, crashes and losses there were
  caminho,       \* history: what made the flow leave each question
  respostas,     \* history: what became of the customer's message to each question
  enviadas       \* history: messages sent, by question (0: the final message)

historia == <<caminho, respostas, enviadas>>
vars == <<execucao, detida, ligada, fila, aEnfileirar, trabalho, webhook, cron, problemas, historia>>

--------------------------------------------------------------------------------
Esperas == 1 .. MaxEsperas

\* jobId: one start per execution, one resume and one timeout per question.
Jobs == [tipo : {"start"}, token : {0}] \cup [tipo : {"resume", "timeout"}, token : Esperas]
Inicio == [tipo |-> "start", token |-> 0]

Vivas == {"running", "suspended"}
Terminais == {"completed", "failed", "aborted"}

\* status; token of waiting_for; waiting_for.reply present; timeout_at; version.
Execucao == [status : Vivas \cup Terminais, espera : 0 .. MaxEsperas, resposta : BOOLEAN,
             prazo : {"sem", "correndo", "vencido"}, versao : Nat]

Tentativas == 3  \* attempts of a job
Paradas == 1     \* BullMQ's maxStalledCount, left at its default
NaFila == [tentativas : 0 .. Tentativas - 1, paradas : 0 .. Paradas]

Etapas == {"passo", "enviar", "mandar", "depois", "finalmente", "devolver"}
Acoes == {"nada", "renovar", "encaminhar", "encerrar"}

\* mensagem: there is something to send; terminal: the status step has in memory.
Trabalho == [job : Jobs, etapa : Etapas, acao : Acoes, espera : 0 .. MaxEsperas,
             mensagem : BOOLEAN, terminal : BOOLEAN, falhou : BOOLEAN]

\* No job, no transaction.
ASSUME NadaEhNada == Nada \notin Trabalho \cup NaFila \cup Nat

TypeOK ==
  /\ execucao \in Execucao
  /\ detida \in BOOLEAN /\ ligada \in BOOLEAN
  /\ fila \in [Jobs -> NaFila \cup {Nada}]
  /\ aEnfileirar \subseteq Jobs
  /\ trabalho \in Trabalho \cup {Nada}
  /\ webhook \in Nat \cup {Nada}
  /\ cron \subseteq Jobs
  /\ problemas \in [falhas : 0 .. MaxFalhas, quedas : 0 .. MaxQuedas, perdas : 0 .. MaxPerdas]
  /\ caminho \in [Esperas -> {"aberta", "start", "resume", "timeout"}]
  /\ respostas \in [Esperas -> {"nenhuma", "perdida", "registrada"}]
  /\ enviadas \in [0 .. MaxEsperas -> Nat]

\* Right after the commit that created the execution.  A switch turned off while that
\* transaction was open did not see the execution, and did not abort it.
Init ==
  /\ execucao = [status |-> "running", espera |-> 0, resposta |-> FALSE, prazo |-> "sem",
                 versao |-> 1]
  /\ detida = TRUE /\ ligada \in BOOLEAN
  /\ fila = [j \in Jobs |-> Nada]
  /\ aEnfileirar = {Inicio}
  /\ trabalho = Nada /\ webhook = Nada /\ cron = {}
  /\ problemas = [falhas |-> 0, quedas |-> 0, perdas |-> 0]
  /\ caminho = [t \in Esperas |-> "aberta"]
  /\ respostas = [t \in Esperas |-> "nenhuma"]
  /\ enviadas = [t \in 0 .. MaxEsperas |-> 0]

Falha == /\ problemas.falhas < MaxFalhas
         /\ problemas' = [problemas EXCEPT !.falhas = @ + 1]

\* What bloquearParaExecucaoBot and dispararEfeitos test.
Permitida == detida /\ ligada

\* Nobody else has the chat's row locked.
ChatLivre == webhook = Nada

--------------------------------------------------------------------------------
(* The queue *)

\* queue.add: a jobId that is still in the queue is not added again.
ComJobs(f, js) ==
  [j \in Jobs |-> IF j \in js /\ f[j] = Nada THEN [tentativas |-> 0, paradas |-> 0] ELSE f[j]]

\* enfileirar, after the commit; Redis may refuse it, and nobody tries again.
Enfileirar(j) ==
  /\ j \in aEnfileirar
  /\ aEnfileirar' = aEnfileirar \ {j}
  /\ \/ fila' = ComJobs(fila, {j}) /\ problemas' = problemas
     \/ fila' = fila /\ Falha
  /\ UNCHANGED <<ligada, execucao, detida, trabalho, webhook, cron, historia>>

\* buscarIniciosPendentes, of the exit flow only; the 30 seconds it leaves to the
\* API's own enqueueing are not modelled, jobId makes an early one harmless;
\* (mutant) no start is looked for.
SemInicios == {}
IniciosPendentes == IF Fase = "saida" /\ execucao.status = "running" THEN {Inicio} ELSE {}

\* buscarRetomadasPendentes, a reply before a deadline; (mutants) only one of them.
SoRespostasPendentes ==
  IF execucao.status = "suspended" /\ execucao.resposta
  THEN {[tipo |-> "resume", token |-> execucao.espera]} ELSE {}
SoPrazosPendentes ==
  IF execucao.status = "suspended" /\ ~execucao.resposta /\ execucao.prazo = "vencido"
  THEN {[tipo |-> "timeout", token |-> execucao.espera]} ELSE {}
RetomadasPendentes == SoRespostasPendentes \cup SoPrazosPendentes

LerPendentes ==
  /\ cron = {} /\ cron' = IniciosPendentes \cup RetomadasPendentes /\ cron' # {}
  /\ UNCHANGED <<ligada, execucao, detida, fila, aEnfileirar, trabalho, webhook, problemas, historia>>

ReenfileirarPendentes ==
  /\ cron # {} /\ cron' = {}
  /\ \/ fila' = ComJobs(fila, cron) /\ problemas' = problemas
     \/ fila' = fila /\ Falha
  /\ UNCHANGED <<ligada, execucao, detida, aEnfileirar, trabalho, webhook, historia>>

--------------------------------------------------------------------------------
(* The worker: concurrency 1 *)

NaEtapa(etapa) == trabalho # Nada /\ trabalho.etapa = etapa

Pegar(j) ==
  /\ trabalho = Nada /\ fila[j] # Nada
  /\ trabalho' = [job |-> j, etapa |-> "passo", acao |-> "nada", espera |-> 0,
                  mensagem |-> FALSE, terminal |-> FALSE, falhou |-> FALSE]
  /\ UNCHANGED <<ligada, execucao, detida, fila, aEnfileirar, webhook, cron, problemas, historia>>

\* What BullMQ does when process returns or throws.
Falhado(x) ==
  IF x = Nada \/ x.tentativas + 1 = Tentativas THEN Nada
  ELSE [x EXCEPT !.tentativas = @ + 1]

Sair(falhou) ==
  /\ trabalho' = Nada
  /\ fila' = [fila EXCEPT ![trabalho.job] = IF falhou THEN Falhado(@) ELSE Nada]

Segue(etapa) == trabalho' = [trabalho EXCEPT !.etapa = etapa] /\ fila' = fila

\* The database or the screen update before the sending failed and step throws at
\* once, its finally block not reached or interrupted.
Lanca(etapa) ==
  /\ NaEtapa(etapa) /\ Falha /\ Sair(TRUE)
  /\ UNCHANGED <<ligada, execucao, detida, aEnfileirar, webhook, cron, historia>>

\* attemptsMade > 0 || stalledCounter > 0
Recuperando ==
  /\ fila[trabalho.job] # Nada
  /\ fila[trabalho.job].tentativas > 0 \/ fila[trabalho.job].paradas > 0

\* step's first check.
Pendente(e) == e.status \in Vivas

\* Whether the job is still what the execution waits for, read again under the
\* chat's lock; (mutant) a reply does not stop the deadline.
SemOlharResposta(j, e) ==
  IF j.tipo = "start" THEN e.status = "running"
  ELSE /\ e.status = "suspended" /\ j.token = e.espera
       /\ j.tipo = "timeout" => e.prazo = "vencido"
Vale(j, e) ==
  IF j.tipo = "start" THEN e.status = "running"
  ELSE /\ e.status = "suspended" /\ j.token = e.espera
       /\ j.tipo = "timeout" => ~e.resposta /\ e.prazo = "vencido"

\* A retry after a crash between the last message and the release of the protocol
\* only releases it; (mutants) it is ignored, it sends the last message again.
SemConclusao == FALSE
ConclusaoPendente == Fase = "saida" /\ Recuperando /\ execucao.status \in Terminais

EnviarDeNovo == [trabalho EXCEPT !.etapa = "enviar", !.mensagem = TRUE, !.terminal = TRUE]
SoConcluir == [trabalho EXCEPT !.etapa = "finalmente", !.terminal = TRUE]

RetomarConclusao ==
  /\ NaEtapa("passo") /\ ConclusaoPendente
  /\ trabalho' = SoConcluir
  /\ UNCHANGED <<ligada, execucao, detida, fila, aEnfileirar, webhook, cron, problemas, historia>>

IgnorarJob ==
  /\ NaEtapa("passo") /\ ~ConclusaoPendente
  /\ \/ ~Pendente(execucao)
     \/ ChatLivre /\ Permitida /\ ~Vale(trabalho.job, execucao)
  /\ Sair(FALSE)
  /\ UNCHANGED <<ligada, execucao, detida, aEnfileirar, webhook, cron, problemas, historia>>

\* abortarDoAtendimento; (mutant) what runs right now is left alone.
SoSuspensaAbortada(e) ==
  IF e.status = "suspended"
  THEN [e EXCEPT !.status = "aborted", !.resposta = FALSE, !.prazo = "sem", !.versao = @ + 1]
  ELSE e
Abortada(e) ==
  IF e.status \in Vivas
  THEN [e EXCEPT !.status = "aborted", !.resposta = FALSE, !.prazo = "sem", !.versao = @ + 1]
  ELSE e

\* bloquearParaExecucaoBot found that the bot may not act on the chat.
AbortarPasso ==
  /\ NaEtapa("passo") /\ ChatLivre /\ Pendente(execucao) /\ ~Permitida
  /\ execucao' = Abortada(execucao)
  /\ Segue("devolver")
  /\ UNCHANGED <<ligada, detida, aEnfileirar, webhook, cron, problemas, historia>>

Devolver ==
  /\ NaEtapa("devolver") /\ ChatLivre
  /\ detida' = FALSE
  /\ Sair(FALSE)
  /\ UNCHANGED <<ligada, execucao, aEnfileirar, webhook, cron, problemas, historia>>

\* What runLoop committed: the next question, with or without a deadline, or the end.
Suspende(e, prazo) ==
  [status |-> "suspended", espera |-> e.espera + 1, resposta |-> FALSE, prazo |-> prazo,
   versao |-> e.versao + 1]
Termina(e, status) ==
  [e EXCEPT !.status = status, !.resposta = FALSE, !.prazo = "sem", !.versao = @ + 1]

AcoesFinais == IF Fase = "entrada" THEN {"nada", "encaminhar", "encerrar"} ELSE {"nada"}

ExecutarPasso ==
  /\ NaEtapa("passo") /\ ChatLivre /\ Permitida
  /\ Pendente(execucao) /\ Vale(trabalho.job, execucao)
  /\ caminho' = IF execucao.status = "suspended"
                THEN [caminho EXCEPT ![execucao.espera] = trabalho.job.tipo] ELSE caminho
  /\ \E comMensagem \in BOOLEAN :
       \/ /\ execucao.espera < MaxEsperas
          /\ \E prazo \in {"sem", "correndo"} :
               /\ execucao' = Suspende(execucao, prazo)
               /\ trabalho' = [trabalho EXCEPT !.etapa = "enviar", !.mensagem = comMensagem,
                                 !.espera = execucao.espera + 1,
                                 !.acao = IF prazo = "sem" THEN "nada" ELSE "renovar"]
       \/ \E acao \in AcoesFinais :
               /\ execucao' = Termina(execucao, "completed")
               /\ trabalho' = [trabalho EXCEPT !.etapa = "enviar", !.mensagem = comMensagem,
                                 !.espera = 0, !.acao = acao, !.terminal = TRUE]
       \/ /\ ~comMensagem
          /\ execucao' = Termina(execucao, "failed")
          /\ trabalho' = [trabalho EXCEPT !.etapa = "enviar", !.espera = 0, !.terminal = TRUE]
  /\ UNCHANGED <<ligada, detida, fila, aEnfileirar, webhook, cron, problemas, respostas, enviadas>>

\* dispararEfeitos, outside the transaction: whether the bot may still act is read
\* first.
PodeMandar == trabalho.mensagem /\ Permitida

Enviar ==
  /\ NaEtapa("enviar")
  /\ Segue(IF PodeMandar THEN "mandar" ELSE "depois")
  /\ UNCHANGED <<ligada, execucao, detida, aEnfileirar, webhook, cron, problemas, historia>>

\* The provider is called with what was read, however long it takes.
Mandada == enviadas' = [enviadas EXCEPT ![trabalho.espera] = @ + 1]

Mandar ==
  /\ NaEtapa("mandar")
  /\ Mandada
  /\ Segue("depois")
  /\ UNCHANGED <<ligada, execucao, detida, aEnfileirar, webhook, cron, problemas, caminho, respostas>>

\* It throws before or after the message went out; a hand-off goes on regardless.
EnvioFalhar ==
  /\ NaEtapa("enviar") \/ NaEtapa("mandar")
  /\ trabalho.mensagem /\ Falha
  /\ \/ enviadas' = enviadas
     \/ NaEtapa("mandar") /\ Mandada
  /\ IF trabalho.acao = "encaminhar"
     THEN trabalho' = [trabalho EXCEPT !.etapa = "depois"]
     ELSE trabalho' = [trabalho EXCEPT !.etapa = "finalmente", !.falhou = TRUE]
  /\ UNCHANGED <<ligada, execucao, detida, fila, aEnfileirar, webhook, cron, caminho, respostas>>

\* renovarPrazoAposEnvio: the only write of an execution that does not lock the chat.
RenovarPrazo ==
  /\ NaEtapa("depois") /\ trabalho.acao = "renovar"
  /\ execucao' = IF execucao.status = "suspended" /\ execucao.espera = trabalho.espera
                      /\ ~execucao.resposta
                 THEN [execucao EXCEPT !.prazo = "correndo", !.versao = @ + 1]
                 ELSE execucao
  /\ Segue("finalmente")
  /\ UNCHANGED <<ligada, detida, aEnfileirar, webhook, cron, problemas, historia>>

\* encaminharPorChatbot and encerrarPorChatbot, which may also decline to act.
EntregarOuEncerrar ==
  /\ NaEtapa("depois") /\ trabalho.acao \in {"encaminhar", "encerrar"} /\ ChatLivre
  /\ detida' \in {detida, FALSE}
  /\ Segue("finalmente")
  /\ UNCHANGED <<ligada, execucao, aEnfileirar, webhook, cron, problemas, historia>>

NadaDepois ==
  /\ NaEtapa("depois") /\ trabalho.acao = "nada"
  /\ Segue("finalmente")
  /\ UNCHANGED <<ligada, execucao, detida, aEnfileirar, webhook, cron, problemas, historia>>

DepoisFalhar ==
  /\ NaEtapa("depois") /\ trabalho.acao # "nada" /\ Falha
  /\ trabalho' = [trabalho EXCEPT !.etapa = "finalmente", !.falhou = TRUE]
  /\ UNCHANGED <<ligada, execucao, detida, fila, aEnfileirar, webhook, cron, historia>>

\* The finally block: concluirPosAtendimento or devolverBotParaEspera.
Finalmente ==
  /\ NaEtapa("finalmente") /\ (trabalho.terminal => ChatLivre)
  /\ detida' = (detida /\ ~trabalho.terminal)
  /\ Sair(trabalho.falhou)
  /\ UNCHANGED <<ligada, execucao, aEnfileirar, webhook, cron, problemas, historia>>

--------------------------------------------------------------------------------
(* The customer, time, humans and failures *)

\* onMessageCreate, once findSuspendedAwaitingReply has read the execution.
LerExecucao ==
  /\ webhook = Nada /\ Permitida
  /\ execucao.status = "suspended" /\ ~execucao.resposta
  /\ webhook' = execucao.versao
  /\ UNCHANGED <<ligada, execucao, detida, fila, aEnfileirar, trabalho, cron, problemas, historia>>

\* registrarResposta and the commit; the message is stored either way.
RegistrarResposta ==
  /\ webhook # Nada /\ webhook' = Nada
  /\ IF execucao.versao = webhook
     THEN /\ execucao' = [execucao EXCEPT !.resposta = TRUE, !.versao = @ + 1]
          /\ respostas' = [respostas EXCEPT ![execucao.espera] = "registrada"]
          /\ aEnfileirar' = aEnfileirar \cup {[tipo |-> "resume", token |-> execucao.espera]}
     ELSE /\ respostas' = [respostas EXCEPT ![execucao.espera] = "perdida"]
          /\ UNCHANGED <<ligada, execucao, aEnfileirar>>
  /\ UNCHANGED <<ligada, detida, fila, trabalho, cron, problemas, caminho, enviadas>>

VencerPrazo ==
  /\ execucao.status = "suspended" /\ execucao.prazo = "correndo"
  /\ execucao' = [execucao EXCEPT !.prazo = "vencido"]
  /\ UNCHANGED <<ligada, detida, fila, aEnfileirar, trabalho, webhook, cron, problemas, historia>>

\* An attendant takes or discards the chat, or a switch is turned off: one
\* transaction that takes the chat from the bot and aborts what runs.
Interromper ==
  /\ detida /\ ChatLivre
  /\ detida' = FALSE
  /\ execucao' = Abortada(execucao)
  /\ UNCHANGED <<ligada, fila, aEnfileirar, trabalho, webhook, cron, problemas, historia>>

\* A switch is turned on again.  (Turning one off is Interromper: with the execution
\* aborted, nothing reads the switch any more.)
Religar ==
  /\ ~ligada /\ ligada' = TRUE
  /\ UNCHANGED <<execucao, detida, fila, aEnfileirar, trabalho, webhook, cron, problemas, historia>>

\* The process restarts.  BullMQ finds the active job stalled and runs it again,
\* unless it has stalled before.
Parado(x) ==
  IF x = Nada \/ x.paradas = Paradas THEN Nada ELSE [x EXCEPT !.paradas = @ + 1]

Queda ==
  /\ problemas.quedas < MaxQuedas
  /\ problemas' = [problemas EXCEPT !.quedas = @ + 1]
  /\ fila' = IF trabalho = Nada THEN fila ELSE [fila EXCEPT ![trabalho.job] = Parado(@)]
  /\ trabalho' = Nada /\ aEnfileirar' = {} /\ webhook' = Nada /\ cron' = {}
  /\ UNCHANGED <<ligada, execucao, detida, historia>>

\* Redis comes back empty.
PerderFila ==
  /\ problemas.perdas < MaxPerdas
  /\ problemas' = [problemas EXCEPT !.perdas = @ + 1]
  /\ fila' = [j \in Jobs |-> Nada]
  /\ UNCHANGED <<ligada, execucao, detida, aEnfileirar, trabalho, webhook, cron, historia>>

--------------------------------------------------------------------------------
Passo == RetomarConclusao \/ IgnorarJob \/ AbortarPasso \/ ExecutarPasso

AposOCommit ==
  \/ Devolver \/ Enviar \/ Mandar \/ EnvioFalhar \/ RenovarPrazo \/ EntregarOuEncerrar \/ NadaDepois
  \/ DepoisFalhar \/ Finalmente

LancaErro == \E etapa \in {"passo", "enviar", "devolver", "finalmente"} : Lanca(etapa)

Worker == (\E j \in Jobs : Pegar(j)) \/ Passo \/ AposOCommit

Next ==
  \/ \E j \in Jobs : Enfileirar(j)
  \/ LerPendentes \/ ReenfileirarPendentes
  \/ Worker \/ LancaErro
  \/ LerExecucao \/ RegistrarResposta
  \/ VencerPrazo \/ Interromper \/ Religar \/ Queda \/ PerderFila

\* The event loop serves the queue, the cron and the transactions under way, and time
\* passes.  Nobody owes a reply, a take-over, a failure or a crash.
Justica ==
  /\ WF_vars(\E j \in Jobs : Enfileirar(j))
  /\ WF_vars(LerPendentes) /\ WF_vars(ReenfileirarPendentes)
  /\ WF_vars(Worker)
  /\ WF_vars(RegistrarResposta)
  /\ WF_vars(VencerPrazo)

Spec == Init /\ [][Next]_vars /\ Justica

--------------------------------------------------------------------------------
(* Safety *)

\* The flow leaves a question for one reason, the one that holds: the reply branch
\* only with a registered reply, the no-reply branch only with none registered,
\* and never because a start job came twice.  Jobs are
\* duplicated, delayed, retried and re-enqueued by a cron that reads stale rows.
SaiDaEsperaComMotivo ==
  \A t \in Esperas :
    /\ caminho[t] # "start"
    /\ caminho[t] = "resume" => respostas[t] = "registrada"
    /\ caminho[t] = "timeout" => respostas[t] # "registrada"

\* No customer gets the same message twice, whatever is retried or duplicated: the
\* commit comes before the sending, a retry does not go back over it.
NaoRepeteEnvio == \A t \in 0 .. MaxEsperas : enviadas[t] <= 1

\* An execution that has ended stays as it ended; a late job, reply or renewal of
\* the deadline does not revive it.
TerminalEhPermanente ==
  [][execucao.status \in Terminais => execucao'.status = execucao.status]_vars

--------------------------------------------------------------------------------
(* Liveness *)

\* A registered reply takes the flow onward (or the chat is taken from the bot),
\* even if the process crashes before enqueueing, the job fails for good or Redis
\* loses its contents.
RespostaRetomada ==
  \A t \in Esperas :
    (execucao.status = "suspended" /\ execucao.espera = t /\ execucao.resposta)
      ~> ~(execucao.status = "suspended" /\ execucao.espera = t)

\* A question with a deadline is not waited for forever.
PrazoRetomado ==
  \A t \in Esperas :
    (execucao.status = "suspended" /\ execucao.espera = t /\ execucao.prazo # "sem")
      ~> ~(execucao.status = "suspended" /\ execucao.espera = t)

\* The bot lets go of the chat once its execution has ended.
ChatLiberado == execucao.status \in Terminais ~> ~detida

\* A committed execution is started, even if enqueueing it after the commit failed.
InicioRecuperado == execucao.status = "running" ~> execucao.status # "running"

\* registrarResposta: a deadline cannot overtake a reply that had arrived.
PrazoNaoUltrapassaResposta == 
  \A t \in Esperas : caminho[t] = "timeout" => respostas[t] = "nenhuma"

--------------------------------------------------------------------------------
(* The dialogue this module implements *)

SituacaoDaExecucao == IF execucao.status \in Vivas THEN "emCurso" ELSE execucao.status

MensagemSaindo == IF NaEtapa("mandar") THEN {trabalho.espera} ELSE {}

Conversa == INSTANCE Dialogo
  WITH situacao <- SituacaoDaExecucao, pergunta <- execucao.espera,
       respondida <- execucao.resposta, ramo <- caminho, saindo <- MensagemSaindo

\* Jobs, retries, crashes, losses and the cron are invisible to the customer: every
\* behaviour of the execution is one of the dialogue, in which a question is left once and
\* for its reason, a message goes out once and about the question that is open, what has
\* ended is not revived, and once the chat was taken from the bot nothing is said but the
\* message that was on its way.
SegueODialogo == Conversa!Spec

--------------------------------------------------------------------------------
(* The contract it keeps with who else writes the chat *)

\* The execution of the other phase is not seen from here.
Devida ==
  IF NaEtapa("devolver") THEN "ambas"
  ELSE IF trabalho # Nada /\ trabalho.terminal THEN Fase ELSE "nada"

Contrato == INSTANCE Conducao
  WITH Conversas <- {Fase},
       estado <- [c \in {Fase} |-> [f \in {"entrada", "saida"} |->
                    IF f = Fase THEN execucao.status ELSE "inexistente"]],
       detida <- [c \in {Fase} |-> {f \in {"entrada", "saida"} : f = Fase /\ detida}],
       devida <- [c \in {Fase} |-> Devida]

\* Whatever the queue repeats or loses: the execution goes on only while the bot holds the
\* chat, who takes the chat ends it in the same transaction, and the worker lets go of the
\* chat only after the end.  Atendimento, which sees the chats and not the queue, keeps the
\* same contract.
SegueAConducao == Contrato!Spec

================================================================================
