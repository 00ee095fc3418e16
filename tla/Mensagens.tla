------------------------------- MODULE Mensagens -------------------------------
(****************************************************************************)
(* One WhatsApp message and its row in support_chat_messages, written by     *)
(* the request that sends it (registraEnvio), by the webhook worker that     *)
(* gets its echo, acks, reactions, edit and revocation from the provider,    *)
(* and by the attendant who hides it.                                        *)
(*                                                                           *)
(* saveMessage coordinates the first two with a Redis lock per message_id.   *)
(* It reads the existing row outside the caller's transaction, merges, lets  *)
(* TypeORM compare with the row again and UPDATE what differs, and frees the *)
(* lock; the caller commits later.  Each of these is a step of its own.      *)
(****************************************************************************)
EXTENDS Naturals

CONSTANTS
  Autores,        \* who may react
  Relatos,        \* what the provider reports of one of our messages (TRUE) or of the customer's
  FalhasEnvio,    \* failures of the sending request after the provider accepted (bound)
  FalhasWebhook,  \* failures of the webhook worker's transactions (bound)
  Nada            \* no row, no lock, no transaction, column not set

\* What the provider may report; numero is the ack, por says whether a reaction is set
\* or undone.
TodosEventos ==
  [tipo : {"eco", "edicao", "revogacao"}, autor : {Nada}, numero : {0}, por : {FALSE}]
    \cup [tipo : {"ack"}, autor : {Nada}, numero : 1 .. 4, por : {FALSE}]
    \cup [tipo : {"reacao"}, autor : Autores, numero : {0}, por : BOOLEAN]

ASSUME ConstantesDasMensagens ==
  /\ {FalhasEnvio, FalhasWebhook} \subseteq Nat
  /\ Nada \notin Autores
  /\ Relatos \in [BOOLEAN -> SUBSET TodosEventos]

Eventos == Relatos[TRUE] \cup Relatos[FALSE]

VARIABLES
  nossa,        \* sent from the portal, or by the customer
  linha,        \* the committed row
  tx,           \* the uncommitted write that holds the row (or its unique key)
  trava,        \* lock:save-message:<message_id> in Redis
  ocupado,      \* what the sender and the worker are doing
  restam,       \* attempts left of each report's job; 0 when it is over
  vigente,      \* the open chat of the contact is still the one the message was sent in
  falhas        \* failures so far

vars == <<nossa, linha, tx, trava, ocupado, restam, vigente, falhas>>

--------------------------------------------------------------------------------
(* Rows and messages *)

SemReacao == [a \in Autores |-> FALSE]
Conversas == {"propria", "outra"}
Acks == 0 .. 4

\* support_chat_id, datetime, ack, content, reaction, is_edited, is_deleted, hidden_at.
Linha == [conversa : Conversas, posicao : {"envio", "eco"}, ack : Acks,
          conteudo : {"original", "editado", "vazio"}, reacoes : [Autores -> BOOLEAN],
          editada : BOOLEAN, apagada : BOOLEAN, oculta : BOOLEAN]
Colunas == {"conversa", "posicao", "ack", "conteudo", "reacoes", "editada", "apagada", "oculta"}


\* What an INSERT gives to the columns an entity leaves unset.
Padrao == [conversa |-> "outra", posicao |-> "eco", ack |-> 0, conteudo |-> "original",
           reacoes |-> SemReacao, editada |-> FALSE, apagada |-> FALSE, oculta |-> FALSE]

\* An entity sets some columns; TypeORM ignores the others.
Nenhuma == [k \in Colunas |-> Nada]
Aplica(base, entidade) ==
  [k \in Colunas |-> IF entidade[k] = Nada THEN base[k] ELSE entidade[k]]

Processos == {"envio", "webhook"}
Passos == {"parado", "travar", "ler", "comparar", "inserir", "atualizar", "confirmar", "fim"}
Ativos == Passos \ {"parado", "fim"}

ASSUME NadaEhOutraCoisa ==
  Nada \notin Linha \cup TodosEventos \cup Processos \cup [quem : Processos, linha : Linha]

\* entidade: what is to be saved, and after the comparison what differs.
Entidade ==
  [conversa : Conversas \cup {Nada}, posicao : {"envio", "eco", Nada}, ack : Acks \cup {Nada},
   conteudo : {"original", "editado", "vazio", Nada},
   reacoes : [Autores -> BOOLEAN] \cup {Nada}, editada : BOOLEAN \cup {Nada},
   apagada : BOOLEAN \cup {Nada}, oculta : BOOLEAN \cup {Nada}]
Processo == [passo : Passos, evento : Eventos \cup {Nada}, token : BOOLEAN,
             entidade : Entidade \cup {Nada}]
Livre == [passo |-> "parado", evento |-> Nada, token |-> FALSE, entidade |-> Nada]

Tentativas == 3 \* defaultJobOptions of the queues

TypeOK ==
  /\ nossa \in BOOLEAN
  /\ linha \in Linha \cup {Nada}
  /\ tx \in {Nada} \cup [quem : Processos, linha : Linha]
  /\ trava \in Processos \cup {Nada}
  /\ ocupado \in [Processos -> Processo]
  /\ restam \in [Eventos -> 0 .. Tentativas]
  /\ vigente \in BOOLEAN
  /\ falhas \in [envio : 0 .. FalhasEnvio, webhook : 0 .. FalhasWebhook]

Init ==
  /\ nossa \in BOOLEAN
  /\ linha = Nada /\ tx = Nada /\ trava = Nada
  /\ ocupado = [q \in Processos |-> Livre]
  /\ restam = [e \in Eventos |-> IF e \in Relatos[nossa] THEN Tentativas ELSE 0]
  /\ vigente = TRUE
  /\ falhas = [envio |-> 0, webhook |-> 0]

EmPasso(q, passo) == ocupado[q].passo = passo
Vai(q, passo) == ocupado' = [ocupado EXCEPT ![q].passo = passo]
JobFalho(e) == restam' = [restam EXCEPT ![e] = @ - 1]
JobPronto(e) == restam' = [restam EXCEPT ![e] = 0]
Aberta == IF vigente THEN "propria" ELSE "outra"

--------------------------------------------------------------------------------
(* saveMessage, by either process *)

\* The provider accepted the message; saveOutgoing's columns.
Enviada ==
  [Nenhuma EXCEPT !.conversa = "propria", !.posicao = "envio", !.ack = 0,
                  !.conteudo = "original", !.editada = FALSE, !.apagada = FALSE]

Enviar ==
  /\ nossa /\ EmPasso("envio", "parado")
  /\ ocupado' = [ocupado EXCEPT !["envio"] =
                   [Livre EXCEPT !.passo = "travar", !.entidade = Enviada]]
  /\ UNCHANGED <<nossa, linha, tx, trava, restam, vigente, falhas>>

\* adquireLockComRetry: three tries, and then (or with Redis out of reach) no lock;
\* (mutant) the send gives up.
TravarOuDesistir(q) ==
  /\ EmPasso(q, "travar")
  /\ \/ /\ trava = Nada /\ trava' = q
        /\ ocupado' = [ocupado EXCEPT ![q].passo = "ler", ![q].token = TRUE]
     \/ trava' = trava /\ Vai(q, IF q = "envio" THEN "fim" ELSE "ler")
  /\ UNCHANGED <<nossa, linha, tx, restam, vigente, falhas>>
Travar(q) ==
  /\ EmPasso(q, "travar")
  /\ \/ /\ trava = Nada /\ trava' = q
        /\ ocupado' = [ocupado EXCEPT ![q].passo = "ler", ![q].token = TRUE]
     \/ trava' = trava /\ Vai(q, "ler")
  /\ UNCHANGED <<nossa, linha, tx, restam, vigente, falhas>>

\* The merge with the row that was read: the first position stays, only the send chooses
\* the chat, and an empty map of reactions means that there are none to write; (mutants)
\* the echo's own position, the echo's own chat.
NovaPosicao(m, existente, q) ==
  [m EXCEPT !.conversa = IF q = "envio" THEN @ ELSE existente.conversa,
            !.reacoes = IF @ \in {Nada, SemReacao} THEN existente.reacoes ELSE @]
EcoDecide(m, existente, q) ==
  [m EXCEPT !.posicao = existente.posicao,
            !.reacoes = IF @ \in {Nada, SemReacao} THEN existente.reacoes ELSE @]
Mescla(m, existente, q) ==
  [m EXCEPT !.posicao = existente.posicao,
            !.conversa = IF q = "envio" THEN @ ELSE existente.conversa,
            !.reacoes = IF @ \in {Nada, SemReacao} THEN existente.reacoes ELSE @]

\* findOneByMessageId, on another connection: only what is committed.
LerExistente(q) ==
  /\ EmPasso(q, "ler")
  /\ IF linha = Nada
     THEN Vai(q, "inserir")
     ELSE ocupado' = [ocupado EXCEPT ![q].passo = "comparar",
                                     ![q].entidade = Mescla(@, linha, q)]
  /\ UNCHANGED <<nossa, linha, tx, trava, restam, vigente, falhas>>

\* manager.save reads the row again and keeps what differs.
Diferencas(m, base) ==
  [k \in Colunas |-> IF m[k] = Nada \/ m[k] = base[k] THEN Nada ELSE m[k]]

Comparar(q) ==
  /\ EmPasso(q, "comparar")
  /\ ocupado' = [ocupado EXCEPT ![q].passo = "atualizar",
                                ![q].entidade = Diferencas(@, linha)]
  /\ UNCHANGED <<nossa, linha, tx, trava, restam, vigente, falhas>>

\* The Lua script of unlock; (mutant) a plain DEL.
DestravaSempre(q) == IF ocupado[q].token THEN Nada ELSE trava
Destravada(q) == IF ocupado[q].token /\ trava = q THEN Nada ELSE trava

\* The INSERT or UPDATE, which waits for the other's transaction, and the finally block
\* that frees the lock.  An INSERT finds the unique key taken: see Falhar.
Gravar(q) ==
  /\ tx = Nada
  /\ \/ EmPasso(q, "inserir") /\ linha = Nada
     \/ EmPasso(q, "atualizar")
  /\ tx' = [quem |-> q, linha |-> Aplica(IF linha = Nada THEN Padrao ELSE linha,
                                         ocupado[q].entidade)]
  /\ trava' = Destravada(q)
  /\ ocupado' = [ocupado EXCEPT ![q].passo = "confirmar", ![q].token = FALSE,
                                ![q].entidade = Nada]
  /\ UNCHANGED <<nossa, linha, restam, vigente, falhas>>

Confirma(q) == EmPasso(q, "confirmar") /\ tx # Nada /\ tx.quem = q /\ linha' = tx.linha /\ tx' = Nada

ConfirmarEnvio ==
  /\ Confirma("envio")
  /\ Vai("envio", "fim")
  /\ UNCHANGED <<nossa, trava, restam, vigente, falhas>>

ConfirmarWebhook ==
  /\ Confirma("webhook")
  /\ JobPronto(ocupado["webhook"].evento)
  /\ ocupado' = [ocupado EXCEPT !["webhook"] = Livre]
  /\ UNCHANGED <<nossa, trava, vigente, falhas>>

--------------------------------------------------------------------------------
(* Failures *)

\* The unique constraint of message_id.
Duplicada(q) == EmPasso(q, "inserir") /\ tx = Nada /\ linha # Nada

\* The rollback; registraEnvio only logs it.
FalharEnvio ==
  /\ \/ Duplicada("envio") /\ falhas' = falhas
     \/ /\ ocupado["envio"].passo \in Ativos /\ falhas.envio < FalhasEnvio
        /\ falhas' = [falhas EXCEPT !.envio = @ + 1]
  /\ tx' = IF EmPasso("envio", "confirmar") THEN Nada ELSE tx
  /\ trava' = Destravada("envio")
  /\ ocupado' = [ocupado EXCEPT !["envio"] = [Livre EXCEPT !.passo = "fim"]]
  /\ UNCHANGED <<nossa, linha, restam, vigente>>

FalharWebhook ==
  /\ \/ Duplicada("webhook") /\ falhas' = falhas
     \/ /\ ocupado["webhook"].passo \in Ativos /\ falhas.webhook < FalhasWebhook
        /\ falhas' = [falhas EXCEPT !.webhook = @ + 1]
  /\ JobFalho(ocupado["webhook"].evento)
  /\ tx' = IF EmPasso("webhook", "confirmar") THEN Nada ELSE tx
  /\ trava' = Destravada("webhook")
  /\ ocupado' = [ocupado EXCEPT !["webhook"] = Livre]
  /\ UNCHANGED <<nossa, linha, vigente>>

\* The lock's five seconds are over.
Expirar ==
  /\ trava # Nada /\ trava' = Nada
  /\ UNCHANGED <<nossa, linha, tx, ocupado, restam, vigente, falhas>>

--------------------------------------------------------------------------------
(* The webhook worker: one job at a time *)

\* The provider reports in any order, and a retried job goes behind the others.
Chegou(e) == restam[e] > 0 /\ (nossa => ~EmPasso("envio", "parado"))

\* processWebhook: the job's key is the conversation and Date.now(), and BullMQ does not
\* add a second job with the same key: two reports of one conversation in the same
\* millisecond, and the second is gone.
Colidir(e) ==
  /\ Chegou(e) /\ restam[e] = Tentativas /\ ocupado["webhook"].evento # e
  /\ JobPronto(e)
  /\ UNCHANGED <<nossa, linha, tx, trava, ocupado, vigente, falhas>>

\* A free worker takes a job.
Disponivel(e) == EmPasso("webhook", "parado") /\ Chegou(e)

\* An edit looks for the message in the open chat only; a revocation after an edit is a
\* known false positive of the provider; (mutant) it is obeyed.
Existe(l) == l # Nada
Revogavel(l) == l # Nada /\ ~l.editada

\* What each handler tests before it writes: the echo of what is already recorded is
\* ignored, an ack only advances, and the rest needs the message.
Interessa(e) ==
  CASE e.tipo = "eco" -> nossa => linha = Nada
    [] e.tipo = "ack" -> linha # Nada /\ e.numero > linha.ack
    [] e.tipo = "reacao" -> linha # Nada
    [] e.tipo = "edicao" -> linha # Nada /\ linha.conversa = Aberta
    [] e.tipo = "revogacao" -> Revogavel(linha)

Pega(e, tipo) == Disponivel(e) /\ e.tipo = tipo /\ Interessa(e)

Ocupa(e, passo, entidade) ==
  /\ ocupado' = [ocupado EXCEPT !["webhook"] =
                   [Livre EXCEPT !.passo = passo, !.evento = e, !.entidade = entidade]]
  /\ UNCHANGED <<nossa, linha, tx, trava, restam, vigente, falhas>>

\* formatateMessageContent
Recebida ==
  [Nenhuma EXCEPT !.conversa = Aberta, !.posicao = "eco", !.ack = 1, !.conteudo = "original"]

ReceberEco(e) == Pega(e, "eco") /\ Ocupa(e, "travar", Recebida)

\* saveMessageAck writes this column alone, without the lock.
ReceberAck(e) == Pega(e, "ack") /\ Ocupa(e, "atualizar", [Nenhuma EXCEPT !.ack = e.numero])

\* saveMessageReaction, saveMessageEdited, saveMessageRevokeEveryone: the whole row as it
\* was read, with one thing changed; (mutant) the map of reactions starts empty.
SoDoAutor(reacoes, e) == [SemReacao EXCEPT ![e.autor] = e.por]
ComReacao(reacoes, e) == [reacoes EXCEPT ![e.autor] = e.por]

ReceberReacao(e) ==
  Pega(e, "reacao") /\ Ocupa(e, "travar", [linha EXCEPT !.reacoes = ComReacao(@, e)])

ReceberEdicao(e) ==
  Pega(e, "edicao")
    /\ Ocupa(e, "travar", [linha EXCEPT !.conteudo = "editado", !.editada = TRUE])

ReceberRevogacao(e) ==
  Pega(e, "revogacao") /\ Ocupa(e, "travar", [linha EXCEPT !.apagada = TRUE])

\* Not found in the open chat: an entity without message_id is inserted, which the
\* column refuses.
EdicaoPerdida(e) ==
  /\ Disponivel(e) /\ e.tipo = "edicao" /\ ~Interessa(e)
  /\ JobFalho(e)
  /\ UNCHANGED <<nossa, linha, tx, trava, ocupado, vigente, falhas>>

Ignorar(e) ==
  /\ Disponivel(e) /\ e.tipo # "edicao" /\ ~Interessa(e)
  /\ JobPronto(e)
  /\ UNCHANGED <<nossa, linha, tx, trava, ocupado, vigente, falhas>>

--------------------------------------------------------------------------------
(* The attendant, and the end of the chat *)

\* ocultar: an UPDATE of its own, which waits for whoever holds the row.
Ocultar ==
  /\ linha # Nada /\ tx = Nada /\ ~linha.oculta
  /\ linha' = [linha EXCEPT !.oculta = TRUE, !.conteudo = "vazio"]
  /\ UNCHANGED <<nossa, tx, trava, ocupado, restam, vigente, falhas>>

\* The chat is closed; whatever looks for an open one opens another.
FecharConversa ==
  /\ vigente /\ vigente' = FALSE
  /\ UNCHANGED <<nossa, linha, tx, trava, ocupado, restam, falhas>>

--------------------------------------------------------------------------------
Grava(q) == Travar(q) \/ LerExistente(q) \/ Comparar(q) \/ Gravar(q)
Envio == Grava("envio") \/ ConfirmarEnvio \/ FalharEnvio

Recebe(e) ==
  \/ ReceberEco(e) \/ ReceberAck(e) \/ ReceberReacao(e) \/ ReceberEdicao(e) \/ EdicaoPerdida(e)
  \/ ReceberRevogacao(e) \/ Ignorar(e)
Webhook == Grava("webhook") \/ ConfirmarWebhook \/ FalharWebhook \/ \E e \in Eventos : Recebe(e)

Next ==
  \/ Enviar \/ Envio
  \/ \E e \in Eventos : Colidir(e)
  \/ Webhook
  \/ Expirar \/ Ocultar \/ FecharConversa

\* A request that has begun and the worker go on; what the provider reports arrives.
Justica == WF_vars(Envio) /\ WF_vars(Webhook)

Spec == Init /\ [][Next]_vars /\ Justica

--------------------------------------------------------------------------------
(* Safety *)

\* A message keeps its place in the conversation: whichever of the send and its echo
\* comes first decides it, and no later merge moves it.
PosicaoFixa == [][linha # Nada => linha' # Nada /\ linha'.posicao = linha.posicao]_vars

ConfirmaWebhook(tipo) ==
  /\ EmPasso("webhook", "confirmar") /\ ocupado["webhook"].evento.tipo = tipo
  /\ ocupado'["webhook"] # ocupado["webhook"] /\ tx # Nada /\ linha' = tx.linha

\* A late echo never chooses again the chat of a recorded message, though it was read,
\* compared and written in three steps and another chat may be open by then.
EcoNaoRedecide ==
  [][linha # Nada /\ ConfirmaWebhook("eco") => linha'.conversa = linha.conversa]_vars

\* The revocation that the provider reports after an edit is false, whatever order they
\* are handled in: a revocation never deletes a message that an edit has reached, though
\* it tests the row three steps before it writes.
EditadaNaoApagada ==
  [][linha # Nada /\ ConfirmaWebhook("revogacao") => ~linha.editada]_vars

\* One person's reaction does not undo another's, on what the customer sent.  (On what we
\* sent, the copy of the map that the late send writes back comes in between.)
ReacoesDosOutros ==
  [][~nossa /\ linha # Nada /\ ConfirmaWebhook("reacao") =>
       \A a \in Autores \ {ocupado["webhook"].evento.autor} :
         linha.reacoes[a] => linha'.reacoes[a]]_vars

\* A lock that has not expired is freed by who took it and by nobody else, although a
\* process whose own lock expired still runs its finally block.
TravaDeQuemPegou ==
  [][\A q \in Processos :
       trava = q /\ trava' # q /\ ocupado' # ocupado => ocupado'[q] # ocupado[q]]_vars

--------------------------------------------------------------------------------
(* Liveness *)

\* A message that was sent from the portal ends up in the history, even if its echo is
\* lost and the webhook worker is in its way.
Registrada == nossa /\ ~EmPasso("envio", "parado") ~> linha # Nada

================================================================================
