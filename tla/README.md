# Verification of the help-desk backend

TLA+ models of this backend, where several actors share state: the life cycle of a support chat
(*atendimento*), the chatbot that attends before and after the human, the record of a WhatsApp
message, the connection of a channel, sessions and links, registrations that refer to each
other, the internal chat, the agenda, presence, retention of media, the cache of permissions,
the pool of connections, and the database schema through all its migrations. TLC checks them on
small instances; TLAPS proves the safety of most of them for every value of the constants. Names
are the code's own (Portuguese) names, or short for them. `PROJECT.json` maps every definition to
the lines it translates.

## 1. The system

A NestJS application over Postgres (TypeORM), with BullMQ queues in Redis, an Evolution-API
provider for WhatsApp, socket.io for the attendants' screens, and cron jobs. Node runs one
event loop, but every `await` lets another handler in, and the database is READ COMMITTED.
The actors that write the same rows are:

| actor | entry | notes |
|---|---|---|
| attendants (HTTP) | `support-chats.controller` → `support-chats.service` | reads the row, validates, may send a WhatsApp message, and only then opens the transaction whose `UPDATE … WHERE` decides again |
| webhook worker | `whatsapp-messages.processor`, `concurrency: 1` | messages, acks, edits, reactions and revocations, 3 attempts, exponential back-off |
| chatbot worker | `chatbot-flow-execution.processor`, `concurrency: 1` | `step`: transaction, then sends, then hand-over / closing / release |
| crons | inactivity (minute), recovery of executions (10 s), reminders (minute), media and chat retention (daily) | |
| administrators | settings, channels, contacts | switches that abort executions in mid-flight |

### Components, their state and what makes them correct

| component | state | operations | hard behaviour | correct when | module |
|---|---|---|---|---|---|
| support-chats | `support_chats` rows: status, owner, department, waiting, answered, paused, `pos_atendimento_ativo` | open, take, pause, resume, transfer, close (plain, with exit flow, unattended, by inactivity, by the bot), start by hand | stale reads between validation and UPDATE, four actors on one row | owner/status/flags agree; ended means ended; nobody loses a chat without handing it over | `Atendimento`, `CicloDeVida` |
| chatbot-engine | `chatbot_flow_executions`, queue jobs, recovery cron | start, step, suspend, reply, timeout, abort, hand over, close, release | commit before effects, crashes, lost/duplicated/stalled jobs, two clocks racing | a question is left for the reason that holds; no message twice; nothing waits for ever | `MotorChatbot` (one execution in depth), `Atendimento` (its effects on chats) |
| attendance-settings, contact policy | switches | turn on/off | off aborts live executions and moves chats | no live bot where a human is | `Atendimento`, `MotorChatbot` |
| messages, whatsapp queue, redis lock | `support_chat_messages` row, `lock:save-message:<id>` | save outgoing/incoming, ack, reaction, edit, revoke, hide | lock released before commit, read outside the transaction, fail-open lock, duplicate job key | place and chat fixed once, reactions merge, nothing lost | `Mensagens` |
| channels: sessions | `channels` row; the provider's instance (external) | start, close, restart, consult, remove; QR, ready and disconnected webhooks | every handler reads, calls the provider, writes; webhooks lost or late | at rest the row says what the provider says | `Canal` |
| channels, chatbots, departments: registration | channel's departments, default, chatbots; draft and published versions | edit a channel, remove a department, save, publish, unpublish, remove, rename a chatbot | checks on what was read before the row lock | a published flow names departments its channels have | `Vinculos` |
| auth, password-reset, invites | password, `user_refresh_tokens`, single-use links | sign in, refresh, edit, remove; request, open and use a link | two refreshes with one token, whole-row saves, `used_at` read before the transaction | an old password opens nothing; a link works once | `Sessoes`, `Links` |
| permissions, permission-groups | grants per group, group of a user, 30 s cache | check, edit, delete a group, move a user | an answer of the database cached after the edition that discards it | what was taken away stops within the validity | `Acessos` |
| controllers, routes and guards | – | every route | permission named in code, granted by a migration | the administrator opens every route | `Rotas` |
| database: migrations, entities | the schema; the columns each entity reads and writes | `migration:run`, `migration:revert`, release | 118 files written apart, two kinds of installation | each level has one schema; the program of a release fits it | `Esquema`, `Migracoes*`, `Migracao`, `Entidades` |
| database: pool, health | clients of the pool | take, wait, give back, give up | nested requests, a `QueryRunner` never released | every call ends; nobody else keeps a client | `Conexoes` |
| media retention, attachments | bucket, registration's key, messages' keys | upload, replace, remove, send a copy, nightly round | deletion before the transaction, refusals, a round cut short | a registration's file disappears only by an edition; old media expire | `Midias` |
| internal-chats | conversation of a pair, messages, read marks, badge on the screen | send, read, reload | both open at once; notices cross | one conversation, ordered; the badge agrees after a reload | `ChatInterno` |
| schedules, notifications | appointments, reminders | create, change, remove, minute cron | conflict looked for outside the write; rounds overlap | a conflict is consented or raced; one reminder per appointment and round | `Agenda` |
| presence | sockets per user, away marks, everyone's screen | connect, disconnect, activity, away cron | handshake that outlives its socket, second tab while away | a screen differs only in the two named cases | `Presenca` |
| protocol counters | `protocol_counters` | upsert + increment | – | unique, consecutive | not modelled: one atomic statement |
| departments' opening hours, holidays | weekly hours, exceptions | availability | ranges over midnight | agrees with the calendar | planned |
| inactivity resolution | clock, settings per channel, mark of the warning | scan, warn, mark, close | what a scan read is acted upon later, runs overlap, pauses do not stop the minutes | one warning per silence, and nobody closed without it | `Inatividade` (`Atendimento` has the closing against the other writers) |
| contacts (registration), clients, tags, custom fields, shortcuts, supports, alerts, system and user settings | independent rows | CRUD | none between actors | – | columns in `Entidades`, routes in `Rotas`; otherwise not modelled |
| reports, dashboard, storage, mailer, core | – | queries, I/O, wiring | – | – | not modelled: no state of their own |

The hazards, each at its line with the properties that watch it or the reason none does, are
in `PROJECT.json`.

## 2. The modules

```
CicloDeVida         abstract life cycle of a protocol (the promise)
   ^ Ciclo!Spec, refinement mapping at the end of Atendimento
Atendimento         rows, executions, requests in flight, webhook, worker's tail, cron, switches
   MCEquipe  MCAutomacao  MCDuas                                   instances for TLC (the first with
                                                                   Canal, the second with Inatividade)
   AtendimentoProofs -> AtendimentoAcoes                           proofs
Dialogo             abstract dialogue of a flow with its customer (the promise)
   ^ Conversa!Spec, refinement mapping at the end of MotorChatbot
MotorChatbot        one execution: row, queue, worker's stages, replies, deadline, cron, crashes
   MotorChatbotProofs                                              proofs
Conducao            abstract contract between the bot and whoever else writes a chat (the promise)
   ^ Contrato!Spec, refinement mappings at the end of Atendimento and of MotorChatbot
Mensagens           one message: row, transaction, lock, sender, webhook worker
   MCMensagens, MensagensProofs                                    instance, proofs
Canal               one channel's row against the provider's instances
Inatividade         the scan for quiet chats against people and the clock
Sessoes Links Vinculos Agenda ChatInterno Presenca
   MCCadastros                                                     instance: the six side by side
Esquema -> MigracoesBase -> MigracoesCadastro -> MigracoesAtendimento
Entidades Rotas     (data)         -> Migracao
Migracao Acessos Conexoes Midias
   MCServidor                                                      instance: the four side by side
VinculosProofs      proofs about Vinculos and Inatividade
CanalProofs         proofs about Canal
ColegasProofs       proofs about Agenda and ChatInterno
CadastrosProofs     proofs about Presenca, Sessoes, Links, Acessos, Conexoes and Midias
```

`MCServidor`, `MCCadastros`, `MCEquipe` and `MCAutomacao` put components that share nothing in one run: a behaviour chooses
one part at the start (`parte`) and only that part moves. `Midias` has two such parts, because its
registration and its retention meet in the bucket alone: one part has both forms and one message,
the other no form and three messages.

### Atendimento

A database transaction is one action. What a handler does between its read and its write is
*not*: `LeX` (read, validate, remember) and `X` (the transaction) are different actions, and
`pedido[r]` holds what request `r` remembers. So `LeTransferir` followed by anybody else's step
followed by `Transferir` is the race the code has. Which UPDATE decides what again is in the
actions' guards: `Assume` (`assumir`: status and department), `AindaDoDono` (`transferir`),
`NaoAssumidos` (`finalizarNaoAssumido`), `EmAndamento` (`finalizarPorInatividade`).

Taking and discarding a chat are three steps, because the code reads twice before it writes.
`ValidarAcesso` is `AcessoAtendimentoGuard`: it reads the row and asks `PodeVer` (`podeVer`: the
owner may; others by department and, in attendance, by `support.chat:view_others`). `LeIniciar` and
`LeDescartar` are the handler's own `findParaEstado`, which asks nothing of department, and whose
department is the one the UPDATE of `assumir` compares. The other handlers check the owner or a
master themselves, and neither is refused by the guard; for them the guard is part of `LeX`.
`SetoresDe` and `VeOutros` are what `escopo` reads of the attendant, which no action changes.

* `conversa` – `status, dono, setor, esperando, respondida, pausada, pos` are `status_id`,
  `user_id`, `department_id`, `is_waiting`, `answered_at`, `paused_at`, `pos_atendimento_ativo`.
* `execucao` – status of the entry and of the exit execution of each chat.
* `webhook` – `onMessageCreate` between its failed search, `decideAcaoDoChatbot` and the insert.
* `bot` – what `step` still has to do after its commit (`encaminharPorChatbot`,
  `encerrarPorChatbot`, farewell, release), one stage per `await` that another actor can slip
  into. `RunLoop` chooses among all outcomes a walk over the graph can have.
* `cron` – chats the inactivity scan has chosen and not yet closed.
* `Queda` – a restart: requests, webhook transaction, worker's tail and cron's list are gone,
  rows stay. `RetomarReserva` is the retry that completes an interrupted release.
* `Contrato` maps each chat to `Conducao`, phase by phase: the statuses of its two executions,
  whether the bot holds the chat (before an attendant, or reserved after the end), and which letting
  go the worker still owes it.

### MotorChatbot

One execution in depth, since the worker's guarantees depend on the order commit → send → renew
the deadline → hand over → release. `trabalho.etapa` is where `step` stands; `Lanca` an
exception at each place that can throw, `Parado` a stalled job, `Queda` a crash, `PerderFila`
a Redis that comes back empty. `LerExecucao`/`RegistrarResposta` is the customer's reply with
its version check. `LerPendentes`/`ReenfileirarPendentes` is the recovery cron, which reads rows
and enqueues later. `Interromper` is a human or a switch that ends the execution; `ligada` are
the channel's and the contact's switches, which `bloquearParaExecucaoBot` reads again.
`dispararEfeitos` reads the chat before each message and then calls the provider: `Enviar` is the
reading, `Mandar` the call, and a take-over may fall between. `Conversa` maps the execution to
`Dialogo`: the row's status, question and reply are the dialogue's, and what `Enviar` has let
through is its message on the way; queue, worker, deadline, cron and crashes do not show. `Contrato` maps the same execution, with the
one chat it can see, to `Conducao`. `caminho`, `respostas` and `enviadas` are history variables: no action reads them.

### Mensagens

One row of `support_chat_messages`. `ocupado["envio"]` is `registraEnvio`, `ocupado["webhook"]`
the single webhook worker. `saveMessage` is five steps: `Travar` (three tries, or go on without),
`LerExistente` (another connection: committed data only; merge), `Comparar` (`manager.save`
selects again and keeps the differing columns), `Gravar` (the INSERT/UPDATE, which waits for the
other's uncommitted one, and the `finally` that unlocks) and `Confirmar*` (the caller's commit,
later). A row is a record with one field per group of columns that move together; an *entity*
sets some columns and leaves others `Nada`, which TypeORM does not write. `posicao` says whose
instant `datetime` is. `Colidir` is a webhook whose job key exists already; another message of
the conversation may always be the other one.

### Canal

`canal` is the row, `instancia` the provider's side per session name (external, as
`evolution.provider` drives it), `fila` and `trabalho` the session webhooks' queue and worker, and
`comando[o]` what an operator's request has read and the provider answered. Reading the row,
calling the provider and writing the row are three steps of `startSession`, `closeSession` and
`sincronizarStatus`; `NomeiaSessao` writes the name of a first session and `RelefSessao` reads it
again. `Remove` saves the whole row it read, with its status: the loaded relation wins over the
`DELETED` set beside it. `Avisa` may lose a webhook, `FalhaJob` puts one behind
the others. `atropelos` is a history of what may excuse a wrong row: a loss, a late answer
(`Atrasa` marks the requests an instance overtakes), a session replaced.

An instance may lose its socket while the provider goes on reporting it open (`MorreSocket`, state
`"semSocket"`, no webhook: what the comment of `requestDisconnection` describes). Its logout is
refused with "Connection Closed", and `closeSession`, told that there was nothing to end
(`JaSemConexao`), writes the row itself; an attempt that asks for a new code goes on. A
restart may bring such an instance back, close it or be refused; the provider may also notice.

### Inatividade

Time goes by half minutes, so that a message may come between two scans, which come every whole
minute (`Bate`) whatever still runs. `passada[k]` is one run: the rows it read (`Linhas`:
`buscarInativosPorCanal` with its instant), the one it is treating and what is left to do about
it. `TrataLinha` is the `if`s of the loop and the first look at the contact's policy; `EnviaAviso` is
the automatic message, which looks again and does not tell whether it was sent; `ConcluiLinha` writes
the mark or closes. A message has the time it was written at and may arrive half a minute later.
`SemBatida` is a minute without a scan, `CaiProcesso` a restart, or a run that an error cut short.
`Aceita`, `PausaAtendimento`, … are the UPDATEs whose races `Atendimento` follows, here as one step.
`avisos` and `seguida` are history: warnings since a person last wrote, and the chats whose silence
every scan since then saw, alone and undisturbed.

### Vinculos

`req[r]` is what a request read and, once its transaction began, what it is going to commit: others
see it at `Confirma*`, and wait for the rows it holds (`CanalLivre`, `BotLivre`). `PedeCanal` is
what `updateChannel` reads before its transaction, `GravaCanal` the check of the flow inside it.
A flow is three facts: the departments its nodes set, those they hand over to, and whether a node
waits without a deadline. `Publica` numbers a version under the chatbot's lock; `PedeEdicao` and
`ConfirmaEdicao` are the edition that writes its one field over what a publication did.

### Sessoes, Links

A password is its version and a refresh token the second it was signed in: its payload is the user
and the type, so that two tokens of one second are one text. `ConfereSenha`/`AbreSessao` and
`ConfereRefresh`/`EscolheComando`/`GravaRefresh` separate what a request reads from what it writes;
TypeORM's `save` looks for the row before it decides between UPDATE and INSERT. `LeCadastro` and
`EditaUsuario` are the whole-row save. In `Links`, the invalidation of the pending links and the
insert are one transaction of two statements, each of which sees what was committed before it;
`AbreLink` is the check made before the transaction of `UsaLink`.

### Agenda, ChatInterno, Presenca

`Agenda`: an appointment is an hour and an owner; the look for conflicts, the write, and a round of
the minute cron (`Dispara`, one `VerificaLembrete` and `ConfirmaLembrete` per reminder) interleave,
and two rounds may run at once. `ChatInterno`: the transaction of the first message in three
statements, with the unique index of the pair (`InsereConversa`) and PostgreSQL's aborted
transaction when it refuses; notices travel on their own, and `badge` is the reader's screen.
`Presenca`: the handshake waits for the database (`Abre`, then `Conecta` or `Rejeita`), the socket
may close in between, and `tela` is what everyone's list shows.

### Acessos, Conexoes, Midias

`Acessos`: the guard takes the hour and asks the database in one step and fills the cache in
another; editions read, write and discard (`Invalida`) apart, and the 30 s are `Validade` ticks.
`Conexoes`: a call holds no, one or two clients, waits for the one it lacks, and gives up at the
limit; `usuarios` and `suporte` are the two services with `QueryRunner`s of their own. `Midias`: a
form shows what it read when it opened; `ApagaAntigo` deletes the replaced file before
`GravaCadastro`; a round takes a batch in the order of creation, deletes and marks one by one, and
`QuedaDaRodada` cuts it anywhere.

### Esquema, Migracoes*, Entidades, Rotas, Migracao

`Esquema` gives each kind of migration command its effect on a schema (tables with the columns an
INSERT must fill, foreign keys, names, catalogue rows, permissions, grants) and the condition under
which PostgreSQL refuses it. The 118 migrations are, in three modules, their `up` and `down` as
sequences of such commands. `Entidades` is what each entity reads and writes, `Rotas` every route
with its guard and permissions. `Migracao` applies and reverts the last one, from an empty database
and from one that had run the agenda's first version (`PrimeiraAgenda`); `recusa` is the answer of
the one `down` that looks at rows before it goes on.

## 3. What TLC checks

| run | instance | shows |
|---|---|---|
| `equipe_e_canal` | 1 chat, 2 attendants (a master, and one cleared for one department), 2 departments, 2 requests in flight, webhook, inactivity cron, contact's switch; or 2 operators, 2 phones, 3 sessions, 3 commands, 1 fall or dead socket, 1 lost or delayed webhook | `EntregaSoPorTransferencia`, `AssumeNoSetorConferido`; `QuietoEstaCerto`, `InstanciaSoDoCanal` |
| `automacao` | 1 chat, 1 attendant, 2 departments, 2 requests, both flows, module's and contact's switch, crashes; or 1 chat, 2 overlapping scans, 8 minutes, warned 2 minutes before the 4th, 1 pause, transfer, change of policy, lost scan or restart | `HumanoPrevalece`, `SegueAConducao` (refinement); `UmAvisoPorSilencio`, `FechaSoDepoisDoAviso` |
| `duas` | 2 protocols, 1 attendant, both flows, channel's switch | `BancoConsistente` (the inductive invariant, with the types) and `SegueOCicloDeVida` (refinement) |
| `motor_entrada` | entry flow, 1 question, 1 failure, 1 crash, 1 loss of Redis | `SegueODialogo`, `SegueAConducao` (refinements), `RespostaRetomada`, `PrazoRetomado` |
| `motor_saida` | exit flow, 1 question, 2 failures, 1 crash | `NaoRepeteEnvio`, `ChatLiberado`, `InicioRecuperado` |
| `mensagens` | our message (echo, ack, edit, revocation) or a customer's (echo, edit, two people's reactions, one undone), 1 failing job, lost lock, closed chat | `PosicaoFixa`, `EcoNaoRedecide`, `EditadaNaoApagada`, `ReacoesDosOutros`, `TravaDeQuemPegou`, `Registrada` |
| `servidor` | all 118 migrations and both kinds of installation; 1 account, 2 groups, 1 permission, 2 editors, 1 guard; 3 calls on 3 clients; 2 forms; 3 messages in batches of 2 | `EsquemaDoNivel`, `ReversaoSoParaNaAgenda`, `AplicacaoServida`; `CacheAtrasaAValidade`; `FaltamSoAsDeUsuarios`, `TodaChamadaAcaba`; `AnexoSomeSoPorEdicao`, `VencidaExpira` |
| `cadastros` | 2 requests on one user's sessions (2 passwords, 2 seconds), on 3 links, on 1 channel with 2 departments and 3 chatbots, on 2 appointments with 2 rounds, on 1 conversation of 3 messages; 2 sockets of 1 or 2 users | `SessaoVelhaSoPorCorrida`, `TrocadoSoServeDuplicado`; `LinkGastoSoPorCorrida`; `SetorForaSoPorDescuido`, `CanalCoerente`, `PonteiroSoPorPublicacao`; `AgendaConfere`; `ConversaConfere`; `PresencaConfere` |
| `uma_aberta`, `motor_resposta`, `sonda`, `aviso_previo` | small instances of `Atendimento`, `MotorChatbot`, `Conexoes`, `Inatividade` | findings, section 6 |

**Bounds.** Every race of `Atendimento` found or excluded is between at most two requests (or
one and a worker, webhook, cron or switch) on one row, and the actors touch one row per
transaction except the switches, which touch all: two requests with one chat, and one with two
chats, are the smallest instances in which all of them happen, and the theorems of section 5
remove the bound. In the motor, two failures are fewer than a job's three attempts, and one crash
is BullMQ's `maxStalledCount`: beyond them a job is dropped and the code has no recovery for what
only the job knew. One question is the most that leaves the liveness graph small; safety for
any number of questions is proved. A loss of Redis is left out of the exit-flow run because what
remains to be released after the commit is known to the job alone. In `Mensagens` the send itself
does not fail (`FalhasEnvio = 0`; if it does, `registraEnvio` logs it and relies on the echo),
and one webhook job may fail at any step; the unique key makes more fail.

In `cadastros`, two requests are enough for every race the exceptions name, since each is between
one that read and one that wrote; `MaxSegundo = 2` lets two tokens have one text and two have
different ones; three links are two concurrent ones and one after both; a third chatbot makes the
conflict of types possible; `MaxMinuto = 3` with a notice two minutes ahead lets one round overlap
the next and an appointment move in front of both. In `servidor`, three calls on three clients are
the fewest with which transactions can all wait for one another while the two leaking services are
also there; three messages in batches of two fill a batch and leave one behind it; a validity of
two ticks separates an entry that is half spent from a new one. The migrations have no bound but
their number. For a channel's connection, three sessions are the two that race and the one that
follows. For inactivity, a warning two minutes before the fourth leaves two scans between warning and
closing, and eight minutes hold a silence that was warned of and broken and a whole one after it; a
run lasts a minute and a half at most (`MaxDemora`), which overlaps the next.

Requests, scans, operators and phones are symmetric (`Permutations`) where a run
has no liveness property; runs with liveness use no symmetry.

**Deadlock** is checked in `duas`. Elsewhere the instance may legitimately be over
(a flow, a message's reports, a bounded number of requests), and the configurations say
`CHECK_DEADLOCK FALSE`.

**Fairness.** `Atendimento` has none: nobody owes a request. `MotorChatbot` assumes weak fairness
of enqueueing after a commit (a promise the event loop runs), of the cron's two halves (every
10 s), of the worker, of a reply's transaction once begun, and of the deadline's clock; never of a
customer's reply, a human, a switch, a failure or a crash. Weak fairness of `Worker` as a whole is
what a queue with one worker gives: some job is taken. The 30 s that `buscarIniciosPendentes`
waits are not modelled; it only makes the cron look earlier. `Mensagens` assumes that a request
once begun and the webhook worker go on. `Conexoes` assumes that each call goes on: a query ends,
and a wait ends by a client or by `connectionTimeoutMillis`, which the pool's own timer fires
(without it `TodaChamadaAcaba` fails: that is its mutant). `Midias` assumes that a round goes on
and that the nightly cron starts another; never that a round is not cut short. The other modules
have only safety properties and assume nothing.

**Mutants.** For each property of a passing run there is one plausible bug of a mapped
definition (a WHERE without its department, a retry that sends again, a plain DEL as unlock, a
reset that leaves the sessions, a `release` only on success, a migration that forgets its grant, …)
under which TLC finds the property violated.

## 4. What each property is about

* `BancoConsistente` – columns and tables that six UPDATEs write in part agree whoever interleaves:
  `ReservaSoEmEncerrada` (the table's CHECK), `SemBotNoAtendimento` (no live execution where a human
  is), the owner conforming to the status, and what makes them inductive.
* `EntregaSoPorTransferencia` – what was validated on a read is still so when it is written.
* `AssumeNoSetorConferido` – nobody takes a chat of a department that is not theirs, whatever moves
  between guard, read and UPDATE, but in two named cases: the chat changed department between the
  guard's read and the handler's, or the attendant was its owner at the guard's read and gave it up.
  Even then the department is the one the handler read. Without either exception TLC finds the
  property violated: the code has both races (section 6).
* `HumanoPrevalece` – what the worker does after its commit never writes a chat in attendance.
* `SegueOCicloDeVida` – no chat returns to the bot, ends in a way its phase does not allow, or is
  reserved again after it was freed; no late request, worker effect, cron decision or switch changes
  how a protocol ended, or whose it was (`FinalEhPermanente`, a theorem of its own).
* `SegueAConducao` – the contract on which the two views of the chatbot rest, kept by both: an
  execution is created once and goes on only while its chat is the bot's; whoever takes the chat ends
  it in the same transaction; the worker lets a chat go only for an execution that has ended. It has
  one clause wider than one would write at first, because the code is: a step that found itself
  forbidden gives the chat back and then calls `concluirPosAtendimento` whatever its phase
  (`execution-engine.service.ts:118`), so that an *entry* step cut short may free a reservation that
  an exit flow began meanwhile, and leave that flow running with its chat free (`"ambas"`).
* `NaoRepeteEnvio` – at most once. `SegueODialogo` – the reply branch of a question only with a
  registered reply, the no-reply branch only without (`SaiDaEsperaComMotivo`, a theorem of its own);
  no late writer revives an execution,
  a message is about the question that is open, and once a person took the chat nothing more is
  said, but the one message that was already on its way. `RespostaRetomada`, `PrazoRetomado`, `ChatLiberado`, `InicioRecuperado` – a reply, a
  deadline, an end and a start are never forgotten, within the bounds above.
* `PosicaoFixa`, `EcoNaoRedecide` – what the send or its echo decided first stays, although both
  merge at once and the lock may be missing. `EditadaNaoApagada` – the provider's false revocation
  after an edit. `ReacoesDosOutros` – one person's reaction to a customer's message keeps the
  others' (on ours, a late send may write back the map it saw).
  `TravaDeQuemPegou` – a `finally` that runs after its lock expired does not free another's.
  `Registrada` – what was sent gets into the history without its echo.
* `QuietoEstaCerto`, `InstanciaSoDoCanal` – with no webhook on its way, the row of a channel says
  what the provider says, and no instance is left there with nobody to close it, unless one of the
  named races happened. Of a dead socket, and of nothing else, the row may say disconnected where the
  provider says open; its phone is then the instance's or none.
* `UmAvisoPorSilencio`, `FechaSoDepoisDoAviso` – the rows of a scan are old when it acts on them, the
  mark comes after the message, and its removal is left to a later scan: still a silence is warned
  of once, and before it is closed, if every scan saw it, alone, and the contact's policy let the
  warning go. It takes a warning later than the first minute: with `avisar = resolver - 1` a message
  just after a scan is a minute old at the next, and the mark of the silence before it stays.
* `SessaoVelhaSoPorCorrida`, `TrocadoSoServeDuplicado`, `LinkGastoSoPorCorrida` – what a reset, a
  refresh or a used link takes away stays away from everyone who did not read before it.
* `SetorForaSoPorDescuido`, `CanalCoerente`, `PonteiroSoPorPublicacao` – a published flow names
  departments its channels have, the default is one of them, one chatbot per type, and nothing but
  a publication moves the version in production, whatever requests interleave.
* `AgendaConfere` – an unconsented conflict needs two requests that looked at once; a second
  reminder needs overlapping rounds; nobody is forgotten. `ConversaConfere` – one conversation, its
  order and instants, and the reader's count. `PresencaConfere` – the screens and the sockets.
* `CacheAtrasaAValidade` – a permission that was taken away is granted for the cache's validity at
  most, counted from when it was read, also when it is cached after the edition discarded it.
* `FaltamSoAsDeUsuarios`, `TodaChamadaAcaba` – what the pool lacks is exactly what two services
  keep; although transactions hold a client while they wait for another, none waits for ever.
* `AnexoSomeSoPorEdicao`, `VencidaExpira` – retention and sending never take a registration's file;
  old media expire wherever a round is cut, unless refusals fill a batch.
* `EsquemaDoNivel`, `ReversaoSoParaNaAgenda`, `AplicacaoServida` – the schema is a function of the
  level, reverting stops only where it is said, and a fully migrated database serves the entities
  and opens every route to the administrator.

## 5. What is proved

Assumptions: only those named in the modules, that the bounds are naturals, that sets the code
chooses among are not empty, that sentinels (`Ninguem`, `Nada`, `Livre`, `SemValor`, `Nenhum`) are none of
the values they stand beside, that masters are attendants, the default department is a
department, the attendants' departments are among them and an internal conversation has finitely
many sides (the code gives it two). Chats,
attendants, departments, requests, operators, channels, chatbots, users and sockets are any sets.

* **`AtendimentoProofs`: `TipoCorreto` and `Consistencia`.** The types are proved one lemma per
  group of actions. `BancoConsistente` is inductive. `DonoConformeStatus`,
  `ReservaSoEmEncerrada` and `SemBotNoAtendimento` are not by themselves; the strengthening is
  `SemDonoAntesDeAbrir` (an insert starts without an owner), `SaidaSoDeEncerrada` (an exit
  execution exists only for a chat that ended in one of the two ways that have one, so releasing
  or aborting it is always legal) and `TarefaSemEntradaViva` (what the worker still has to do is
  about an opened chat whose entry execution is over, so that giving it back leaves nothing
  running). The lemmas `LinhaQueSe…` say once what each UPDATE does to a row; every action then
  changes one row by one of them (`UmaLinhaMuda`), or all rows (the switches).
  `DonoSempreConforme`, `ReservaSempreEncerrada`, `BotNuncaNoAtendimento` are its projections.
* **`AtendimentoAcoes`**: the action properties `FinalPermanente`, `HumanoSemprePrevalece`,
  `SempreNoSetorConferido` and `SempreEntreguePorTransferencia`. Each step is shown to be one of a
  few row transitions (`PassoPorLinha`). The last two also need a second invariant, of what pending
  requests were told (`PedidosConferidos`, kept by `SempreConferidos`): a transfer was read by
  the owner or a master, and one that takes or discards is of somebody whom the guard saw with that
  department or as the owner. `LeituraConfere` shows that every reading begins so, `ReleituraSegue`
  that the handler's second reading forgets nothing of it.
  `ImplementaOCiclo`, `Spec => Ciclo!Spec`: initial states map to initial states, each row
  transition to one action of the life cycle or a stutter.
  `AtendimentoImplementaAConducao`, `Spec => Contrato!Spec`: what anybody but the worker's step may
  do to a row and its executions is one of four things in each phase (`Conduz`: leave, take, let go
  after the end, create), from which the contract's action follows (`ConduzPorFase`); the worker's
  step is treated apart, and so is what it owes (`Contrato!Dever`). It needs a third invariant, `TarefaDaFase`: a chat
  that was not opened has no entry execution, every effect but freeing is owed in the entry phase,
  and an exit flow whose protocol is about to be freed has ended.
* **`MotorChatbotProofs`**: `TipoDoMotor`, `MotivoSempre`, `NuncaRepeteEnvio`, `TerminalSempre`, for
  any number of questions, failures, crashes and losses. The inductive invariant `IMotor` adds
  `Coerente` (how the execution's status, its question and its history go together),
  `JobsComResposta` (a resume job, wherever it is, has its reply registered), `AEnviar` (what is
  about to be sent has not been sent, is about the open question or the final one, and no retry
  leads back to it) and `DaAberta` (while the bot holds the chat, the question a message is about is
  still open).
  `ImplementaODialogo`, `Spec => Conversa!Spec`: what the engine does is, for the customer, a run of
  `Dialogo`. The steps of queue, worker and cron stutter (`NaoSeVe`); a step's commit asks the next
  question or ends the flow, by the branch of the reply (`PassoSegueODialogo`); the reading before
  a message prepares it (`EnviarSegueODialogo`); a take-over interrupts, a reply answers. The
  permanence of what ended (`TerminalSempre`) is proved too; the run checks it within the refinement.
  `ImplementaAConducao`, `Spec => Contrato!Spec`: the same contract from the side of the queue. Its
  invariant `Devedor` says that a job holding something to hand over, close or give back is about an
  execution that ended, and one that goes on after a commit that was not the last has either a live
  execution or a chat already taken.
  `ReservaTemQuemSolte`, the safety half of `ChatLiberado`: with fewer failures than a job has
  attempts, no more crashes than the stalls BullMQ forgives and no loss of Redis, a chat left reserved by an
  exit flow that ended always has a job in the queue that is bound to free it. `Contados` charges
  each attempt and each stall of a job to a failure or a crash that happened. The bounds are tight:
  with three failures for three attempts TLC finds a chat that nobody will free.
* **`MensagensProofs`**: `TipoDasMensagens`, `PosicaoNuncaMuda`, `EcoNuncaRedecide`,
  `RevogacaoNuncaAlcancaEdicao`, `ReacaoSoDoAutor`, `TravaSoDoDono`. `Invariante` says what the two
  processes carry between their steps: at most one uncommitted write (`Exclusivo`), the row's own
  position from the merge on (`PosicaoDaLinha`), a send that never marks an edit, and, for the
  event the worker is treating, what it has already found to hold of the row.
* **`VinculosProofs`**: `TipoDosVinculos`, `CanalSempreCoerente`, `SetorSempreDoCanal`,
  `VersaoSempreUnica`, `PonteiroSoDaPublicacao` and `SoVinculaBotVivo`.
  `InvVinculos` adds to the properties the row locks (`Travas`: two transactions never hold one
  channel, nor a chatbot that is being published), the numbering of versions (`Numeradas`), what a
  request had read (`OsPedidos`) and what a transaction keeps true until it commits because of what
  it holds (`EmCurso`, `NovosAceitos`, `APublicar`). One lemma per step of a request. For `Inatividade`,
  `TipoDaInatividade`, `FechaSempreDepoisDoAviso` and `UmAvisoSempre`. `InvAviso` says of each
  silence that is followed and was not warned of: a mark is older than it (`SemMarcaDesta`); once
  its first scan came, the mark is gone or a run holds the row that removes it (`MarcaDeixada`);
  once the warning's minute came, a run is to warn (`Pendente`); and no run is to close it
  (`NinguemFecha`). `InvUm` says of one that was warned of: its mark is about to be written by the
  only run that knows the chat, or is there in every row read since.
* **`CanalProofs`**: `TipoDoCanal`, `InstanciaSempreDoCanal` and `QuietoSempreCerto`, for any
  operators, phones and bounds. The second needs two facts about requests in flight: one that found
  no session has not asked the provider anything (`SemSessaoNaoLeu`), and one about to write has a
  session (`EscreveDeSessao`). `QuietoEstaCerto` speaks of states with no webhook on its way and no
  request about to write, so its invariant `IndCanal` must say what holds on the way there. As long
  as nothing that the property excepts has happened (`Intacto`): each webhook in the queue fits the
  row that the ones before it leave (`EmOrdem`, with `Cabe`); the last one, or the row itself
  when none is left, says what the instance is, or disconnected if its socket is dead (`LinhaConta`,
  `DizOQueE`); of an answer that was not overtaken the provider still says the same, and what there
  was nothing to end of has nothing to end (`RespostaAtual`, `Vale`: not that the instance is the
  same, since a socket dies without a word); only an instance that is open, or was until its socket
  died, has a phone (`TelefoneSoAberta`); and a channel without a session has nothing on its way (`SemConexao`).
* **`ColegasProofs`**: for `Agenda`, `TipoDaAgenda` and `AgendaSempreConfere`. The invariant adds to
  the property that a request about to write meets only appointments that crossed its check
  (`Conferidos`), that a round about to make a reminder already made, or made by another round, is
  known (`FeitoUmaVez`), that reminders are numbered in the order of their commits (`Numerados`), and
  that an appointment whose rounds are over is made, awaited by a round or excused (`Alcancados`). For
  `ChatInterno`, `TipoDoChatInterno` and `ConversaSempreConfere`: a conversation is opened by one
  request at a time and before its messages (`Abertura`), and for a side whose readings and messages
  did not cross, the number on its badge and the notices on their way add up to the messages it has
  not read (`Contagem`, about cardinalities of subsets of the conversation's indices).
* **`CadastrosProofs`**: for `Presenca`, `TipoDaPresenca` and `PresencaSempreConfere` (both maps hold
  the same sockets, and an announced absence is undone only by another tab); for `Sessoes`,
  `TipoDasSessoes`, `SessaoVelhaSempreCorreu`, `TrocadoSempreDuplicado` and `SoACopiaFazRecuar` (a row
  with an old password is marked late from its request on; a signed text has at most one owner
  unless its second signed two); for `Links`, `TipoDosLinks`, `DoisServemSoSobrepostos`, `UmNovoServe`
  and `LinkSempreGastoPorCorrida` (an opened link was good when it was opened, and a dead one had
  been overtaken); for `Acessos`, `TipoDosAcessos`, `CacheSempreAtrasaAValidade` and
  `ExcluidoSempreDeQuemFoiEscrito` (an answer carries the age with which it will be cached); for
  `Conexoes`, `TipoDasConexoes` and `FaltamSempreSoAsDeUsuarios` (free clients, clients to be given
  back, transactions opened and the one of `SupportsService` add up to the pool; the sum over the
  calls is the cardinalities of two sets, those that give back one client and those that give two);
  for `Midias`, `TipoDasMidias` and `AnexoSoSomePorEdicao`: a key is given once (`ChavesDadas`), so
  that the copy of a message and the upload of a form are nobody else's (`CopiaSeparada`,
  `EnvioSeparado`); and the file of a row that was not removed is in the storage, unless the property
  excepts what happened or the edition that took it away is about to write (`RemovidoFica`, `TemOuTroca`).
  `EnvioSempreSomeVelho` is the other half: the file of a message that was sent is gone only because
  the retention took it when old; no two messages share a key (`CopiaUnica`), and the batch holds
  old messages whose key is still written, and marks one only after its deletion (`LoteVencido`).

The inductive invariants were run through TLC as invariants of the instances before they were proved.

Only model-checked: liveness (`RespostaRetomada`, `PrazoRetomado`, `ChatLiberado`,
`InicioRecuperado`, `Registrada`, `VencidaExpira`, `TodaChamadaAcaba`), out of the prover's reach
under fairness; the migrations, entities and routes (`EsquemaDoNivel`, `ReversaoSoParaNaAgenda`,
`AplicacaoServida`), which are closed data without a parameter, so that TLC's run over all of them is
the proof; and the findings. Every other property of a passing run is a theorem.

## 6. Findings

Each is a run that TLC must find violated, and its property states what a comment, message or
test of the repository says.

| run | what happens |
|---|---|
| `uma_aberta` | webhook and manual start both search, then both insert: two open chats of one contact |
| `motor_resposta` | the renewal of the deadline bumps `version` outside the chat's lock, so that a reply read before it is dropped and the no-reply branch is taken |
| `aviso_previo` | the minutes count from the last message whatever pause or queue lay in between, and a paused chat is not scanned: after a pause longer than the limit, the next scan closes the chat the attendant has just resumed, with no warning |
| `sonda` | editions of users keep a client of the pool each; when they have taken all, the health probe fails though the database answers |

Seen while modelling and allowed by the models, without a run of their own:

* permissions: a chat that another request moves to a department between the guard's read
  (`acesso-atendimento.service.ts:41`) and the handler's (`support-chats.service.ts:1695`) is taken by
  an attendant who is not cleared for it, since the UPDATE compares with the second; so is one that its
  own owner gave up in between. The UPDATE of a discard compares no department at all;
* chats: a chat paused between the inactivity scan and its UPDATE is closed while paused;
  `finalizar`'s WHERE has no owner, so after a transfer in between the former owner closes the chat;
  `retomar`'s WHERE lacks the `user_id` that `pausar`'s has; the release of a chat held by an *entry*
  flow is not retried after a crash (the exit flow's is), nor is an entry flow started whose
  enqueueing was lost;
* messages: undoing the last reaction changes nothing, since the merge takes the empty map for "not
  given"; two webhooks of one conversation in one millisecond have one job key; a send later than
  its echo's acks writes `ACK_PENDING` over them; an edit, reaction or revocation read before a
  hiding and compared after it un-hides the message; an edit of a message of a closed chat is lost;
* internal chat: the loser of two simultaneous first messages is refused by the unique index, and
  its second search by the aborted transaction, so that its message fails where the comment of
  `internal-chats.repository` says the search finds the conversation;
* sessions: a whole-row save of a user undoes a reset or a removal committed in between; two tokens
  of one second are the same text;
* channel: two first connections name two sessions, and one instance is left at the provider; a
  close or a consultation writes over a newer webhook; after a close of a dead socket the row says
  disconnected and the provider open, until a connection or a consultation writes "connected" again,
  without the phone; a removed channel keeps its status, so that `findActives`, whose
  `deleted_at: null` TypeORM ignores (`channels.repository.ts:15`), still lists it;
* attachments: the old file is deleted before the transaction that forgets it; a full batch of
  refused deletions is fetched again for ever;
* presence: a tab opened while its user is away leaves the others' lists at "away" until the next
  change; a socket closed during its handshake stays counted;
* agenda: overlapping rounds insert a reminder twice; saving an appointment removed meanwhile
  brings it back; on a new installation the first correction of the agenda cannot be reverted.

## 7. What is not modelled

Inside modelled components: the walk over the flow's graph (budget, call stack, node handlers) is
one choice of outcome; the several messages of one step are one; a job dropped after its three
attempts; a reply sent before the question of its step was seen; row-lock order (PostgreSQL's
deadlocks) in `Atendimento`; a message that arrives more than half a minute late for the inactivity
scan, and several channels in one run of it, whose times do not change while it runs; changes of an
attendant's departments and permissions while a request is under way; tags, notes, unread counts, previews and
listings of chats; permissions given to a user directly; access tokens and cookies; the texts and
switches of the registrations. The provider, the bucket, the mail server and PostgreSQL are modelled
as the code uses them. Outside: see the table of section 1 and the notes of the components in
`PROJECT.json`: independent rows whose every operation reads or writes one of them (contacts,
clients, tags, custom fields, settings, alerts), read-only reports, and pure I/O.

## 8. Plan

1. `Disponibilidade` – opening hours, exceptions and holidays against a reference definition, over
   bounded calendars.
2. `FluxoGrafo` – the walk as a recursive function: budget, call stack; refines the choice of
   `RunLoop` and `ExecutarPasso`.
3. `Contatos` – search, import and edition found or created by number.
4. `MotorChatbot` and `Atendimento` both implement `Conducao`, which is what each relies on from
   the other. What is left is to map the worker's stages of `MotorChatbot` to the worker's actions of
   `Atendimento` one by one: the first has the order of the messages, the second the departments.
