------------------------------- MODULE Canal -------------------------------
(***************************************************************************)
(* The WhatsApp connection of one channel: the commands an operator gives  *)
(* (channels.service, whatsapp.service, evolution.provider), the session   *)
(* webhooks and the worker that applies them (whatsapp-session.processor). *)
(* The row of the channel keeps what the last of them wrote; the provider  *)
(* keeps the instance.  Every handler reads the row, calls the provider    *)
(* and then writes, and nothing locks the row.                             *)
(*                                                                         *)
(* The provider is external: an instance per session, which a phone pairs  *)
(* with and which closes when the phone says so, or loses its socket and   *)
(* does not notice.  Its webhooks may be lost and a job that failed is     *)
(* retried after the jobs behind it.                                       *)
(***************************************************************************)
EXTENDS Naturals, Sequences, FiniteSets

CONSTANTS Operadores,   \* people who may configure channels
          Telefones,    \* phones that may be paired
          Inicios,      \* bound: sessions named and connections started
          Pedidos,      \* bound: requests of the operators
          Quedas,       \* bound: times a phone closes the connection or a socket dies
          Perdas,       \* bound: webhooks lost and jobs put back
          Nenhum        \* no phone, no row

VARIABLES canal,      \* the row: [status, sessao, qr, codigo, telefone, removido]
          instancia,  \* session -> [estado, codigo, telefone], the provider's side
          fila,       \* whatsapp-session-queue
          trabalho,   \* the job the worker has: [pc, ev, lido]
          comando,    \* what each operator's request is doing
          inicios, pedidos, quedas, perdas,
          atropelos   \* (history) why the row may be wrong: see below

varsCanal == <<canal, instancia, fila, trabalho, comando, inicios, pedidos, quedas, perdas, atropelos>>

ASSUME CanalAssumption == {Inicios, Pedidos, Quedas, Perdas} \subseteq Nat /\ Nenhum \notin Telefones

\* A session is the number of the connection that named it; a code, of the one that
\* asked for it.
Sessoes == 1..Inicios
SemInstancia == [estado |-> "inexistente", codigo |-> 0, telefone |-> Nenhum]
SemTrabalho == [pc |-> "livre", ev |-> Nenhum, lido |-> Nenhum]
SemComando == [tipo |-> "nenhum", pc |-> "fora", lido |-> Nenhum, numero |-> FALSE,
               sessao |-> 0, resp |-> Nenhum, atraso |-> FALSE]

InitCanal ==
    /\ canal = [status |-> "DISCONNECTED", sessao |-> 0, qr |-> FALSE, codigo |-> 0,
                telefone |-> Nenhum, removido |-> FALSE]
    /\ instancia = [s \in Sessoes |-> SemInstancia]
    /\ fila = <<>>
    /\ trabalho = SemTrabalho
    /\ comando = [o \in Operadores |-> SemComando]
    /\ inicios = 0 /\ pedidos = 0 /\ quedas = 0 /\ perdas = 0
    /\ atropelos = {}

(***************************************************************************)
(* The provider.  An instance without socket is one it reports open and    *)
(* can do nothing with: the device was removed or the pairing dropped.     *)
(***************************************************************************)
EstadoReal(i) ==
    CASE i.estado \in {"open", "semSocket"} -> "CONNECTED"
      [] i.estado = "connecting" -> "CONNECTING"
      [] OTHER -> "DISCONNECTED"

\* requestDisconnection finds nothing to end: the logout answers 404 or "Connection Closed".
JaSemConexao(i) == i.estado \in {"inexistente", "semSocket"}

Evento(tipo, s, i) == [tipo |-> tipo, sessao |-> s, codigo |-> i.codigo, telefone |-> i.telefone]

\* The instance changes and says so.  A webhook is accepted if some channel has the
\* session; it may be lost on the way.
Avisa(tipo, s, i) ==
    /\ instancia' = [instancia EXCEPT ![s] = i]
    /\ \/ fila' = (IF canal.sessao = s THEN Append(fila, Evento(tipo, s, i)) ELSE fila)
          /\ UNCHANGED <<perdas, atropelos>>
       \/ /\ perdas < Perdas
          /\ perdas' = perdas + 1 /\ atropelos' = atropelos \cup {"perda"}
          /\ UNCHANGED fila

\* The requests whose answer is older than what the instance became.
Atrasa(s) == [o \in Operadores |->
    IF comando[o].pc = "grava" /\ comando[o].sessao = s THEN [comando[o] EXCEPT !.atraso = TRUE]
    ELSE comando[o]]

\* A phone reads the QR code or takes the pairing code.
Pareia(s, t) ==
    /\ instancia[s].estado = "connecting"
    /\ Avisa("READY", s, [estado |-> "open", codigo |-> 0, telefone |-> t])
    /\ comando' = Atrasa(s)
    /\ UNCHANGED <<canal, trabalho, inicios, pedidos, quedas>>

Fechada == [SemInstancia EXCEPT !.estado = "close"]

\* The phone removes the device, the provider's attempt expires, or it notices at last
\* that the socket is dead.
CaiInstancia(s) ==
    /\ quedas < Quedas
    /\ instancia[s].estado \in {"connecting", "open", "semSocket"}
    /\ quedas' = quedas + 1
    /\ Avisa("DISCONNECTED", s, Fechada)
    /\ comando' = Atrasa(s)
    /\ UNCHANGED <<canal, trabalho, inicios, pedidos>>

\* The socket dies and the provider goes on reporting the instance open: no webhook.
MorreSocket(s) ==
    /\ quedas < Quedas
    /\ instancia[s].estado = "open"
    /\ quedas' = quedas + 1
    /\ instancia' = [instancia EXCEPT ![s].estado = "semSocket"]
    /\ UNCHANGED <<canal, fila, trabalho, comando, inicios, pedidos, perdas, atropelos>>

(***************************************************************************)
(* The worker: one job at a time                                           *)
(***************************************************************************)
PegaJob ==
    /\ trabalho = SemTrabalho /\ fila # <<>>
    /\ fila' = Tail(fila)
    /\ trabalho' = [pc |-> "grava", ev |-> Head(fila),
                    lido |-> IF Head(fila).sessao = canal.sessao THEN canal ELSE Nenhum]
    /\ UNCHANGED <<canal, instancia, comando, inicios, pedidos, quedas, perdas, atropelos>>

\* (mutant) A disconnection takes the codes and the phone away and leaves the status.
GuardaStatus(linha) ==
    [linha EXCEPT !.qr = FALSE, !.codigo = 0, !.telefone = Nenhum]

Desconectado(linha) ==
    [linha EXCEPT !.status = "DISCONNECTED", !.qr = FALSE, !.codigo = 0, !.telefone = Nenhum]

\* Once the channel has a code, a renewal of the QR code does not change it.
CodigoMantido(lido, ev) == IF lido.codigo # 0 THEN lido.codigo ELSE ev.codigo

TelefoneLido(lido, ev) == IF lido.telefone # Nenhum THEN lido.telefone ELSE ev.telefone

\* handleQrCodeReceived, handleChannelReady, handleChannelDisconnected.
Aplicado(linha, lido, ev) ==
    CASE ev.tipo = "QR_RECEIVED" ->
            [linha EXCEPT !.status = "CONNECTING", !.qr = TRUE, !.codigo = CodigoMantido(lido, ev)]
      [] ev.tipo = "READY" ->
            [linha EXCEPT !.status = "CONNECTED", !.qr = FALSE, !.codigo = 0,
                          !.telefone = TelefoneLido(lido, ev)]
      [] ev.tipo = "DISCONNECTED" -> Desconectado(linha)

\* The channel is found by its session when the job begins and written by its id.
ConcluiJob ==
    /\ trabalho.pc = "grava"
    /\ trabalho' = SemTrabalho
    /\ canal' = IF trabalho.lido = Nenhum THEN canal ELSE Aplicado(canal, trabalho.lido, trabalho.ev)
    /\ UNCHANGED <<instancia, fila, comando, inicios, pedidos, quedas, perdas, atropelos>>

\* The write fails: the job waits 200 ms or more, and those behind it go ahead.  After
\* the third time it is dropped.
FalhaJob ==
    /\ trabalho.pc = "grava" /\ perdas < Perdas
    /\ trabalho' = SemTrabalho
    /\ fila' \in {fila, Append(fila, trabalho.ev)}
    /\ perdas' = perdas + 1 /\ atropelos' = atropelos \cup {"perda"}
    /\ UNCHANGED <<canal, instancia, comando, inicios, pedidos, quedas>>

(***************************************************************************)
(* startSession                                                            *)
(***************************************************************************)
Larga(o) == comando' = [comando EXCEPT ![o] = SemComando]

\* findChannel also finds a removed channel.
Pede(o, tipo, numero) ==
    /\ comando[o] = SemComando /\ pedidos < Pedidos
    /\ pedidos' = pedidos + 1
    /\ comando' = [comando EXCEPT ![o] = [SemComando EXCEPT
            !.tipo = tipo, !.pc = "pede", !.lido = canal, !.numero = numero, !.sessao = canal.sessao]]
    /\ UNCHANGED <<canal, instancia, fila, trabalho, inicios, quedas, perdas, atropelos>>

\* (mutant) Every connection names a session of its own.
SempreNomeia(c) == c.sessao = c.lido.sessao

\* The request that finds no session names one.
FaltaSessao(c) == c.sessao = 0

\* The first connection of a channel names its session, and reads back what is there.
NomeiaSessao(o) ==
    /\ comando[o].tipo = "start" /\ comando[o].pc = "pede" /\ FaltaSessao(comando[o])
    /\ inicios < Inicios
    /\ inicios' = inicios + 1
    /\ canal' = [canal EXCEPT !.sessao = inicios + 1]
    /\ comando' = [comando EXCEPT ![o].sessao = inicios + 1]
    /\ atropelos' = IF canal.sessao # comando[o].lido.sessao THEN atropelos \cup {"sessao"} ELSE atropelos
    /\ UNCHANGED <<instancia, fila, trabalho, pedidos, quedas, perdas>>

RelefSessao(o) ==
    /\ comando[o].tipo = "start" /\ comando[o].pc = "pede" /\ comando[o].sessao # canal.sessao
    /\ comando[o].lido.sessao = 0 /\ comando[o].sessao # 0 /\ canal.sessao # 0
    /\ comando' = [comando EXCEPT ![o].sessao = canal.sessao]
    /\ UNCHANGED <<canal, instancia, fila, trabalho, inicios, pedidos, quedas, perdas, atropelos>>

\* A code was asked for while an attempt was under way: the attempt is ended first.
DerrubaTentativa(o) ==
    LET c == comando[o]
        s == c.sessao
        segue == [c EXCEPT !.pc = "conecta"]
    IN /\ c.tipo = "start" /\ c.pc = "pede" /\ s # 0
       /\ c.numero /\ c.lido.status = "CONNECTING"
       /\ IF s # canal.sessao \/ instancia[s].estado = "close"
          THEN Larga(o) /\ UNCHANGED <<instancia, fila, perdas, atropelos>>     \* an error
          ELSE IF JaSemConexao(instancia[s])
          THEN /\ comando' = [comando EXCEPT ![o] = segue]
               /\ UNCHANGED <<instancia, fila, perdas, atropelos>>
          ELSE /\ Avisa("DISCONNECTED", s, Fechada)
               /\ comando' = [Atrasa(s) EXCEPT ![o] = segue]
       /\ UNCHANGED <<canal, trabalho, inicios, pedidos, quedas>>

\* requestConnection: creates the instance, connects it, or finds it open.  A code is
\* given only to an attempt that begins.  A session no channel has is an error.
Conecta(o) ==
    LET c == comando[o]
        s == c.sessao
        i == instancia[s]
        novo == [estado |-> "connecting", codigo |-> IF c.numero THEN inicios + 1 ELSE 0,
                 telefone |-> Nenhum]
    IN /\ c.tipo = "start" /\ s # 0
       /\ \/ c.pc = "conecta"
          \/ c.pc = "pede" /\ ~(c.numero /\ c.lido.status = "CONNECTING")
       /\ \/ /\ s # canal.sessao
             /\ Larga(o)
             /\ UNCHANGED <<instancia, fila, inicios, perdas, atropelos>>
          \/ /\ s = canal.sessao /\ i.estado \in {"inexistente", "close"}
             /\ inicios < Inicios
             /\ inicios' = inicios + 1
             /\ Avisa("QR_RECEIVED", s, novo)
             /\ comando' = [Atrasa(s) EXCEPT ![o] = [c EXCEPT !.pc = "grava", !.resp = novo]]
          \/ /\ s = canal.sessao /\ i.estado \in {"connecting", "open", "semSocket"}
             /\ comando' = [comando EXCEPT ![o] = [c EXCEPT !.pc = "grava", !.resp = i]]
             /\ UNCHANGED <<instancia, fila, inicios, perdas, atropelos>>
       /\ UNCHANGED <<canal, trabalho, pedidos, quedas>>

\* A write that ignores what happened to the instance since it answered.
Registra(o) ==
    atropelos' = IF comando[o].atraso THEN atropelos \cup {"atraso"} ELSE atropelos

GravaInicio(o) ==
    LET c == comando[o]
    IN /\ c.tipo = "start" /\ c.pc = "grava"
       /\ canal' = IF EstadoReal(c.resp) = "CONNECTED"
                   THEN [canal EXCEPT !.status = "CONNECTED", !.qr = FALSE, !.codigo = 0]
                   ELSE [canal EXCEPT !.status = "CONNECTING", !.qr = TRUE, !.codigo = c.resp.codigo]
       /\ Registra(o)
       /\ Larga(o)
       /\ UNCHANGED <<instancia, fila, trabalho, inicios, pedidos, quedas, perdas>>

(***************************************************************************)
(* closeSession, restartSession, sincronizarStatus, removeChannel          *)
(***************************************************************************)
\* Logging out an instance leaves the row to the webhook.  Where there was nothing to end
\* no webhook will come, and the row is put right here; a closed instance is an error.
EncerraSessao(o) ==
    LET c == comando[o]
        s == c.sessao
    IN /\ c.tipo = "close" /\ c.pc = "pede"
       /\ IF s = 0 \/ s # canal.sessao \/ instancia[s].estado = "close"
          THEN Larga(o) /\ UNCHANGED <<instancia, fila, perdas, atropelos>>
          ELSE IF JaSemConexao(instancia[s])
          THEN /\ comando' = [comando EXCEPT ![o].pc = "grava"]
               /\ UNCHANGED <<instancia, fila, perdas, atropelos>>
          ELSE /\ Avisa("DISCONNECTED", s, Fechada)
               /\ comando' = [Atrasa(s) EXCEPT ![o] = SemComando]
       /\ UNCHANGED <<canal, trabalho, inicios, pedidos, quedas>>

GravaEncerramento(o) ==
    /\ comando[o].tipo = "close" /\ comando[o].pc = "grava"
    /\ canal' = Desconectado(canal)
    /\ Registra(o)
    /\ Larga(o)
    /\ UNCHANGED <<instancia, fila, trabalho, inicios, pedidos, quedas, perdas>>

\* Only a connected channel restarts.  The instance comes back open, with its phone; one
\* without socket may also close, or refuse.
Reinicia(o) ==
    LET c == comando[o]
        s == c.sessao
        i == instancia[s]
        aceita == s # 0 /\ s = canal.sessao /\ c.lido.status = "CONNECTED"
    IN /\ c.tipo = "restart" /\ c.pc = "pede"
       /\ \/ /\ aceita /\ i.estado = "open"
             /\ Avisa("READY", s, i)
             /\ Larga(o)
          \/ /\ aceita /\ i.estado = "semSocket"
             /\ \/ Avisa("READY", s, [i EXCEPT !.estado = "open"])
                \/ Avisa("DISCONNECTED", s, Fechada)
             /\ comando' = [Atrasa(s) EXCEPT ![o] = SemComando]
          \/ /\ aceita => i.estado # "open"
             /\ Larga(o) /\ UNCHANGED <<instancia, fila, perdas, atropelos>>
       /\ UNCHANGED <<canal, trabalho, inicios, pedidos, quedas>>

Consulta(o) ==
    LET c == comando[o]
    IN /\ c.tipo = "sync" /\ c.pc = "pede"
       /\ IF c.sessao = 0 \/ c.sessao # canal.sessao
             \/ EstadoReal(instancia[c.sessao]) = c.lido.status
          THEN Larga(o)
          ELSE comando' = [comando EXCEPT ![o] = [c EXCEPT !.pc = "grava", !.resp = instancia[c.sessao]]]
       /\ UNCHANGED <<canal, instancia, fila, trabalho, inicios, pedidos, quedas, perdas, atropelos>>

GravaConsulta(o) ==
    LET real == EstadoReal(comando[o].resp)
    IN /\ comando[o].tipo = "sync" /\ comando[o].pc = "grava"
       /\ canal' = IF real = "CONNECTED" THEN [canal EXCEPT !.status = real]
                   ELSE [canal EXCEPT !.status = real, !.qr = FALSE, !.codigo = 0]
       /\ Registra(o)
       /\ Larga(o)
       /\ UNCHANGED <<instancia, fila, trabalho, inicios, pedidos, quedas, perdas>>

\* The whole row that was read is saved, as removed.  The status DELETED is set beside the
\* loaded relation, which is what is written: the status stays the one that was read.  The
\* instance stays as it is.
Remove(o) ==
    LET lido == comando[o].lido
    IN /\ comando[o].tipo = "remove" /\ comando[o].pc = "pede"
       /\ canal' = [lido EXCEPT !.removido = TRUE]
       /\ atropelos' = atropelos \cup (IF lido.sessao # canal.sessao THEN {"sessao"} ELSE {})
       /\ Larga(o)
       /\ UNCHANGED <<instancia, fila, trabalho, inicios, pedidos, quedas, perdas>>

-----------------------------------------------------------------------------
NextCanal ==
    \/ \E s \in Sessoes : CaiInstancia(s) \/ MorreSocket(s) \/ \E t \in Telefones : Pareia(s, t)
    \/ PegaJob \/ ConcluiJob \/ FalhaJob
    \/ \E o \in Operadores :
          \/ \E n \in BOOLEAN : Pede(o, "start", n)
          \/ \E tipo \in {"close", "restart", "sync", "remove"} : Pede(o, tipo, FALSE)
          \/ NomeiaSessao(o) \/ RelefSessao(o) \/ DerrubaTentativa(o) \/ Conecta(o) \/ GravaInicio(o)
          \/ EncerraSessao(o) \/ GravaEncerramento(o) \/ Reinicia(o)
          \/ Consulta(o) \/ GravaConsulta(o) \/ Remove(o)

SpecCanal == InitCanal /\ [][NextCanal]_varsCanal

-----------------------------------------------------------------------------
\* The typing of the state: a request that is under way has the row it read, one that is
\* about to write the answer it got.
StatusDoCanal == {"DISCONNECTED", "CONNECTING", "CONNECTED"}
Codigos == 0..Inicios
LinhaDoCanal == [status : StatusDoCanal, sessao : {0} \cup Sessoes, qr : BOOLEAN, codigo : Codigos,
          telefone : Telefones \cup {Nenhum}, removido : BOOLEAN]
\* What a job has in place of the row it did not find is no row.
ASSUME LinhaAssumption == Nenhum \notin LinhaDoCanal

Instancia == [estado : {"inexistente", "close", "connecting", "open", "semSocket"}, codigo : Codigos,
              telefone : Telefones \cup {Nenhum}]
EventoDaSessao == [tipo : {"QR_RECEIVED", "READY", "DISCONNECTED"}, sessao : Sessoes, codigo : Codigos,
                   telefone : Telefones \cup {Nenhum}]
Trabalho == [pc : {"livre", "grava"}, ev : EventoDaSessao \cup {Nenhum}, lido : LinhaDoCanal \cup {Nenhum}]
Comando == [tipo : {"nenhum", "start", "close", "restart", "sync", "remove"},
            pc : {"fora", "pede", "conecta", "grava"}, lido : LinhaDoCanal \cup {Nenhum}, numero : BOOLEAN,
            sessao : {0} \cup Sessoes, resp : Instancia \cup {Nenhum}, atraso : BOOLEAN]

TypeOKCanal ==
    /\ canal \in LinhaDoCanal
    /\ instancia \in [Sessoes -> Instancia]
    /\ fila \in Seq(EventoDaSessao)
    /\ trabalho \in Trabalho /\ (trabalho.pc = "grava" => trabalho.ev \in EventoDaSessao)
    /\ comando \in [Operadores -> Comando]
    /\ \A o \in Operadores :
          /\ comando[o].pc # "fora" => comando[o].lido \in LinhaDoCanal
          /\ comando[o].pc = "grava" /\ comando[o].tipo \in {"start", "sync"} => comando[o].resp \in Instancia
    /\ inicios \in 0..Inicios /\ pedidos \in 0..Pedidos /\ quedas \in 0..Quedas /\ perdas \in 0..Perdas
    /\ atropelos \subseteq {"perda", "atraso", "sessao"}

EmRepouso == /\ fila = <<>> /\ trabalho = SemTrabalho
          /\ \A o \in Operadores : comando[o].pc # "grava"

(***************************************************************************)
(* When no webhook is on its way, the row says of the connection what the  *)
(* provider says, and of an open one the phone it has.  Of a dead socket   *)
(* the provider is wrong: there the row says connected, as the provider    *)
(* does, or disconnected, once somebody closed the session.  What may have *)
(* gone wrong otherwise is a webhook lost or out of its turn, a request    *)
(* that wrote an answer older than the last webhook, a session replaced by *)
(* that of another request, or the removal of the channel.                 *)
(***************************************************************************)
QuietoEstaCerto ==
    EmRepouso /\ canal.sessao # 0 /\ ~canal.removido /\ atropelos = {} =>
        LET i == instancia[canal.sessao]
            dizDesligado == i.estado = "semSocket" /\ canal.status = "DISCONNECTED"
        IN /\ canal.status = EstadoReal(i) \/ dizDesligado
           /\ i.estado = "open" => canal.telefone = i.telefone
           /\ i.estado = "semSocket" => canal.telefone \in {i.telefone, Nenhum}

(***************************************************************************)
(* Each instance at the provider is the one of the channel: one is left    *)
(* there, with nobody to close it, only where two requests named the       *)
(* session at once, or a removal saved the row as it was before.           *)
(***************************************************************************)
InstanciaSoDoCanal ==
    "sessao" \notin atropelos =>
        \A s \in Sessoes : instancia[s] # SemInstancia => s = canal.sessao

=============================================================================
