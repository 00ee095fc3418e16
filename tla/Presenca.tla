------------------------------ MODULE Presenca ------------------------------
(***************************************************************************)
(* Who is online, away or offline (presenca.service) as the gateway keeps  *)
(* it from its sockets and tells the colleagues (whatsapp.gateway).  A     *)
(* connection is accepted only after the user has been read from the       *)
(* database, and its socket may close meanwhile.  Everything is in memory: *)
(* a restart begins anew.                                                  *)
(***************************************************************************)
EXTENDS Naturals, FiniteSets

CONSTANTS Pessoas, Sockets,
          MaxConexao       \* bound: connections ever opened

VARIABLES rede,            \* socket -> "livre", "aberto", "fechado": the socket itself
          deQuem,          \* socket -> the user of its token
          aperto,          \* sockets whose handshake waits for validateUser
          clients,         \* sockets the gateway knows the user of
          socketsPorUsuario,
          parado,          \* users whose last activity is MINUTOS_ATE_AUSENTE old
          ausentesAvisados,
          tela,            \* user -> what a colleague's screen shows
          conexoes,
          reabriu,         \* (history) users who opened another tab while away
          cairamCedo       \* (history) sockets that closed during their handshake

varsPresenca == <<rede, deQuem, aperto, clients, socketsPorUsuario, parado, ausentesAvisados,
                  tela, conexoes, reabriu, cairamCedo>>

InitPresenca ==
    /\ rede = [s \in Sockets |-> "livre"]
    /\ deQuem \in [Sockets -> Pessoas]
    /\ aperto = {} /\ clients = {}
    /\ socketsPorUsuario = [u \in Pessoas |-> {}]
    /\ parado = {} /\ ausentesAvisados = {}
    /\ tela = [u \in Pessoas |-> "offline"]
    /\ conexoes = 0
    /\ reabriu = {} /\ cairamCedo = {}

\* estado(userId)
Estado(u) == IF socketsPorUsuario[u] = {} THEN "offline"
             ELSE IF u \in parado THEN "ausente" ELSE "online"

\* The gateway tells everybody: emitirPresenca.
Emite(u, estado) == tela' = [tela EXCEPT ![u] = estado]

\* A user is no longer one who was announced away.
Esquece(u) == ausentesAvisados' = ausentesAvisados \ {u} /\ reabriu' = reabriu \ {u}

\* A browser opens a socket; handleConnection verifies the token and reads the user.
Abre(s) ==
    /\ rede[s] = "livre" /\ conexoes < MaxConexao
    /\ conexoes' = conexoes + 1
    /\ rede' = [rede EXCEPT ![s] = "aberto"]
    /\ aperto' = aperto \cup {s}
    /\ UNCHANGED <<deQuem, clients, socketsPorUsuario, parado, ausentesAvisados, tela, reabriu, cairamCedo>>

\* validateUser answered: the socket is registered.  Only the first of a user is told.
Conecta(s) ==
    LET u == deQuem[s]
        primeiro == socketsPorUsuario[u] = {}
    IN /\ s \in aperto
       /\ aperto' = aperto \ {s}
       /\ clients' = clients \cup {s}
       /\ socketsPorUsuario' = [socketsPorUsuario EXCEPT ![u] = @ \cup {s}]
       /\ parado' = parado \ {u}
       /\ IF primeiro THEN Esquece(u) /\ Emite(u, "online")
          ELSE /\ reabriu' = IF Estado(u) = "ausente" THEN reabriu \cup {u} ELSE reabriu
               /\ UNCHANGED <<ausentesAvisados, tela>>
       /\ cairamCedo' = IF rede[s] = "fechado" THEN cairamCedo \cup {s} ELSE cairamCedo
       /\ UNCHANGED <<rede, deQuem, conexoes>>

\* validateUser refused, or failed.
Rejeita(s) ==
    /\ s \in aperto
    /\ aperto' = aperto \ {s}
    /\ rede' = [rede EXCEPT ![s] = "livre"]
    /\ UNCHANGED <<deQuem, clients, socketsPorUsuario, parado, ausentesAvisados, tela, conexoes, reabriu, cairamCedo>>

\* desconectou
Restantes(u, s) == socketsPorUsuario[u] \ {s}

\* handleDisconnect: nothing is known yet of a socket whose handshake waits.
Fecha(s) ==
    LET u == deQuem[s]
    IN /\ rede[s] = "aberto"
       /\ rede' = [rede EXCEPT ![s] = IF s \in aperto THEN "fechado" ELSE "livre"]
       /\ clients' = clients \ {s}
       /\ IF s \notin clients
          THEN UNCHANGED <<socketsPorUsuario, parado, ausentesAvisados, tela, reabriu>>
          ELSE /\ socketsPorUsuario' = [socketsPorUsuario EXCEPT ![u] = Restantes(u, s)]
               /\ IF Restantes(u, s) = {}
                  THEN Esquece(u) /\ Emite(u, "offline") /\ parado' = parado \ {u}
                  ELSE UNCHANGED <<parado, ausentesAvisados, tela, reabriu>>
       /\ UNCHANGED <<deQuem, aperto, conexoes, cairamCedo>>

\* (mutant) A user who is back stays among those announced away.
SegueAvisado(u) == UNCHANGED <<ausentesAvisados, reabriu>>

\* Back from away, the user may be announced away again.
DeixaDeEstarAvisado(u) == Esquece(u)

\* handleAtividade: only a return from away is told.
Atividade(s) ==
    LET u == deQuem[s]
    IN /\ s \in clients /\ rede[s] = "aberto"
       /\ parado' = parado \ {u}
       /\ IF Estado(u) = "ausente" THEN DeixaDeEstarAvisado(u) /\ Emite(u, "online")
          ELSE UNCHANGED <<ausentesAvisados, tela, reabriu>>
       /\ UNCHANGED <<rede, deQuem, aperto, clients, socketsPorUsuario, conexoes, cairamCedo>>

\* The limit of minutes goes by.
FicaParado(u) ==
    /\ socketsPorUsuario[u] # {} /\ u \notin parado
    /\ parado' = parado \cup {u}
    /\ UNCHANGED <<rede, deQuem, aperto, clients, socketsPorUsuario, ausentesAvisados, tela,
                   conexoes, reabriu, cairamCedo>>

\* ausentesDesdeAUltimaVerificacao
NovosAusentes == {u \in Pessoas : Estado(u) = "ausente"} \ ausentesAvisados

\* verificarAusentes, every minute.
VerificaAusentes ==
    /\ NovosAusentes # {}
    /\ ausentesAvisados' = ausentesAvisados \cup NovosAusentes
    /\ tela' = [u \in Pessoas |-> IF u \in NovosAusentes THEN "ausente" ELSE tela[u]]
    /\ reabriu' = reabriu \ NovosAusentes
    /\ UNCHANGED <<rede, deQuem, aperto, clients, socketsPorUsuario, parado, conexoes, cairamCedo>>

\* The colleague reloads the page, and gets estadosAtuais.
RecarregaTela ==
    /\ tela' = [u \in Pessoas |-> Estado(u)]
    /\ UNCHANGED <<rede, deQuem, aperto, clients, socketsPorUsuario, parado, ausentesAvisados,
                   conexoes, reabriu, cairamCedo>>

NextPresenca ==
    \/ \E s \in Sockets : Abre(s) \/ Conecta(s) \/ Rejeita(s) \/ Fecha(s) \/ Atividade(s)
    \/ \E u \in Pessoas : FicaParado(u)
    \/ VerificaAusentes \/ RecarregaTela

SpecPresenca == InitPresenca /\ [][NextPresenca]_varsPresenca

-----------------------------------------------------------------------------
\* The typing of the state.
TypeOKPresenca ==
    /\ rede \in [Sockets -> {"livre", "aberto", "fechado"}]
    /\ deQuem \in [Sockets -> Pessoas]
    /\ aperto \subseteq Sockets /\ clients \subseteq Sockets /\ cairamCedo \subseteq Sockets
    /\ socketsPorUsuario \in [Pessoas -> SUBSET Sockets]
    /\ tela \in [Pessoas -> {"offline", "ausente", "online"}]
    /\ parado \subseteq Pessoas /\ ausentesAvisados \subseteq Pessoas /\ reabriu \subseteq Pessoas
    /\ conexoes \in Nat

(***************************************************************************)
(* What the colleagues see is what the server holds, but for the minute    *)
(* until the next look at the absent: a screen stays wrong only while a    *)
(* user opened another tab while away, which tells nobody and, after the   *)
(* absence was told, lets no later absence be told.                        *)
(***************************************************************************)
TelaErraSoComOutraAba ==
    \A u \in Pessoas \ NovosAusentes : tela[u] = Estado(u) \/ u \in reabriu

(***************************************************************************)
(* What the server holds are the accepted sockets that are open: one is    *)
(* kept for ever only if it closed while its handshake waited.             *)
(***************************************************************************)
FantasmaSoDoAperto ==
    /\ \A u \in Pessoas : \A s \in socketsPorUsuario[u] : rede[s] = "aberto" \/ s \in cairamCedo
    /\ \A s \in clients : s \in socketsPorUsuario[deQuem[s]]

(***************************************************************************)
(* The list of colleagues tells who is there, with those two exceptions.   *)
(***************************************************************************)
PresencaConfere == TelaErraSoComOutraAba /\ FantasmaSoDoAperto
=============================================================================
