----------------------------- MODULE ChatInterno -----------------------------
(***************************************************************************)
(* The conversation of two colleagues (internal-chats): the first message  *)
(* opens it in its own transaction, the unique index of the pair keeps it  *)
(* one, the notices go out after the commit, and the reader marks as read  *)
(* what the other has sent.  Two requests run at once.                     *)
(*                                                                         *)
(* created_at is now(), the start of the transaction.  A statement that    *)
(* the unique index refuses ends the transaction for PostgreSQL: the       *)
(* findOne of the catch is refused as well, and the message is lost.       *)
(***************************************************************************)
EXTENDS Naturals, Sequences, FiniteSets

CONSTANTS Lados,           \* the two colleagues
          Envios,          \* requests that may send at once
          MaxMensagem,     \* bound: messages ever tried
          MaxQueda         \* bound: transactions that fail for another reason

VARIABLES aberta,          \* the instant the conversation was committed, 0 if never
          envio,           \* request -> [pc, autor, abriu, hora]
          mensagens,       \* committed messages, in the order of their commits
          last_message_at,
          leitura,         \* reader -> whether its marcarLidas still has to tell
          badge,           \* reader -> unread messages its screen counts
          relogio, tentadas, quedas,
          perdidas,        \* (history) created_at of the messages the index refused
          cruzou           \* (history) readers for whom a reading and a message crossed

varsChatInterno == <<aberta, envio, mensagens, last_message_at, leitura, badge, relogio,
                     tentadas, quedas, perdidas, cruzou>>

ASSUME ChatInternoAssumption == IsFiniteSet(Lados) /\ Cardinality(Lados) = 2 /\ MaxMensagem \in Nat /\ MaxQueda \in Nat

Outro(u) == CHOOSE v \in Lados : v # u
Livre == [pc |-> "fora", autor |-> CHOOSE u \in Lados : TRUE, abriu |-> FALSE, hora |-> 0]

InitChatInterno ==
    /\ aberta = 0 /\ mensagens = <<>> /\ last_message_at = 0
    /\ envio = [e \in Envios |-> Livre]
    /\ leitura = [u \in Lados |-> FALSE]
    /\ badge = [u \in Lados |-> 0]
    /\ relogio = 0 /\ tentadas = 0 /\ quedas = 0
    /\ perdidas = {} /\ cruzou = {}

\* The unread messages of a reader: marcarLidas, contarNaoLidasTotal.
PorLer(u) == {i \in DOMAIN mensagens : mensagens[i].de # u /\ ~mensagens[i].lida}

\* Messages committed whose notice to their reader is still to be sent.
AvisosPara(u) == {e \in Envios : envio[e].pc = "avisa" /\ envio[e].autor # u}

Passa(e, pc) == envio' = [envio EXCEPT ![e].pc = pc]

\* enviar opens its transaction.
ComecaEnvio(e, u) ==
    /\ envio[e].pc = "fora" /\ tentadas < MaxMensagem
    /\ tentadas' = tentadas + 1
    /\ relogio' = relogio + 1
    /\ envio' = [envio EXCEPT ![e] = [pc |-> "procura", autor |-> u, abriu |-> FALSE, hora |-> relogio + 1]]
    /\ UNCHANGED <<aberta, mensagens, last_message_at, leitura, badge, quedas, perdidas, cruzou>>

\* (mutant) The pair is looked for in the order of the sender: only who opened finds it.
SemOrdenarPar(e) == \E i \in DOMAIN mensagens : i = 1 /\ mensagens[i].de = envio[e].autor

\* findOrCreateConversa finds the pair, which ordenarPar puts in one order.
Achou(e) == aberta # 0

ProcuraConversa(e) ==
    /\ envio[e].pc = "procura"
    /\ Passa(e, IF Achou(e) THEN "grava" ELSE "insere")
    /\ UNCHANGED <<aberta, mensagens, last_message_at, leitura, badge, relogio, tentadas, quedas, perdidas, cruzou>>

\* The INSERT waits for one that has not been committed, and is refused by one that has.
InsereConversa(e) ==
    /\ envio[e].pc = "insere"
    /\ \A o \in Envios : ~envio[o].abriu
    /\ IF aberta = 0
       THEN /\ envio' = [envio EXCEPT ![e].pc = "grava", ![e].abriu = TRUE]
            /\ UNCHANGED perdidas
       ELSE /\ envio' = [envio EXCEPT ![e] = Livre]
            /\ perdidas' = perdidas \cup {envio[e].hora}
    /\ UNCHANGED <<aberta, mensagens, last_message_at, leitura, badge, relogio, tentadas, quedas, cruzou>>

\* The message, and the row of the conversation, whose lock lasts until the commit.
GravaMensagem(e) ==
    /\ envio[e].pc = "grava"
    /\ \A o \in Envios : envio[o].pc # "confirma"
    /\ Passa(e, "confirma")
    /\ UNCHANGED <<aberta, mensagens, last_message_at, leitura, badge, relogio, tentadas, quedas, perdidas, cruzou>>

ConfirmaEnvio(e) ==
    LET q == envio[e]
    IN /\ q.pc = "confirma"
       /\ relogio' = relogio + 1
       /\ aberta' = IF q.abriu THEN relogio + 1 ELSE aberta
       /\ mensagens' = Append(mensagens, [de |-> q.autor, hora |-> q.hora, lida |-> FALSE])
       /\ last_message_at' = q.hora
       /\ envio' = [envio EXCEPT ![e].pc = "avisa", ![e].abriu = FALSE]
       /\ cruzou' = IF leitura[Outro(q.autor)] THEN cruzou \cup {Outro(q.autor)} ELSE cruzou
       /\ UNCHANGED <<leitura, badge, tentadas, quedas, perdidas>>

\* emitToUser(interno:mensagem): the screen of the other counts one more.
AvisaMensagem(e) ==
    /\ envio[e].pc = "avisa"
    /\ badge' = [badge EXCEPT ![Outro(envio[e].autor)] = @ + 1]
    /\ envio' = [envio EXCEPT ![e] = Livre]
    /\ UNCHANGED <<aberta, mensagens, last_message_at, leitura, relogio, tentadas, quedas, perdidas, cruzou>>

\* The transaction fails and nothing of it stays.
FalhaEnvio(e) ==
    /\ envio[e].pc \in {"procura", "insere", "grava", "confirma"} /\ quedas < MaxQueda
    /\ quedas' = quedas + 1
    /\ envio' = [envio EXCEPT ![e] = Livre]
    /\ UNCHANGED <<aberta, mensagens, last_message_at, leitura, badge, relogio, tentadas, perdidas, cruzou>>

\* marcarLidas: the UPDATE, and, if it changed a row, a notice that is still to be sent.
MarcaLidas(u) ==
    /\ aberta # 0 /\ ~leitura[u] /\ PorLer(u) # {}
    /\ mensagens' = [i \in DOMAIN mensagens |->
                        IF i \in PorLer(u) THEN [mensagens[i] EXCEPT !.lida = TRUE] ELSE mensagens[i]]
    /\ leitura' = [leitura EXCEPT ![u] = TRUE]
    /\ cruzou' = IF AvisosPara(u) # {} THEN cruzou \cup {u} ELSE cruzou
    /\ UNCHANGED <<aberta, envio, last_message_at, badge, relogio, tentadas, quedas, perdidas>>

\* emitToUser(interno:lida): the screens of the reader clear their count.
AvisaLeitura(u) ==
    /\ leitura[u]
    /\ leitura' = [leitura EXCEPT ![u] = FALSE]
    /\ badge' = [badge EXCEPT ![u] = 0]
    /\ UNCHANGED <<aberta, envio, mensagens, last_message_at, relogio, tentadas, quedas, perdidas, cruzou>>

\* The page is loaded again, and asks contarNaoLidas.
RecarregaBadge(u) ==
    /\ badge' = [badge EXCEPT ![u] = Cardinality(PorLer(u))]
    /\ cruzou' = IF AvisosPara(u) # {} THEN cruzou \cup {u}
                 ELSE IF leitura[u] THEN cruzou ELSE cruzou \ {u}
    /\ UNCHANGED <<aberta, envio, mensagens, last_message_at, leitura, relogio, tentadas, quedas, perdidas>>

NextChatInterno ==
    \/ \E e \in Envios : \/ \E u \in Lados : ComecaEnvio(e, u)
                         \/ ProcuraConversa(e) \/ InsereConversa(e) \/ GravaMensagem(e)
                         \/ ConfirmaEnvio(e) \/ AvisaMensagem(e) \/ FalhaEnvio(e)
    \/ \E u \in Lados : MarcaLidas(u) \/ AvisaLeitura(u) \/ RecarregaBadge(u)

SpecChatInterno == InitChatInterno /\ [][NextChatInterno]_varsChatInterno

-----------------------------------------------------------------------------
(***************************************************************************)
(* The conversation is never without a message, shows the instant of the   *)
(* last message committed, and refuses a message only of who began before  *)
(* it was opened: the first messages of the two cross and one is lost.     *)
(***************************************************************************)
ConversaInteira ==
    /\ (aberta # 0) = (mensagens # <<>>)
    /\ mensagens # <<>> => last_message_at = mensagens[Len(mensagens)].hora
    /\ \A h \in perdidas : aberta # 0 /\ h < aberta

(***************************************************************************)
(* The count a reader sees is that of its unread messages once no notice   *)
(* is on its way, unless a message to it and its own reading, or the load  *)
(* of its page, overlapped: then the notices came in the other order.      *)
(***************************************************************************)
ContadorConfere ==
    \A u \in Lados : leitura[u] \/ AvisosPara(u) # {} \/ u \in cruzou
                        \/ badge[u] = Cardinality(PorLer(u))

(***************************************************************************)
(* Two colleagues writing and reading at once keep one conversation whose  *)
(* list and count are right, with those two exceptions.                    *)
(***************************************************************************)
ConversaConfere == ConversaInteira /\ ContadorConfere
=============================================================================
