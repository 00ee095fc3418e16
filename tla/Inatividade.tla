---------------------------- MODULE Inatividade -----------------------------
(***************************************************************************)
(* InactivityResolutionService on one channel: every minute a scan of the  *)
(* chats in attendance, then a warning for each that has been quiet and    *)
(* the closing of each that stayed quiet.  The scan is one query; what it  *)
(* read is acted upon chat by chat, with messages sent in between, and the *)
(* next scan does not wait for that.                                       *)
(*                                                                         *)
(* Time goes by half minutes, so that a message may come between two scans.*)
(***************************************************************************)
EXTENDS Naturals

CONSTANTS Atendimentos,   \* chats of the channel
          Passadas,       \* runs of the scan that may overlap
          ResolverEm,     \* inatividade_resolver_em_minutos
          AvisarAntes,    \* inatividade_avisar_em_minutos, counted back from ResolverEm
          MaxAgora,       \* bound: the last instant
          MaxDemora,      \* bound: how long a run of the scan takes
          MaxDesvio       \* bound: pauses, transfers, changes of policy, lost scans and restarts

VARIABLES agora, batida,  \* the instant, and that of the last scan
          atend,          \* chat -> [status, aceita, falou, avisada, pausada], the row and its last message
          automacao,      \* chats whose contact allows automation
          passada,        \* run -> [resta, faz, linha]: what it read and what it is doing
          desvios,
          avisos,         \* (history) warnings attempted since the last message of a person
          seguida         \* (history) chats whose silence every scan followed, alone and undisturbed

varsInatividade == <<agora, batida, atend, automacao, passada, desvios, avisos, seguida>>

\* validaInatividade: the warning comes before the end.
ASSUME InatividadeAssumption ==
    /\ ResolverEm \in Nat /\ AvisarAntes \in Nat \ {0} /\ AvisarAntes < ResolverEm
    /\ {MaxAgora, MaxDemora, MaxDesvio} \subseteq Nat

Minuto == 2
Nunca == 0
SemLinha == [atend |-> Nunca, ultima |-> Nunca, avisada |-> Nunca, em |-> Nunca]
PassadaLivre == [resta |-> {}, faz |-> "nada", linha |-> SemLinha]
Ocupada(k) == passada[k] # PassadaLivre
Visivel(l) == l.status = "andamento" /\ ~l.pausada

InitInatividade ==
    /\ agora = 1 /\ batida = Nunca
    /\ atend = [a \in Atendimentos |-> [status |-> "espera", aceita |-> Nunca, falou |-> Nunca,
                                        avisada |-> Nunca, pausada |-> FALSE]]
    /\ automacao = Atendimentos
    /\ passada = [k \in Passadas |-> PassadaLivre]
    /\ desvios = 0
    /\ avisos = [a \in Atendimentos |-> 0]
    /\ seguida = Atendimentos

-----------------------------------------------------------------------------
\* The people: requests that other modules follow step by step write here at once.
EscreveLinha(a, l) ==
    /\ atend' = [atend EXCEPT ![a] = l]
    /\ UNCHANGED <<agora, batida, automacao, passada>>

Desvia == desvios < MaxDesvio /\ desvios' = desvios + 1
MesmoSilencio == UNCHANGED <<avisos, seguida>>

\* answered_at is that of the first time.
Aceita(a) ==
    /\ atend[a].status = "espera"
    /\ EscreveLinha(a, [atend[a] EXCEPT !.status = "andamento", !.aceita = IF @ = Nunca THEN agora ELSE @])
    /\ MesmoSilencio /\ UNCHANGED desvios

PausaAtendimento(a) ==
    /\ Visivel(atend[a]) /\ Desvia
    /\ EscreveLinha(a, [atend[a] EXCEPT !.pausada = TRUE])
    /\ MesmoSilencio

RetomaAtendimento(a) ==
    /\ atend[a].status = "andamento" /\ atend[a].pausada
    /\ EscreveLinha(a, [atend[a] EXCEPT !.pausada = FALSE])
    /\ MesmoSilencio /\ UNCHANGED desvios

\* To a colleague or back to the queue; either ends the pause.
TransfereAtendimento(a) ==
    /\ atend[a].status = "andamento" /\ Desvia
    /\ \E destino \in {"andamento", "espera"} :
          EscreveLinha(a, [atend[a] EXCEPT !.status = destino, !.pausada = FALSE])
    /\ MesmoSilencio

EncerraAtendimento(a) ==
    /\ atend[a].status = "andamento"
    /\ EscreveLinha(a, [atend[a] EXCEPT !.status = "encerrado"])
    /\ MesmoSilencio /\ UNCHANGED desvios

\* What a run has still to decide or to carry out.
Decisoes(k) == passada[k].resta \cup ({passada[k].linha} \ {SemLinha})
ComDecisao(a) == {k \in Passadas : \E l \in Decisoes(k) : l.atend = a}

\* A person writes, customer or attendant: a new silence begins.  The message has the
\* time it was written at, and may arrive later.  Two runs may still be deciding about the
\* old silence; a mark not older than the message hides it.
Fala(a) ==
    /\ atend[a].status \in {"espera", "andamento"}
    /\ \E d \in {agora - 1, agora} :
          /\ d > atend[a].falou
          /\ EscreveLinha(a, [atend[a] EXCEPT !.falou = d])
          /\ seguida' = IF (\E j, k \in ComDecisao(a) : j # k) \/ atend[a].avisada >= d
                        THEN seguida \ {a} ELSE seguida \cup {a}
    /\ UNCHANGED desvios
    /\ avisos' = [avisos EXCEPT ![a] = 0]

TrocaPolitica(a) ==
    /\ Desvia
    /\ automacao' = IF a \in automacao THEN automacao \ {a} ELSE automacao \cup {a}
    /\ UNCHANGED <<agora, batida, atend, passada, avisos, seguida>>

-----------------------------------------------------------------------------
\* The last message of a person after the chat was first taken.
UltimaMensagem(l) == IF l.aceita # Nunca /\ l.falou > l.aceita THEN l.falou ELSE Nunca

\* buscarInativosPorCanal: what the scan brings.
Linhas == { [atend |-> a, ultima |-> UltimaMensagem(atend[a]), avisada |-> atend[a].avisada, em |-> agora] :
              a \in {b \in Atendimentos : Visivel(atend[b])} }

\* A scan follows the chats it can see, and only if no other run is still at work.
Acompanhadas == {a \in seguida : Visivel(atend[a]) /\ \A k \in Passadas : ~Ocupada(k)}

\* resolverInativos: the cron fires at every whole minute, whatever still runs.
Bate(k) ==
    /\ agora % Minuto = 0 /\ batida < agora
    /\ ~Ocupada(k)
    /\ passada' = [passada EXCEPT ![k].resta = Linhas]
    /\ batida' = agora
    /\ seguida' = Acompanhadas
    /\ UNCHANGED <<agora, atend, automacao, desvios, avisos>>

\* What is done about a chat: closed after ResolverEm minutes, warned once before; the
\* mark of the warning goes when somebody wrote after it.
MinutosDesde(l) == (l.em - l.ultima) \div Minuto
MinutoDoAviso == ResolverEm - AvisarAntes
Inativa(l) == l.ultima # Nunca /\ MinutosDesde(l) >= ResolverEm
Quieta(l) == l.ultima # Nunca /\ ~Inativa(l) /\ MinutosDesde(l) >= MinutoDoAviso
\* (mutant) The mark holds for a minute only.
AvisadaHaPouco(l) == l.avisada # Nunca /\ (l.em - l.avisada) \div Minuto < 1
Avisada(l) == l.avisada # Nunca
\* (mutant) The mark of the first warning stays.
MarcaPermanente(l) == FALSE
Respondida(l) == Avisada(l) /\ l.ultima > l.avisada

\* Of the rows it read, the run takes one: if the contact's policy allows, the chat is to
\* be closed (its farewell goes first) or warned; or the mark is removed.
ComDecisaoTomada(k, l, faz) ==
    passada' = [passada EXCEPT ![k] = [resta |-> @.resta \ {l}, faz |-> faz,
                                       linha |-> IF faz = "nada" THEN SemLinha ELSE l]]

TrataLinha(k) ==
    \E l \in passada[k].resta :
      LET a == l.atend
      IN /\ passada[k].faz = "nada"
         /\ \/ /\ Inativa(l) /\ a \in automacao
               /\ ComDecisaoTomada(k, l, "fecha") /\ UNCHANGED <<atend, avisos, seguida>>
            \/ /\ Quieta(l) /\ ~Avisada(l) /\ a \in automacao
               /\ ComDecisaoTomada(k, l, "avisa") /\ UNCHANGED <<atend, avisos, seguida>>
            \/ /\ (Inativa(l) \/ (Quieta(l) /\ ~Avisada(l))) /\ a \notin automacao
               /\ seguida' = seguida \ {a}
               /\ ComDecisaoTomada(k, l, "nada") /\ UNCHANGED <<atend, avisos>>
            \/ /\ Quieta(l) /\ Avisada(l)
               /\ ComDecisaoTomada(k, l, "nada") /\ UNCHANGED <<atend, avisos, seguida>>
            \/ /\ ~Inativa(l) /\ ~Quieta(l)
               /\ atend' = IF l.ultima # Nunca /\ Respondida(l)
                           THEN [atend EXCEPT ![a].avisada = Nunca] ELSE atend
               /\ ComDecisaoTomada(k, l, "nada") /\ UNCHANGED <<avisos, seguida>>
         /\ UNCHANGED <<agora, batida, automacao, desvios>>

\* The WHERE of finalizarPorInatividade tests the status alone.
Fechado(l) == IF l.status = "andamento" THEN [l EXCEPT !.status = "inatividade"] ELSE l

\* enviaMensagemAutomatica asks the policy again, and does not say whether it sent.
EnviaAviso(k) ==
    LET a == passada[k].linha.atend
    IN /\ passada[k].faz = "avisa"
       /\ passada' = [passada EXCEPT ![k].faz = "marca"]
       /\ IF a \in automacao THEN avisos' = [avisos EXCEPT ![a] = @ + 1] /\ seguida' = seguida
                               ELSE seguida' = seguida \ {a} /\ avisos' = avisos
       /\ UNCHANGED <<agora, batida, atend, automacao, desvios>>

\* The message is sent: the row is written.  A person may have answered the warning
\* before its mark, which then hides the answer.
ConcluiLinha(k) ==
    LET a == passada[k].linha.atend
    IN /\ passada[k].faz \in {"fecha", "marca"}
       /\ passada' = [passada EXCEPT ![k].faz = "nada", ![k].linha = SemLinha]
       /\ \/ /\ passada[k].faz = "fecha"
             /\ atend' = [atend EXCEPT ![a] = Fechado(@)]
             /\ seguida' = seguida
          \/ /\ passada[k].faz = "marca"
             /\ atend' = [atend EXCEPT ![a].avisada = agora]
             /\ seguida' = IF avisos[a] = 0 THEN seguida \ {a} ELSE seguida
       /\ UNCHANGED <<agora, batida, automacao, desvios, avisos>>

-----------------------------------------------------------------------------
\* A minute goes by without a scan of this channel: the process is down, or the scan of
\* the channel failed.
SemBatida ==
    /\ agora % Minuto = 0 /\ batida < agora
    /\ Desvia
    /\ batida' = agora
    /\ seguida' = {}
    /\ UNCHANGED <<agora, atend, automacao, passada, avisos>>

\* The process restarts: what its runs had read is lost, and a warning that was sent is
\* not marked.
CaiProcesso ==
    /\ Desvia
    /\ passada' = [k \in Passadas |-> PassadaLivre]
    /\ seguida' = {}
    /\ UNCHANGED <<agora, batida, atend, automacao, avisos>>

PassaTempo ==
    /\ agora < MaxAgora
    /\ agora % Minuto = 0 => batida = agora
    /\ \A k \in Passadas : \A l \in Decisoes(k) : agora < l.em + MaxDemora
    /\ agora' = agora + 1
    /\ UNCHANGED <<batida, atend, automacao, passada, desvios, avisos, seguida>>

NextInatividade ==
    \/ \E a \in Atendimentos :
          \/ Aceita(a) \/ PausaAtendimento(a) \/ RetomaAtendimento(a) \/ TransfereAtendimento(a)
          \/ EncerraAtendimento(a) \/ Fala(a) \/ TrocaPolitica(a)
    \/ \E k \in Passadas : Bate(k) \/ TrataLinha(k) \/ EnviaAviso(k) \/ ConcluiLinha(k)
    \/ SemBatida \/ CaiProcesso \/ PassaTempo

SpecInatividade == InitInatividade /\ [][NextInatividade]_varsInatividade

-----------------------------------------------------------------------------
\* The typing of the state.
LinhaLida == [atend : Atendimentos \cup {Nunca}, ultima : Nat, avisada : Nat, em : Nat]
Ficha == [status : {"espera", "andamento", "encerrado", "inatividade"},
          aceita : Nat, falou : Nat, avisada : Nat, pausada : BOOLEAN]
Varredura == [resta : SUBSET LinhaLida, faz : {"nada", "fecha", "avisa", "marca"}, linha : LinhaLida]
TypeOKInatividade ==
    /\ agora \in Nat /\ batida \in Nat /\ desvios \in Nat
    /\ atend \in [Atendimentos -> Ficha]
    /\ automacao \subseteq Atendimentos
    /\ passada \in [Passadas -> Varredura]
    /\ avisos \in [Atendimentos -> Nat]
    /\ seguida \subseteq Atendimentos

(***************************************************************************)
(* "Com aviso prévio": a chat is closed only if a warning was attempted    *)
(* since a person last wrote.  The ways out are that somebody wrote after  *)
(* the scan, or wrote between a warning and its mark, that a scan did not  *)
(* see the chat (paused, queued, no scan), that two runs overlapped, or    *)
(* that the contact's policy held the warning back.  It takes more than a  *)
(* minute before the warning for the scan to notice every message.         *)
(***************************************************************************)
FechaAvisada(a) ==
    \E k \in Passadas :
        /\ passada[k].faz = "fecha" /\ passada[k].linha.atend = a
        /\ avisos[a] > 0 \/ atend[a].falou > passada[k].linha.ultima

Fechou(a) == atend[a].status # "inatividade" /\ atend'[a].status = "inatividade"

FechaSoDepoisDoAviso ==
    [][MinutoDoAviso > 1 =>
          \A a \in Atendimentos : Fechou(a) => FechaAvisada(a) \/ a \notin seguida]_varsInatividade

(***************************************************************************)
(* One silence is warned of once: the marks of earlier runs hold later     *)
(* ones back, unless runs overlap or a restart comes before the mark.      *)
(***************************************************************************)
UmAvisoPorSilencio == \A a \in Atendimentos : avisos[a] <= 1 \/ a \notin seguida

(***************************************************************************)
(* What the service says it does, "com aviso prévio ao cliente", and what  *)
(* its query says of pauses and of the queue, which are not to count as    *)
(* inactivity.                                                             *)
(***************************************************************************)
AvisoPrevio ==
    [][\A a \in Atendimentos : Fechou(a) => FechaAvisada(a)]_varsInatividade
=============================================================================
