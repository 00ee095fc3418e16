------------------------------- MODULE Agenda -------------------------------
(***************************************************************************)
(* The appointments of the attendants and their reminders: requests create,*)
(* edit and remove them and are told of conflicts (schedules.service), and *)
(* every minute a round, which does not wait for the one before it, makes  *)
(* the reminders that are due (schedule-reminders.service).                *)
(*                                                                         *)
(* An appointment fills one hour of its owner: two conflict when they have *)
(* the same hour and the same owner.                                       *)
(***************************************************************************)
EXTENDS Naturals, FiniteSets

CONSTANTS Compromissos, Donos,
          Solicitacoes,     \* requests at once
          Rodadas,          \* rounds at once
          Antecedencia,     \* reminder_minutes
          MaxMinuto,        \* bound: the last minute
          MaxSolicitacao,   \* bound: requests ever made
          MaxFalha          \* bound: transactions of reminders that fail

VARIABLES agenda,           \* schedules: id -> [hora, dono], or Nenhum
          solicitacao,      \* request -> what it has read and is going to write
          minuto,
          disparada,        \* the last minute whose round began
          rodada,           \* round -> [pc, pendentes, item]
          lembretes,        \* committed reminders: [n, id, hora, dono]
          pedidas, falhas,
          confirmados,      \* (history) conflicts somebody accepted
          cruzados,         \* (history) conflicts whose requests checked before either wrote
          tardios,          \* (history) appointments written too late for a round
          repetidos,        \* (history) reminders two rounds were making at once
          perdidos          \* (history) reminders of the last round before their hour, which failed

varsAgenda == <<agenda, solicitacao, minuto, disparada, rodada, lembretes, pedidas, falhas,
                confirmados, cruzados, tardios, repetidos, perdidos>>

ASSUME AgendaAssumption == {Antecedencia, MaxMinuto} \subseteq Nat \ {0} /\ {MaxSolicitacao, MaxFalha} \subseteq Nat

Nenhum == [hora |-> 0, dono |-> "ninguem"]
Ocioso == [pc |-> "fora", id |-> CHOOSE c \in Compromissos : TRUE, valor |-> Nenhum]
SemVolta == [pc |-> "fora", pendentes |-> {}, item |-> <<>>]
Horas == 1..MaxMinuto
Marcados == {c \in Compromissos : agenda[c] # Nenhum}

InitAgenda ==
    /\ agenda = [c \in Compromissos |-> Nenhum]
    /\ solicitacao = [p \in Solicitacoes |-> Ocioso]
    /\ minuto = 0 /\ disparada = 0
    /\ rodada = [r \in Rodadas |-> SemVolta]
    /\ lembretes = {}
    /\ pedidas = 0 /\ falhas = 0
    /\ confirmados = {} /\ cruzados = {} /\ tardios = {} /\ repetidos = {} /\ perdidos = {}

(***************************************************************************)
(* Requests                                                                *)
(***************************************************************************)
\* conflitos(userId, inicio, fim, ignorarId)
Conflitos(c, valor) == {d \in Marcados \ {c} : agenda[d] = valor}

\* No round is still to begin before that hour.
SemMaisRodada(hora) == hora <= minuto \/ (hora = minuto + 1 /\ disparada = minuto)

EmUso(c) == \E p \in Solicitacoes : solicitacao[p].pc # "fora" /\ solicitacao[p].id = c

\* criar: a new appointment, whose id nobody knows yet.
PedeCriacao(p, c, valor) ==
    /\ solicitacao[p].pc = "fora" /\ pedidas < MaxSolicitacao
    /\ c \notin Marcados /\ ~EmUso(c)
    /\ pedidas' = pedidas + 1
    /\ solicitacao' = [solicitacao EXCEPT ![p] = [pc |-> "confere", id |-> c, valor |-> valor]]
    /\ UNCHANGED <<agenda, minuto, disparada, rodada, lembretes, falhas, confirmados, cruzados,
                   tardios, repetidos, perdidos>>

\* atualizar: what the request leaves out is what the row has now.
PedeMudanca(p, c, mudaHora, mudaDono, valor) ==
    /\ solicitacao[p].pc = "fora" /\ pedidas < MaxSolicitacao
    /\ c \in Marcados
    /\ pedidas' = pedidas + 1
    /\ solicitacao' = [solicitacao EXCEPT ![p] = [pc |-> "confere", id |-> c,
            valor |-> [hora |-> IF mudaHora THEN valor.hora ELSE agenda[c].hora,
                       dono |-> IF mudaDono THEN valor.dono ELSE agenda[c].dono]]]
    /\ UNCHANGED <<agenda, minuto, disparada, rodada, lembretes, falhas, confirmados, cruzados,
                   tardios, repetidos, perdidos>>

\* exigirConfirmacaoDeConflito: a conflict has to be accepted.
ConfereConflito(p, confirma) ==
    LET q == solicitacao[p]
        achados == Conflitos(q.id, q.valor)
    IN /\ q.pc = "confere"
       /\ solicitacao' = [solicitacao EXCEPT ![p] = IF achados # {} /\ ~confirma THEN Ocioso ELSE [q EXCEPT !.pc = "grava"]]
       /\ confirmados' = IF confirma THEN confirmados \cup {{q.id, d} : d \in achados} ELSE confirmados
       /\ UNCHANGED <<agenda, minuto, disparada, rodada, lembretes, pedidas, falhas, cruzados,
                      tardios, repetidos, perdidos>>

\* The whole row is saved; if it has been removed meanwhile, save inserts it again.
GravaCompromisso(p) ==
    LET q == solicitacao[p]
    IN /\ q.pc = "grava"
       /\ agenda' = [agenda EXCEPT ![q.id] = q.valor]
       /\ solicitacao' = [solicitacao EXCEPT ![p] = Ocioso]
       /\ cruzados' = cruzados \cup {{q.id, solicitacao[o].id} : o \in {o \in Solicitacoes : solicitacao[o].pc = "grava"}}
       /\ tardios' = IF SemMaisRodada(q.valor.hora)
                     THEN tardios \cup {[id |-> q.id, hora |-> q.valor.hora, dono |-> q.valor.dono]} ELSE tardios
       /\ UNCHANGED <<minuto, disparada, rodada, lembretes, pedidas, falhas, confirmados, repetidos, perdidos>>

\* remover
RemoveCompromisso(c) ==
    /\ c \in Marcados
    /\ agenda' = [agenda EXCEPT ![c] = Nenhum]
    /\ UNCHANGED <<solicitacao, minuto, disparada, rodada, lembretes, pedidas, falhas, confirmados,
                   cruzados, tardios, repetidos, perdidos>>

(***************************************************************************)
(* Reminders                                                               *)
(***************************************************************************)
\* (mutant) A reminder silences its appointment, whatever the hour.
DoCompromisso(k) == \E l \in lembretes : l.id = k.id /\ l.dono = k.dono

\* A reminder belongs to the hour and the owner it was made for.
JaLembrado(k) == \E l \in lembretes : l.id = k.id /\ l.hora = k.hora /\ l.dono = k.dono

Chave(c) == [id |-> c, hora |-> agenda[c].hora, dono |-> agenda[c].dono]

LembretesDevidos == {k \in {Chave(c) : c \in Marcados} :
                 k.hora > minuto /\ k.hora <= minuto + Antecedencia /\ ~JaLembrado(k)}

\* verificar: the round of this minute, were another still going on.
Dispara(r) ==
    /\ rodada[r].pc = "fora" /\ disparada < minuto
    /\ disparada' = minuto
    /\ rodada' = [rodada EXCEPT ![r] = [SemVolta EXCEPT !.pc = "percorre", !.pendentes = LembretesDevidos]]
    /\ UNCHANGED <<agenda, solicitacao, minuto, lembretes, pedidas, falhas, confirmados, cruzados,
                   tardios, repetidos, perdidos>>

\* criar: the next of the list, looked for again inside its transaction.
VerificaLembrete(r) ==
    /\ rodada[r].pc = "percorre"
    /\ \/ /\ rodada[r].pendentes = {}
          /\ rodada' = [rodada EXCEPT ![r] = SemVolta]
          /\ UNCHANGED repetidos
       \/ \E k \in rodada[r].pendentes :
             /\ rodada' = [rodada EXCEPT ![r].pendentes = @ \ {k},
                                         ![r].pc = IF JaLembrado(k) THEN "percorre" ELSE "confirma",
                                         ![r].item = IF JaLembrado(k) THEN <<>> ELSE <<k>>]
             /\ repetidos' = IF \E o \in Rodadas : rodada[o].pc = "confirma" /\ rodada[o].item = <<k>>
                             THEN repetidos \cup {k} ELSE repetidos
    /\ UNCHANGED <<agenda, solicitacao, minuto, disparada, lembretes, pedidas, falhas, confirmados,
                   cruzados, tardios, perdidos>>

\* The transaction commits: notification and recipient are there.
ConfirmaLembrete(r) ==
    LET k == rodada[r].item[1]
    IN /\ rodada[r].pc = "confirma"
       /\ lembretes' = lembretes \cup {[n |-> Cardinality(lembretes) + 1, id |-> k.id, hora |-> k.hora, dono |-> k.dono]}
       /\ rodada' = [rodada EXCEPT ![r].pc = "percorre", ![r].item = <<>>]
       /\ UNCHANGED <<agenda, solicitacao, minuto, disparada, pedidas, falhas, confirmados, cruzados,
                      tardios, repetidos, perdidos>>

\* It fails, and the rest of the round with it.
FalhaLembrete(r) ==
    /\ rodada[r].pc = "confirma" /\ falhas < MaxFalha
    /\ falhas' = falhas + 1
    /\ perdidos' = perdidos \cup {k \in rodada[r].pendentes \cup {rodada[r].item[1]} : SemMaisRodada(k.hora)}
    /\ rodada' = [rodada EXCEPT ![r] = SemVolta]
    /\ UNCHANGED <<agenda, solicitacao, minuto, disparada, lembretes, pedidas, confirmados, cruzados,
                   tardios, repetidos>>

\* A minute goes by; the cron has started the round of the one before.
PassaMinuto ==
    /\ minuto < MaxMinuto /\ disparada = minuto
    /\ minuto' = minuto + 1
    /\ UNCHANGED <<agenda, solicitacao, disparada, rodada, lembretes, pedidas, falhas, confirmados,
                   cruzados, tardios, repetidos, perdidos>>

NextAgenda ==
    \/ \E p \in Solicitacoes :
          \/ \E c \in Compromissos, valor \in [hora : Horas, dono : Donos] :
                \/ PedeCriacao(p, c, valor)
                \/ \E mudaHora, mudaDono \in BOOLEAN : PedeMudanca(p, c, mudaHora, mudaDono, valor)
          \/ \E confirma \in BOOLEAN : ConfereConflito(p, confirma)
          \/ GravaCompromisso(p)
    \/ \E c \in Compromissos : RemoveCompromisso(c)
    \/ \E r \in Rodadas : Dispara(r) \/ VerificaLembrete(r) \/ ConfirmaLembrete(r) \/ FalhaLembrete(r)
    \/ PassaMinuto

SpecAgenda == InitAgenda /\ [][NextAgenda]_varsAgenda

-----------------------------------------------------------------------------
(***************************************************************************)
(* An owner has two appointments at one hour only if somebody accepted the *)
(* conflict or the two were checked before either was written.             *)
(***************************************************************************)
ConflitoConsentido ==
    \A c, d \in Marcados : c # d /\ agenda[c] = agenda[d] => {c, d} \in confirmados \cup cruzados

(***************************************************************************)
(* An appointment is not reminded twice to one owner for one hour, unless  *)
(* two rounds were making its reminder at once: no index forbids it.       *)
(***************************************************************************)
LembreteUnico ==
    \A l, m \in lembretes : l.n = m.n \/ [id |-> l.id, hora |-> l.hora, dono |-> l.dono] \in repetidos
                            \/ l.id # m.id \/ l.hora # m.hora \/ l.dono # m.dono

(***************************************************************************)
(* Who has an appointment was reminded of it when its hour comes, whatever *)
(* was moved before: but for one written too late, a round still going on  *)
(* and a failure of the last one: an earlier failure is made good.         *)
(***************************************************************************)
TodosLembrados ==
    \A c \in Marcados :
        \/ agenda[c].hora > minuto \/ Chave(c) \in tardios \cup perdidos
        \/ \E l \in lembretes : [id |-> l.id, hora |-> l.hora, dono |-> l.dono] = Chave(c)
        \/ \E r \in Rodadas : Chave(c) \in rodada[r].pendentes \/ rodada[r].item = <<Chave(c)>>

(***************************************************************************)
(* The agenda: conflicts accepted, one reminder each, and none forgotten.  *)
(***************************************************************************)
AgendaConfere == ConflitoConsentido /\ LembreteUnico /\ TodosLembrados
=============================================================================
