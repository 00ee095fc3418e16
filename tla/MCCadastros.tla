---------------------------- MODULE MCCadastros ----------------------------
\* What people register and how they meet: the sessions of one user, the user's links,
\* the bonds of channels, chatbots and departments, the agenda, the internal chat and the
\* presence.  Each is on its own: a behaviour is one of them while the others rest.
EXTENDS Sessoes, Links, Vinculos, Agenda, ChatInterno, Presenca, TLC

VARIABLE parte

vars == <<parte, varsSessoes, varsLinks, varsVinculos, varsAgenda, varsChatInterno, varsPresenca>>

InitVinculosParado ==
    /\ InitVinculos
    /\ bot = [b \in Bots |-> [ativo |-> TRUE, removido |-> FALSE, rascunho |-> GrafoVazio, vigente |-> 0]]
    /\ vinculo = [c \in Canais |-> [setores |-> {}, bots |-> {}, padrao |-> SemValor]]

Init == /\ parte \in {"sessoes", "links", "vinculos", "agenda", "chat", "presenca"}
        /\ InitSessoes /\ InitAgenda /\ InitChatInterno
        /\ IF parte = "links" THEN InitLinks ELSE InitLinks /\ \A l \in links : l.recebido
        /\ IF parte = "vinculos" THEN InitVinculos ELSE InitVinculosParado
        /\ InitPresenca /\ (parte = "presenca" \/ \A s, t \in Sockets : deQuem[s] = deQuem[t])

Next ==
    /\ UNCHANGED parte
    /\ \/ /\ parte = "sessoes" /\ NextSessoes
          /\ UNCHANGED <<varsLinks, varsVinculos, varsAgenda, varsChatInterno, varsPresenca>>
       \/ /\ parte = "links" /\ NextLinks
          /\ UNCHANGED <<varsSessoes, varsVinculos, varsAgenda, varsChatInterno, varsPresenca>>
       \/ /\ parte = "vinculos" /\ NextVinculos
          /\ UNCHANGED <<varsSessoes, varsLinks, varsAgenda, varsChatInterno, varsPresenca>>
       \/ /\ parte = "agenda" /\ NextAgenda
          /\ UNCHANGED <<varsSessoes, varsLinks, varsVinculos, varsChatInterno, varsPresenca>>
       \/ /\ parte = "chat" /\ NextChatInterno
          /\ UNCHANGED <<varsSessoes, varsLinks, varsVinculos, varsAgenda, varsPresenca>>
       \/ /\ parte = "presenca" /\ NextPresenca
          /\ UNCHANGED <<varsSessoes, varsLinks, varsVinculos, varsAgenda, varsChatInterno>>

Spec == Init /\ [][Next]_vars

\* The parts share the names of their actors, so that one symmetry serves them all.
Simetria == Permutations(Pedidos) \cup Permutations(Setores)
=============================================================================
